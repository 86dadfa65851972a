------------------------------ MODULE OutputFeed ------------------------------
(***************************************************************************)
(* What the log of a process promises its readers, free of pumps, bytes    *)
(* and locks: the output is a feed of chunks numbered from 1, of which the *)
(* oldest may be dropped.  A reader takes a run of consecutive chunks that *)
(* begins right after its cursor, or at the oldest chunk if that is later, *)
(* and at least one if there is one; `lost' tells it, unless it never read *)
(* anything, that chunks it has not seen are gone, `more' that it did not  *)
(* get all there is.  Its cursor then moves to the last chunk it was given.*)
(* A reader may turn away for good, to the feed of a later child.          *)
(***************************************************************************)
EXTENDS Integers, Sequences

CONSTANT Readers

VARIABLES
    oldest,     \* the first chunk that is still kept
    next,       \* the number of the next chunk
    batch,      \* reader -> what it took and was not given yet
    cursor      \* reader -> the last chunk it was given, 0 before the first

vars == <<oldest, next, batch, cursor>>

Nothing == [out |-> <<>>, lost |-> FALSE, more |-> FALSE]

Init ==
    /\ oldest = 1 /\ next = 1
    /\ batch = [r \in Readers |-> Nothing]
    /\ cursor = [r \in Readers |-> 0]

(* A chunk comes in; older ones, or this one, may be dropped to make room. *)
Emit ==
    /\ next' = next + 1
    /\ oldest' \in oldest .. next'
    /\ UNCHANGED <<batch, cursor>>

From(r) == IF cursor[r] + 1 >= oldest THEN cursor[r] + 1 ELSE oldest

Take(r) ==
    /\ \E to \in From(r) - 1 .. next - 1 :
          /\ From(r) < next => to >= From(r)
          /\ batch' = [batch EXCEPT ![r] =
                [out  |-> [k \in 1 .. to + 1 - From(r) |-> From(r) + k - 1],
                 lost |-> cursor[r] # 0 /\ From(r) # cursor[r] + 1,
                 more |-> to < next - 1]]
    /\ UNCHANGED <<oldest, next, cursor>>

Give(r) ==
    /\ batch[r].out # <<>>
    /\ cursor' = [cursor EXCEPT ![r] = batch[r].out[Len(batch[r].out)]]
    /\ batch' = [batch EXCEPT ![r] = Nothing]
    /\ UNCHANGED <<oldest, next>>

(* It gets no answer, or one without chunks: it goes on where it was. *)
Miss(r) ==
    /\ batch' = [batch EXCEPT ![r] = Nothing]
    /\ UNCHANGED <<oldest, next, cursor>>

Leave(r) ==
    /\ batch' = [batch EXCEPT ![r] = Nothing]
    /\ cursor' = [cursor EXCEPT ![r] = 0]
    /\ UNCHANGED <<oldest, next>>

Next == Emit \/ \E r \in Readers : Take(r) \/ Give(r) \/ Miss(r) \/ Leave(r)

Spec == Init /\ [][Next]_vars
=============================================================================

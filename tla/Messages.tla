------------------------------ MODULE Messages ------------------------------
(***************************************************************************)
(* convo.GetMessageRange (convo/message.go): the latest messages of a      *)
(* Convo in a range of time, read backwards with a cursor in one View.     *)
(*                                                                         *)
(* A message is its key, an RFC3339 time: Convos describes how the Scribe  *)
(* comes to keep one message of each second.  Keys are compared as bytes,  *)
(* which orders them by time as long as the zone of the server keeps its   *)
(* offset; this is assumed here.                                           *)
(***************************************************************************)
EXTENDS Integers, FiniteSets, FiniteSetsExt, SequencesExt

CONSTANTS
    Time,   \* the seconds that messages may bear and clients may ask for
    Limit   \* the numbers of messages that may be asked for

ASSUME TimeAssumption  == Time \subseteq Int /\ Time # {} /\ IsFiniteSet(Time)
ASSUME LimitAssumption == Limit \subseteq Nat

VARIABLES
    keys,     \* the keys in the bucket of the Convo
    from, to, \* the range asked for, both ends included
    max,      \* how many messages, at most
    pc,       \* "seek", "back", "read", "reverse" or "done"
    t,        \* the key under the cursor, or where it has left the bucket
    i,        \* the messages swapped so far
    result

args == <<keys, from, to, max>>
vars == <<args, pc, t, i, result>>

Init ==
    /\ keys \in SUBSET Time
    /\ from \in Time /\ to \in Time
    /\ max \in Limit
    /\ pc = "seek"
    /\ t = to
    /\ i = 0
    /\ result = <<>>

-----------------------------------------------------------------------------
(* The cursor of bolt.  A cursor that has left the bucket stands past the  *)
(* last key or before the first one, and t is nil.                         *)

IsNil == t \notin keys

Least(S)    == IF S = {} THEN Max(Time) + 1 ELSE Min(S)
Greatest(S) == IF S = {} THEN Min(Time) - 1 ELSE Max(S)

\* Cursor.Prev also finds the last key when Seek has run past it.
Prev == t' = Greatest({k \in keys : k < t})

-----------------------------------------------------------------------------
Seek ==
    /\ pc = "seek"
    /\ t' = Least({k \in keys : k >= to})
    /\ pc' = "back"
    /\ UNCHANGED <<args, i, result>>

\* Mutant: a message newer than the range is not stepped over.
BackOnlyFromEnd ==
    /\ pc = "back"
    /\ IF IsNil THEN Prev ELSE UNCHANGED t
    /\ pc' = IF t' \in keys /\ t' >= from THEN "read" ELSE "done"
    /\ UNCHANGED <<args, i, result>>

\* The switch after Seek: what was found is too new, or nothing was, and the
\* cursor steps back; or it is at the end of the range.
Back ==
    /\ pc = "back"
    /\ \/ /\ IsNil \/ t > to
          /\ Prev
          /\ pc' = IF t' \in keys /\ t' >= from THEN "read" ELSE "done"
       \/ /\ ~IsNil /\ t <= to
          /\ UNCHANGED t
          /\ pc' = "read"
    /\ UNCHANGED <<args, i, result>>

\* The loop that reads backwards.
Read ==
    /\ pc = "read"
    /\ \/ /\ ~IsNil /\ Len(result) < max /\ t >= from
          /\ result' = Append(result, t)
          /\ Prev
          /\ UNCHANGED pc
       \/ /\ IsNil \/ Len(result) >= max \/ t < from
          /\ pc' = "reverse"
          /\ UNCHANGED <<t, result>>
    /\ UNCHANGED <<args, i>>

\* The loop that swaps the halves of the result: Go counts i from 0.
Swap ==
    LET n == Len(result)
    IN  /\ pc = "reverse"
        /\ \/ /\ i < n \div 2
              /\ i' = i + 1
              /\ result' = [result EXCEPT ![n - i] = result[i + 1],
                                          ![i + 1] = result[n - i]]
              /\ UNCHANGED pc
           \/ /\ i >= n \div 2
              /\ pc' = "done"
              /\ UNCHANGED <<i, result>>
        /\ UNCHANGED <<args, t>>

\* The request has been answered.
Terminating == pc = "done" /\ UNCHANGED vars

Next == Seek \/ Back \/ Read \/ Swap \/ Terminating

Spec == Init /\ [][Next]_vars

-----------------------------------------------------------------------------
(* Properties.                                                             *)

\* "GetMessageRange gets a slice of up to max Messages for the given time
\* range": the answer holds exactly the latest messages of the range, as many
\* as there are and were asked for, the oldest first.
RangeIsLatest ==
    LET inRange == {k \in keys : from <= k /\ k <= to}
        got     == ToSet(result)
    IN  pc = "done" =>
            /\ \A j, k \in DOMAIN result : j < k => result[j] < result[k]
            /\ got \subseteq inRange
            /\ Len(result) = Min({max, Cardinality(inRange)})
            /\ \A k \in inRange \ got : \A g \in got : k < g
=============================================================================

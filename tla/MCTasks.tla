------------------------------ MODULE MCTasks -------------------------------
(* Instances of Tasks for TLC.                                             *)
EXTENDS Tasks, TLC

CONSTANTS ann, bob, n1, n2

\* ann's tasks, with groups, bounties, completers and notes from small sets.
Bodies(Groups, Bounties, By, Notes) ==
    {[owner |-> ann, readers |-> g, writers |-> g, bounty |-> b,
      completed |-> c, completedBy |-> by, notes |-> n] :
        g \in Groups, b \in Bounties, c \in BOOLEAN, by \in By, n \in Notes}

Both == {{ann, bob}}

\* Bounties and members change, and the task is completed and un-completed.
TermsBodies == Bodies(Both, {1, 2}, {None, bob}, {{n1}})
                   \cup Bodies({{ann}}, {1}, {None}, {{n1}})

\* Ownership of an incomplete task is handed over, also to somebody outside the
\* group, and a note is added.
HandoverBodies ==
    LET own == {b \in Bodies({{ann}, {ann, bob}}, {2}, {None}, {{n1}}) :
                    ~b.completed}
    IN  own \cup {[b EXCEPT !.owner = bob, !.notes = {n1, n2}] : b \in own}

AllBodies == TermsBodies \cup HandoverBodies

Symmetric == Permutations(Req) \cup Permutations(TaskId)
=============================================================================

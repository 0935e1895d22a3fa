------------------------------ MODULE MCParNew ------------------------------
(***************************************************************************)
(* Instances of ParNew.  Two threads, a group of roots of each kind.       *)
(***************************************************************************)
EXTENDS ParNew

CONSTANTS a, b, c, d

\* An array of two chunks and two objects, of which one is reached by both.
\* Nothing overflows; objects are copied, promoted, or stay where they are.
Array == [roots |-> << <<a>>, <<b>> >>,
          fields |-> [o \in Objects |->
                        CASE o = a -> << <<b>>, <<c>> >>
                          [] o = b -> << <<>> >>
                          [] OTHER -> << <<>> >>],
          arrays |-> {a},
          avoid_promotion_undo |-> TRUE, outcomes |-> {"to", "old"}, overflow_a_lot |-> FALSE]

\* One object with three references, one more than a queue has room for.
Wide == [roots |-> << <<a>>, <<>> >>,
         fields |-> [o \in Objects |-> IF o = a THEN << <<b, c, d>> >> ELSE << <<>> >>],
         arrays |-> {},
         avoid_promotion_undo |-> FALSE, outcomes |-> {"to"}, overflow_a_lot |-> FALSE]

\* The second collection of a run: one object, both mechanisms of claiming.
One == [roots |-> << <<a>>, <<>> >>,
        fields |-> [o \in Objects |-> << <<>> >>],
        arrays |-> {},
        avoid_promotion_undo |-> FALSE, outcomes |-> {"to"}, overflow_a_lot |-> FALSE]

\* The array and an object that refer to each other overflow the queues.
Overflow == [roots |-> << <<a>>, <<b>> >>,
             fields |-> [o \in Objects |->
                           CASE o = a -> << <<b>>, <<>> >> [] o = b -> << <<a>> >>
                             [] OTHER -> << <<>> >>],
             arrays |-> {a},
             avoid_promotion_undo |-> FALSE, outcomes |-> {"to", "fail"},
             overflow_a_lot |-> TRUE]

\* The queues begin where their indices wrap, or at the beginning.
MCScenarios == {[start |-> 3, collections |-> <<Array>>],
                [start |-> 3, collections |-> <<Wide>>],
                [start |-> 0, collections |-> <<Overflow>>],
                [start |-> 0, collections |-> <<One, One>>]}

Symmetry == Permutations(GangWorkers)

=============================================================================

------------------------- MODULE MCScalarActuator -------------------------
(***************************************************************************)
(* Small instances of ScalarActuator for TLC.                              *)
(***************************************************************************)
EXTENDS ScalarActuator

Values3 == {"a", "b", "c"}
Two == {"boost", "gov"}
StartTwo == [t \in Two |-> "a"]

\* The kernel keeps what it is given.
Exact == [v \in Values3 |-> {v}]
\* The kernel rounds "b" to "c", another value of the domain.
Rounded == [v \in Values3 |-> IF v = "b" THEN {"b", "c"} ELSE {v}]

\* One attribute that others write at any moment, a reboot and two crashes.
Race == [targets |-> {"gov"}, racing |-> TRUE, torn |-> FALSE, boots |-> 1, crashes |-> 2,
         foreign |-> 3]
\* Two attributes in one batch, others between operations.
Batch == [targets |-> Two, racing |-> FALSE, torn |-> FALSE, boots |-> 0, crashes |-> 1,
          foreign |-> 1]
Alone == [targets |-> {"gov"}, racing |-> FALSE, torn |-> FALSE, boots |-> 0, crashes |-> 0,
          foreign |-> 0]
Torn == [Alone EXCEPT !.torn = TRUE, !.crashes = 1]

RaceAndBatch == {Race, Batch}
OnlyAlone == {Alone}
OnlyTorn == {Torn}
=============================================================================

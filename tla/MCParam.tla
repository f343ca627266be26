------------------------------ MODULE MCParam ------------------------------
(***************************************************************************)
(* A number, a string in a buffer of two characters, two events with a     *)
(* handler, one without, and an element whose type was never set.  Values  *)
(* have up to three characters, a digit and a letter.                      *)
(***************************************************************************)
EXTENDS Param

MCElements == <<
    [key |-> "n", type |-> "int32",   valueSize |-> 0, handled |-> FALSE],
    [key |-> "e", type |-> "event",   valueSize |-> 0, handled |-> TRUE],
    [key |-> "s", type |-> "string",  valueSize |-> 2, handled |-> FALSE],
    [key |-> "f", type |-> "event",   valueSize |-> 0, handled |-> TRUE],
    [key |-> "g", type |-> "event",   valueSize |-> 0, handled |-> FALSE],
    [key |-> "u", type |-> "unknown", valueSize |-> 0, handled |-> FALSE] >>
MCChars == {49, 97}

Sent(key, data, more) == [key |-> key, equals |-> TRUE, data |-> data, more |-> more]

MCRequests ==
    {Sent("n", data, more) : data \in {<<>>, <<97>>, <<49>>, <<49, 97>>}, more \in BOOLEAN}
        \cup {Sent("s", data, FALSE) : data \in {<<>>, <<49>>, <<97, 49>>, <<97, 97>>, <<49, 97, 49>>}}
        \cup {Sent(key, <<>>, FALSE) : key \in {"e", "f", "g", "u", "none"}}
        \cup {[Sent("n", <<>>, FALSE) EXCEPT !.equals = FALSE]}
=============================================================================

-------------------------- MODULE MCControlCipher --------------------------
(* Three messages on each kind of connection, one of two frames.             *)
EXTENDS ControlCipher

AllPlans ==
    {[aead |-> TRUE, sameKey |-> TRUE, parts |-> <<1, 2, 1>>],
     [aead |-> TRUE, sameKey |-> FALSE, parts |-> <<1, 1>>],
     [aead |-> FALSE, sameKey |-> TRUE, parts |-> <<2, 1, 2>>],
     [aead |-> FALSE, sameKey |-> FALSE, parts |-> <<2>>]}
=============================================================================

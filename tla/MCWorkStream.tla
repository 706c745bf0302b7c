----------------------------- MODULE MCWorkStream -----------------------------
(* Three chunks through each of the seven stacks, and one or two back.        *)
EXTENDS WorkStream

AllStacks == SUBSET {"limited", "encrypted", "compressed"} \ {{}}
EncryptedOnly == {{"encrypted"}}
=============================================================================

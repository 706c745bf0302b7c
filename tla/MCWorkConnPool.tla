-------------------------- MODULE MCWorkConnPool --------------------------
(* A pool of two slots that is asked three times, so that one request     *)
(* meets a full pool and a slot is used a second time.                    *)
EXTENDS WorkConnPool
=============================================================================

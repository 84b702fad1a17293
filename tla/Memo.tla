-------------------------------- MODULE Memo --------------------------------
(***************************************************************************)
(* What a lazily filled table promises its callers: the value of a key is  *)
(* made once, by the first caller who can make it, and never replaced; who *)
(* asks for a key gets that very value, and an error only while there is   *)
(* none; nothing is made that the table does not keep.                     *)
(* GitalyConnections and Secret are shown to implement this module.        *)
(***************************************************************************)
CONSTANTS Callers, Keys, Values, None

VARIABLES key,    \* key[c]: what caller c asks for
          memo,   \* memo[k]: value of k, None if there is none yet
          made,   \* values that were made
          answer  \* answer[c]: "pending", "failed" or a value

mvars == <<key, memo, made, answer>>

MInit == /\ key \in [Callers -> Keys]
         /\ memo = [k \in Keys |-> None]
         /\ made = {}
         /\ answer = [c \in Callers |-> "pending"]

Answer(c, a) == /\ answer[c] = "pending"
                /\ answer' = [answer EXCEPT ![c] = a]
                /\ UNCHANGED key

Find(c) == /\ memo[key[c]] # None
           /\ Answer(c, memo[key[c]])
           /\ UNCHANGED <<memo, made>>

Make(c, v) == /\ memo[key[c]] = None
              /\ v \notin made
              /\ memo' = [memo EXCEPT ![key[c]] = v]
              /\ made' = made \cup {v}
              /\ Answer(c, v)

Fail(c) == /\ memo[key[c]] = None
           /\ Answer(c, "failed")
           /\ UNCHANGED <<memo, made>>

MNext == \E c \in Callers : \/ Find(c)
                            \/ Fail(c)
                            \/ \E v \in Values : Make(c, v)

MSpec == MInit /\ [][MNext]_mvars
=============================================================================

---------------------------- MODULE ExpertCache ----------------------------
(***************************************************************************)
(* What the streamer promises its caller, without queues, workers or       *)
(* ticks: a fully associative cache of experts.  A slot is free, loading an  *)
(* expert, caching it, or held by the caller; an expert is in one slot at  *)
(* most; a held slot's bytes are its expert's until it is released; a load *)
(* may fail, and any slot that is not loading or held may be reused.       *)
(***************************************************************************)
CONSTANTS Slots, Keys, Vault, NoKey

VARIABLES status, key, bytes

cacheVars == <<status, key, bytes>>

Statuses == {"free", "loading", "cached", "held"}

Init ==
    /\ status = [s \in Slots |-> "free"]
    /\ key    = [s \in Slots |-> NoKey]
    /\ bytes  = [s \in Slots |-> NoKey]

Resident(k) == \E s \in Slots : key[s] = k

Load(s, k) ==
    /\ status[s] \in {"free", "cached"}
    /\ ~Resident(k)
    /\ status' = [status EXCEPT ![s] = "loading"]
    /\ key'    = [key EXCEPT ![s] = k]
    /\ bytes'  = [bytes EXCEPT ![s] = NoKey]

Loaded(s) ==
    /\ status[s] = "loading"
    /\ key[s] \in Vault
    /\ status' = [status EXCEPT ![s] = "cached"]
    /\ bytes'  = [bytes EXCEPT ![s] = key[s]]
    /\ UNCHANGED key

\* A failed read, an expert the vault lacks, or a full request queue.
GiveUp(s) ==
    /\ status[s] = "loading"
    /\ status' = [status EXCEPT ![s] = "free"]
    /\ key'    = [key EXCEPT ![s] = NoKey]
    /\ UNCHANGED bytes

Claim(s) ==
    /\ status[s] = "cached"
    /\ status' = [status EXCEPT ![s] = "held"]
    /\ UNCHANGED <<key, bytes>>

Release(s) ==
    /\ status[s] = "held"
    /\ status' = [status EXCEPT ![s] = "cached"]
    /\ UNCHANGED <<key, bytes>>

Next ==
    \E s \in Slots :
        \/ \E k \in Keys : Load(s, k)
        \/ Loaded(s) \/ GiveUp(s) \/ Claim(s) \/ Release(s)

Spec == Init /\ [][Next]_cacheVars
=============================================================================

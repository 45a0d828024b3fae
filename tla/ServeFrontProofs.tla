-------------------------- MODULE ServeFrontProofs --------------------------
(***************************************************************************)
(* Theorems about ServeFront.tla, for any number of requests, any vaults,  *)
(* answers of any length and any number of exits of the engine: a client   *)
(* is passed its own answer, all of it if the request ends well, and a     *)
(* prompt is run by the vault its request resolved to.                     *)
(***************************************************************************)
EXTENDS ServeFront, SequenceTheorems, TLAPS

----------------------------------------------------------------------------
(* The invariant *)

\* Where a handler thread holds the lock.
Holding == {"stopOld", "setActive", "loadTok", "spawn", "start", "encode", "write", "read",
            "drain"}

LockInv == \A c \in Clients : pc[c] \in Holding <=> lock = c

\* A reader's line has been written, and its answer is not read to the end.
Reading(c) == pc[c] \in {"read", "drain"}

\* A live engine nobody reads from is at a request boundary: whenever the lock is
\* free, in particular, nothing of an earlier request is left in a pipe.
BoundaryInv ==
    proc.alive /\ (\A c \in Clients : ~Reading(c)) =>
        proc.in = <<>> /\ proc.out = <<>> /\ proc.cur = NoClient

\* A reader's line, or what the engine has made of it: tokens, at last a
\* terminator, and nothing of any other request.
Answering(c) ==
    /\ \/ proc.in = <<>>
       \/ /\ Len(proc.in) = 1 /\ proc.in[1].client = c
          /\ proc.out = <<>> /\ proc.cur = NoClient
    /\ proc.cur \in {c, NoClient}
    /\ \A i \in 1 .. Len(proc.out) :
         /\ proc.out[i].kind = "token" => proc.out[i].client = c
         /\ i < Len(proc.out) \/ proc.cur = c => proc.out[i].kind = "token"

AnswerInv == \A c \in Clients : Reading(c) => Answering(c)

\* The tokens in the pipe: all its words but a terminator.
TokensOut ==
    IF proc.out # <<>> /\ proc.out[Len(proc.out)].kind # "token"
    THEN Len(proc.out) - 1 ELSE Len(proc.out)

\* No token is lost between the engine and a client that reads.
TokenInv ==
    \A c \in Clients :
        /\ pc[c] \notin {"read", "drain", "done", "failed"} => got[c] = <<>> /\ sent[c] = 0
        /\ pc[c] = "read" => sent[c] = Len(got[c]) + TokensOut

\* A thread past the resolution wants a vault, the one its request names if it
\* names one, and has made it the active one before it uses it.
WantInv ==
    \A c \in Clients :
        /\ pc[c] \notin {"idle", "resolve"} =>
             want[c] \in Models /\ (named[c] \in Models => want[c] = named[c])
        /\ pc[c] \in {"loadTok", "spawn", "start", "encode", "write"} => want[c] = active

\* A live engine runs the active vault; it is down for the length of a switch.
VaultInv ==
    /\ proc.alive => proc.model = active
    /\ \A c \in Clients : pc[c] \in {"setActive", "loadTok", "spawn"} => ~proc.alive

\* The tokenizer is the active vault's, where it can be loaded.
TokInv ==
    /\ (\A c \in Clients : pc[c] # "loadTok") /\ active \notin Unloadable => tok = active
    /\ \A c \in Clients : pc[c] = "write" /\ want[c] \notin Unloadable => encoded[c] = want[c]

RanInv ==
    /\ RightModel
    /\ \A c \in Clients :
         pc[c] \notin {"read", "drain", "done", "failed"} => ran[c] = NoModel

PipeInv  == BoundaryInv /\ AnswerInv /\ TokenInv /\ OwnAnswer
ModelInv == WantInv /\ VaultInv /\ TokInv /\ RanInv
IInv     == TypeOK /\ LockInv /\ PipeInv /\ ModelInv

----------------------------------------------------------------------------
(* One action at a time *)

\* A process just started.
LEMMA BootedIs ==
    ASSUME NEW m \in Models
    PROVE  /\ Booted(m) \in Procs
           /\ Booted(m).alive /\ Booted(m).model = m
           /\ Booted(m).in = <<>> /\ Booted(m).out = <<>> /\ Booted(m).cur = NoClient
  BY EmptySeq DEF Booted, Procs

\* The words that remain when one is read.
LEMMA TailIs ==
    ASSUME TypeOK, proc.out # <<>>
    PROVE  /\ Len(proc.out) \in Nat \ {0} /\ Word = proc.out[1] /\ Word \in Words
           /\ Tail(proc.out) \in Seq(Words) /\ Len(Tail(proc.out)) = Len(proc.out) - 1
           /\ \A i \in 1 .. Len(proc.out) - 1 : Tail(proc.out)[i] = proc.out[i + 1]
  <1>1. proc.out \in Seq(Words)
    BY DEF TypeOK, Procs
  <1>2. Len(proc.out) \in Nat \ {0} /\ Word = proc.out[1] /\ Word \in Words
    BY <1>1, HeadTailProperties, LenProperties, EmptySeq, SMT DEF Word
  <1> QED  BY <1>1, <1>2, HeadTailProperties

\* One field of the process changes: a pipe, or the request it answers.
LEMMA WithOut ==
    ASSUME NEW p \in Procs, NEW s \in Seq(Words)
    PROVE  /\ [p EXCEPT !.out = s] \in Procs
           /\ [p EXCEPT !.out = s] = [alive |-> p.alive, model |-> p.model, in |-> p.in,
                                      out |-> s, cur |-> p.cur]
  BY SMT DEF Procs

LEMMA WithIn ==
    ASSUME NEW p \in Procs, NEW s \in Seq(Lines)
    PROVE  /\ [p EXCEPT !.in = s] \in Procs
           /\ [p EXCEPT !.in = s] = [alive |-> p.alive, model |-> p.model, in |-> s,
                                     out |-> p.out, cur |-> p.cur]
  BY SMT DEF Procs

LEMMA WithCur ==
    ASSUME NEW p \in Procs, NEW c \in Clients \cup {NoClient}
    PROVE  /\ [p EXCEPT !.cur = c] \in Procs
           /\ [p EXCEPT !.cur = c] = [alive |-> p.alive, model |-> p.model, in |-> p.in,
                                      out |-> p.out, cur |-> c]
  BY SMT DEF Procs

LEMMA TakenIs0 ==
    ASSUME TypeOK, proc.out # <<>>
    PROVE  /\ Taken \in Procs
           /\ Taken.alive = proc.alive /\ Taken.model = proc.model /\ Taken.in = proc.in
           /\ Taken.cur = proc.cur /\ Taken.out = Tail(proc.out)
  <1>1. Tail(proc.out) \in Seq(Words) /\ proc \in Procs
    BY TailIs DEF TypeOK
  <1>2. /\ [proc EXCEPT !.out = Tail(proc.out)] \in Procs
        /\ [proc EXCEPT !.out = Tail(proc.out)] =
             [alive |-> proc.alive, model |-> proc.model, in |-> proc.in,
              out |-> Tail(proc.out), cur |-> proc.cur]
    BY <1>1, WithOut
  <1>3. Taken = [proc EXCEPT !.out = Tail(proc.out)]
    BY DEF Taken
  <1> QED  BY <1>2, <1>3

LEMMA TakenIs ==
    ASSUME TypeOK, proc.out # <<>>, proc' = Taken
    PROVE  /\ proc' \in Procs
           /\ proc'.alive = proc.alive /\ proc'.model = proc.model /\ proc'.in = proc.in
           /\ proc'.cur = proc.cur /\ proc'.out = Tail(proc.out)
  BY TakenIs0

\* A terminator is the last of the answer.
LEMMA TerminatorLast ==
    ASSUME TypeOK, NEW c \in Clients, Answering(c), proc.out # <<>>, Word.kind # "token"
    PROVE  /\ Len(proc.out) = 1 /\ Tail(proc.out) = <<>> /\ TokensOut = 0
           /\ proc.in = <<>> /\ proc.cur = NoClient
  <1>1. /\ Len(proc.out) \in Nat \ {0} /\ Word = proc.out[1]
        /\ Tail(proc.out) \in Seq(Words) /\ Len(Tail(proc.out)) = Len(proc.out) - 1
    BY TailIs
  <1>2. ~(1 < Len(proc.out)) /\ proc.cur # c
    <2>1. 1 \in 1 .. Len(proc.out)
      BY <1>1, SMT
    <2> QED  BY <1>1, <2>1 DEF Answering
  <1>3. Len(proc.out) = 1 /\ Len(Tail(proc.out)) = 0
    <2> HIDE DEF Word
    <2>1. ASSUME NEW n \in Nat \ {0}, ~(1 < n)
          PROVE  n = 1 /\ n - 1 = 0
      BY <2>1, SMT
    <2> QED  BY <1>1, <1>2, <2>1
  <1>4. Tail(proc.out) = <<>>
    BY <1>1, <1>3, EmptySeq, Zenon
  <1>5. TokensOut = 0
    BY <1>1, <1>3, SMT DEF TokensOut
  <1> QED  BY <1>2, <1>3, <1>4, <1>5 DEF Answering

\* On counts.
LEMMA Counts ==
    ASSUME NEW n \in Nat \ {0}
    PROVE  /\ n # 1 => n - 1 \in 1 .. n - 1 /\ n - 1 # 0
           /\ n - 1 + 1 = n /\ n \in 1 .. n
           /\ n = 1 <=> ~(1 < n)
  OBVIOUS

LEMMA LastOrNot ==
    ASSUME NEW n \in Nat, NEW k \in 1 .. n + 1
    PROVE  (k \in 1 .. n /\ k < n + 1) \/ (k = n + 1 /\ ~(n + 1 < n + 1))
  <1>1. CASE k = n + 1
    BY <1>1, SMT
  <1>2. CASE k # n + 1
    <2>1. k \in 1 .. n
      BY <1>2, SMT
    <2>2. k < n + 1
      BY <2>1, SMT
    <2> QED  BY <2>1, <2>2
  <1> QED  BY <1>1, <1>2

\* A token is the reader's, and one less is left behind it.
LEMMA TokenTaken ==
    ASSUME TypeOK, NEW c \in Clients, Answering(c), proc.out # <<>>, Word.kind = "token",
           proc' = Taken
    PROVE  /\ Word.client = c /\ proc.in = <<>>
           /\ TokensOut \in Nat /\ TokensOut' = TokensOut - 1
           /\ Answering(c)'
  <1>1. /\ Len(proc.out) \in Nat \ {0} /\ Word = proc.out[1]
        /\ Len(Tail(proc.out)) = Len(proc.out) - 1
        /\ \A i \in 1 .. Len(proc.out) - 1 : Tail(proc.out)[i] = proc.out[i + 1]
    BY TailIs
  <1>2. /\ proc'.in = proc.in /\ proc'.cur = proc.cur /\ proc'.out = Tail(proc.out)
    BY TakenIs
  <1>3. Word.client = c /\ proc.in = <<>>
    BY <1>1 DEF Answering
  <1> DEFINE n == Len(proc.out)
  <1>4. Len(proc'.out) = n - 1 /\ n \in Nat \ {0}
    BY <1>1, <1>2
  <1>5. ASSUME NEW i \in 1 .. n - 1
        PROVE  /\ proc'.out[i] = proc.out[i + 1] /\ i + 1 \in 1 .. n
               /\ i < n - 1 <=> i + 1 < n
    BY <1>1, <1>2, SMT
  <1>6. TokensOut \in Nat /\ TokensOut' = TokensOut - 1
    <2>1. CASE n = 1
      <3>1. Len(proc'.out) = 0
        BY <1>4, <2>1
      <3>2. proc'.out \in Seq(Words)
        BY <1>2, TailIs
      <3>3. proc'.out = <<>>
        BY <3>1, <3>2, EmptySeq, Zenon
      <3>4. TokensOut = 1 /\ TokensOut' = 0
        BY <1>1, <2>1, <3>1, <3>3 DEF TokensOut
      <3> QED  BY <3>4
    <2>2. CASE n # 1
      <3>1. n - 1 \in 1 .. n - 1
        BY <1>4, <2>2, Counts
      <3>2. proc'.out[n - 1] = proc.out[n] /\ proc'.out # <<>>
        <4>1. proc'.out[n - 1] = proc.out[n - 1 + 1] /\ n - 1 + 1 = n
          BY <1>4, <1>5, <3>1, SMT
        <4>2. Len(proc'.out) # 0
          BY <1>4, <2>2, SMT
        <4> QED  BY <4>1, <4>2, EmptySeq
      <3> QED  BY <1>4, <2>2, <3>2, SMT DEF TokensOut
    <2> QED  BY <2>1, <2>2
  <1>7. Answering(c)'
    <2>1. ASSUME NEW i \in 1 .. n - 1
          PROVE  /\ proc'.out[i].kind = "token" => proc'.out[i].client = c
                 /\ i < n - 1 \/ proc'.cur = c => proc'.out[i].kind = "token"
      BY <1>2, <1>5 DEF Answering
    <2> QED  BY <1>2, <1>3, <1>4, <2>1 DEF Answering
  <1> QED  BY <1>3, <1>6, <1>7

\* Only the thread that holds the lock is past it.
LEMMA OneHolder ==
    ASSUME LockInv, NEW c \in Clients, pc[c] \in Holding
    PROVE  lock = c /\ \A d \in Clients \ {c} : pc[d] \notin Holding /\ ~Reading(d)
  BY DEF LockInv, Holding, Reading

LEMMA PostKeeps ==
    ASSUME IInv, NEW c \in Clients, NEW m \in Models \cup {NoModel}, NEW o \in BOOLEAN,
           Post(c, m, o)
    PROVE  IInv'
  <1> USE DEF IInv, Post, Goto, engineVars, traceVars
  <1>1. TypeOK' /\ LockInv'
    <2>1. overrides' \in [Clients -> BOOLEAN]
      BY Zenon DEF TypeOK
    <2> QED  BY <2>1 DEF TypeOK, LockInv, Labels, Holding
  <1>2. BoundaryInv' /\ AnswerInv'
    BY DEF PipeInv, BoundaryInv, AnswerInv, Answering, Reading, TypeOK, LockInv, Holding
  <1>3. TokenInv' /\ OwnAnswer'
    BY DEF PipeInv, TokenInv, TokensOut, OwnAnswer, TypeOK, LockInv, Holding
  <1>4. ModelInv'
    BY DEF ModelInv, WantInv, VaultInv, TokInv, RanInv, RightModel, TypeOK, LockInv, Holding
  <1> QED  BY <1>1, <1>2, <1>3, <1>4 DEF PipeInv

LEMMA ResolveKeeps ==
    ASSUME IInv, NEW c \in Clients, Resolve(c)
    PROVE  IInv'
  <1> USE DEF IInv, Resolve, Goto, engineVars, requestVars
  <1>1. TypeOK' /\ LockInv'
    BY ClientAssumption
    DEF TypeOK, LockInv, ModelInv, WantInv, Labels, Holding, Procs, Words, Lines
  <1>2. BoundaryInv' /\ AnswerInv'
    BY DEF PipeInv, BoundaryInv, AnswerInv, Answering, Reading, TypeOK, LockInv, Holding
  <1>3. TokenInv' /\ OwnAnswer'
    BY DEF PipeInv, TokenInv, TokensOut, OwnAnswer, TypeOK, LockInv, Holding
  <1>4. ModelInv'
    BY DEF ModelInv, WantInv, VaultInv, TokInv, RanInv, RightModel, TypeOK, LockInv, Holding
  <1> QED  BY <1>1, <1>2, <1>3, <1>4 DEF PipeInv

LEMMA AcquireKeeps ==
    ASSUME IInv, NEW c \in Clients, Acquire(c)
    PROVE  IInv'
  <1> USE DEF IInv, Acquire, Goto, engineVars, requestVars, traceVars
  <1>1. TypeOK' /\ LockInv'
    BY ClientAssumption
    DEF TypeOK, LockInv, ModelInv, WantInv, Labels, Holding, Procs, Words, Lines
  <1>2. BoundaryInv' /\ AnswerInv'
    BY DEF PipeInv, BoundaryInv, AnswerInv, Answering, Reading, TypeOK, LockInv, Holding
  <1>3. TokenInv' /\ OwnAnswer'
    BY DEF PipeInv, TokenInv, TokensOut, OwnAnswer, TypeOK, LockInv, Holding
  <1>4. ModelInv'
    BY DEF ModelInv, WantInv, VaultInv, TokInv, RanInv, RightModel, TypeOK, LockInv, Holding
  <1> QED  BY <1>1, <1>2, <1>3, <1>4 DEF PipeInv

LEMMA HangUpKeeps ==
    ASSUME IInv, NEW c \in Clients, HangUp(c)
    PROVE  IInv'
  <1> USE DEF IInv, HangUp, engineVars, requestVars, traceVars
  <1>1. TypeOK' /\ LockInv'
    BY ClientAssumption
    DEF TypeOK, LockInv, ModelInv, WantInv, Labels, Holding, Procs, Words, Lines
  <1>2. BoundaryInv' /\ AnswerInv'
    BY DEF PipeInv, BoundaryInv, AnswerInv, Answering, Reading, TypeOK, LockInv, Holding
  <1>3. TokenInv' /\ OwnAnswer'
    BY DEF PipeInv, TokenInv, TokensOut, OwnAnswer, TypeOK, LockInv, Holding
  <1>4. ModelInv'
    BY DEF ModelInv, WantInv, VaultInv, TokInv, RanInv, RightModel, TypeOK, LockInv, Holding
  <1> QED  BY <1>1, <1>2, <1>3, <1>4 DEF PipeInv

LEMMA StopOldKeeps ==
    ASSUME IInv, NEW c \in Clients, StopOld(c)
    PROVE  IInv'
  <1> USE DEF IInv, StopOld, Goto, engineVars, requestVars, traceVars
  <1>1. TypeOK' /\ LockInv'
    BY ClientAssumption
    DEF TypeOK, LockInv, ModelInv, WantInv, Labels, Holding, Procs, Words, Lines
  <1>2. BoundaryInv' /\ AnswerInv'
    BY DEF PipeInv, BoundaryInv, AnswerInv, Answering, Reading, TypeOK, LockInv, Holding
  <1>3. TokenInv' /\ OwnAnswer'
    BY DEF PipeInv, TokenInv, TokensOut, OwnAnswer, TypeOK, LockInv, Holding
  <1>4. ModelInv'
    BY DEF ModelInv, WantInv, VaultInv, TokInv, RanInv, RightModel, TypeOK, LockInv, Holding
  <1> QED  BY <1>1, <1>2, <1>3, <1>4 DEF PipeInv

LEMMA SetActiveKeeps ==
    ASSUME IInv, NEW c \in Clients, SetActive(c)
    PROVE  IInv'
  <1> USE DEF IInv, SetActive, Goto, requestVars, traceVars
  <1>1. TypeOK' /\ LockInv'
    BY ClientAssumption
    DEF TypeOK, LockInv, ModelInv, WantInv, Labels, Holding, Procs, Words, Lines
  <1>2. BoundaryInv' /\ AnswerInv'
    BY DEF PipeInv, BoundaryInv, AnswerInv, Answering, Reading, TypeOK, LockInv, Holding
  <1>3. TokenInv' /\ OwnAnswer'
    BY DEF PipeInv, TokenInv, TokensOut, OwnAnswer, TypeOK, LockInv, Holding
  <1>4. ModelInv'
    BY DEF ModelInv, WantInv, VaultInv, TokInv, RanInv, RightModel, TypeOK, LockInv, Holding
  <1> QED  BY <1>1, <1>2, <1>3, <1>4 DEF PipeInv

LEMMA LoadTokKeeps ==
    ASSUME IInv, NEW c \in Clients, LoadTok(c)
    PROVE  IInv'
  <1> USE DEF IInv, LoadTok, Goto, requestVars, traceVars
  <1>1. TypeOK' /\ LockInv'
    BY ClientAssumption
    DEF TypeOK, LockInv, ModelInv, WantInv, Labels, Holding, Procs, Words, Lines
  <1>2. BoundaryInv' /\ AnswerInv'
    BY DEF PipeInv, BoundaryInv, AnswerInv, Answering, Reading, TypeOK, LockInv, Holding
  <1>3. TokenInv' /\ OwnAnswer'
    BY DEF PipeInv, TokenInv, TokensOut, OwnAnswer, TypeOK, LockInv, Holding
  <1>4. ModelInv'
    BY DEF ModelInv, WantInv, VaultInv, TokInv, RanInv, RightModel, TypeOK, LockInv, Holding
  <1> QED  BY <1>1, <1>2, <1>3, <1>4 DEF PipeInv

LEMMA LoadTokFailsKeeps ==
    ASSUME IInv, NEW c \in Clients, LoadTokFails(c)
    PROVE  IInv'
  <1> USE DEF IInv, LoadTokFails, Leave, Goto, engineVars, requestVars, traceVars
  <1>1. TypeOK' /\ LockInv'
    BY ClientAssumption
    DEF TypeOK, LockInv, ModelInv, WantInv, Labels, Holding, Procs, Words, Lines
  <1>2. BoundaryInv' /\ AnswerInv'
    BY DEF PipeInv, BoundaryInv, AnswerInv, Answering, Reading, TypeOK, LockInv, Holding
  <1>3. TokenInv' /\ OwnAnswer'
    BY DEF PipeInv, TokenInv, TokensOut, OwnAnswer, TypeOK, LockInv, Holding
  <1>4. ModelInv'
    BY DEF ModelInv, WantInv, VaultInv, TokInv, RanInv, RightModel, TypeOK, LockInv, Holding
  <1> QED  BY <1>1, <1>2, <1>3, <1>4 DEF PipeInv

LEMMA SpawnKeeps ==
    ASSUME IInv, NEW c \in Clients, Spawn(c)
    PROVE  IInv'
  <1> USE DEF IInv, Spawn, Booted, Goto, engineVars, requestVars, traceVars
  <1>1. TypeOK' /\ LockInv'
    BY ClientAssumption
    DEF TypeOK, LockInv, ModelInv, WantInv, Labels, Holding, Procs, Words, Lines
  <1>2. BoundaryInv' /\ AnswerInv'
    BY DEF PipeInv, BoundaryInv, AnswerInv, Answering, Reading, TypeOK, LockInv, Holding
  <1>3. TokenInv' /\ OwnAnswer'
    BY DEF PipeInv, TokenInv, TokensOut, OwnAnswer, TypeOK, LockInv, Holding
  <1>4. ModelInv'
    BY DEF ModelInv, WantInv, VaultInv, TokInv, RanInv, RightModel, TypeOK, LockInv, Holding
  <1> QED  BY <1>1, <1>2, <1>3, <1>4 DEF PipeInv

LEMMA StartKeeps ==
    ASSUME IInv, NEW c \in Clients, Start(c)
    PROVE  IInv'
  <1> USE DEF IInv, Start, Booted, Goto, engineVars, requestVars, traceVars
  <1>1. TypeOK' /\ LockInv'
    BY ClientAssumption
    DEF TypeOK, LockInv, ModelInv, WantInv, Labels, Holding, Procs, Words, Lines
  <1>2. BoundaryInv' /\ AnswerInv'
    BY DEF PipeInv, BoundaryInv, AnswerInv, Answering, Reading, TypeOK, LockInv, Holding
  <1>3. TokenInv' /\ OwnAnswer'
    BY DEF PipeInv, TokenInv, TokensOut, OwnAnswer, TypeOK, LockInv, Holding
  <1>4. ModelInv'
    BY DEF ModelInv, WantInv, VaultInv, TokInv, RanInv, RightModel, TypeOK, LockInv, Holding
  <1> QED  BY <1>1, <1>2, <1>3, <1>4 DEF PipeInv

LEMMA EncodeKeeps ==
    ASSUME IInv, NEW c \in Clients, Encode(c)
    PROVE  IInv'
  <1> USE DEF IInv, Encode, Leave, Goto, engineVars, requestVars, traceVars
  <1>1. TypeOK' /\ LockInv'
    <2>1. encoded' \in [Clients -> Models \cup {NoModel}]
      BY DEF TypeOK
    <2>2. pc' \in [Clients -> Labels] /\ lock' \in Clients \cup {NoClient}
      BY DEF TypeOK, Labels
    <2>3. TypeOK'
      BY <2>1, <2>2 DEF TypeOK
    <2>4. LockInv'
      BY ClientAssumption DEF TypeOK, LockInv, Holding
    <2> QED  BY <2>3, <2>4
  <1>2. BoundaryInv' /\ AnswerInv'
    BY DEF PipeInv, BoundaryInv, AnswerInv, Answering, Reading, TypeOK, LockInv, Holding
  <1>3. TokenInv' /\ OwnAnswer'
    BY DEF PipeInv, TokenInv, TokensOut, OwnAnswer, TypeOK, LockInv, Holding
  <1>4. ModelInv'
    <2>1. WantInv' /\ VaultInv'
      BY DEF ModelInv, WantInv, VaultInv, TypeOK, LockInv, Holding
    <2>2. TokInv'
      BY DEF ModelInv, WantInv, TokInv, TypeOK, LockInv, Holding
    <2>3. RanInv'
      BY DEF ModelInv, RanInv, RightModel, TypeOK
    <2> QED  BY <2>1, <2>2, <2>3 DEF ModelInv
  <1> QED  BY <1>1, <1>2, <1>3, <1>4 DEF PipeInv

LEMMA WriteKeeps ==
    ASSUME IInv, NEW c \in Clients, Write(c)
    PROVE  IInv'
  <1> USE DEF IInv, PipeInv, ModelInv, Write, Gen, Goto, engineVars, requestVars, traceVars
  <1>1. TypeOK'
    <2>1. Gen(c) \in Lines
      BY DEF TypeOK, Lines
    <2>2. Append(proc.in, Gen(c)) \in Seq(Lines)
      BY <2>1, AppendProperties DEF TypeOK, Procs
    <2>3. proc' = [proc EXCEPT !.in = Append(proc.in, Gen(c))] /\ proc \in Procs
      BY DEF TypeOK
    <2>4. proc' \in Procs
      BY <2>2, <2>3, WithIn
    <2>5. pc' \in [Clients -> Labels] /\ ran' \in [Clients -> Models \cup {NoModel}]
      BY <2>3 DEF TypeOK, Labels, Procs
    <2> QED  BY <2>4, <2>5 DEF TypeOK
  <1>2. LockInv'
    BY DEF LockInv, TypeOK, Holding
  <1>3. BoundaryInv'
    BY DEF BoundaryInv, AnswerInv, Answering, Reading, TypeOK, LockInv, Holding
  <1>4. AnswerInv'
    BY DEF BoundaryInv, AnswerInv, Answering, Reading, TypeOK, LockInv, Holding
  <1>5. TokenInv'
    <2>1. proc.out = <<>> /\ proc'.out = proc.out
      BY OneHolder DEF BoundaryInv, Holding, Reading, TypeOK
    <2>2. TokensOut' = 0
      BY <2>1, EmptySeq DEF TokensOut
    <2>3. got[c] = <<>> /\ sent[c] = 0 /\ UNCHANGED <<got, sent>>
      BY DEF TokenInv
    <2>4. /\ pc'[c] = "read"
          /\ \A d \in Clients \ {c} : pc'[d] = pc[d] /\ pc[d] # "read"
      BY OneHolder DEF TypeOK, Holding
    <2> QED  BY <2>2, <2>3, <2>4, EmptySeq DEF TokenInv
  <1>6. OwnAnswer'
    BY DEF TokenInv, OwnAnswer, AnswerInv, Reading, Answering, TypeOK
  <1>7. WantInv'
    BY DEF WantInv, TypeOK, LockInv, Holding
  <1>8. VaultInv'
    BY DEF VaultInv, TypeOK, LockInv, Holding
  <1>9. TokInv'
    BY DEF TokInv, TypeOK, LockInv, Holding
  <1>10. RanInv'
    BY DEF RanInv, RightModel, VaultInv, WantInv, TokInv, TypeOK
  <1> QED  BY <1>1, <1>2, <1>3, <1>4, <1>5, <1>6, <1>7, <1>8, <1>9, <1>10

LEMMA WriteFailsKeeps ==
    ASSUME IInv, NEW c \in Clients, WriteFails(c)
    PROVE  IInv'
  <1> USE DEF IInv, WriteFails, Booted, Leave, Goto, engineVars, requestVars, traceVars
  <1>1. TypeOK' /\ LockInv'
    BY ClientAssumption
    DEF TypeOK, LockInv, ModelInv, WantInv, Labels, Holding, Procs, Words, Lines
  <1>2. BoundaryInv' /\ AnswerInv'
    BY DEF PipeInv, BoundaryInv, AnswerInv, Answering, Reading, TypeOK, LockInv, Holding
  <1>3. TokenInv' /\ OwnAnswer'
    BY DEF PipeInv, TokenInv, TokensOut, OwnAnswer, TypeOK, LockInv, Holding
  <1>4. ModelInv'
    BY DEF ModelInv, WantInv, VaultInv, TokInv, RanInv, RightModel, TypeOK, LockInv, Holding
  <1> QED  BY <1>1, <1>2, <1>3, <1>4 DEF PipeInv

LEMMA ReadTokenKeeps ==
    ASSUME IInv, NEW c \in Clients, ReadToken(c)
    PROVE  IInv'
  <1> USE DEF IInv, PipeInv, ModelInv
  <1>1. pc[c] = "read" /\ proc.out # <<>> /\ Word.kind = "token" /\ proc' = Taken
    BY DEF ReadToken
  <1>2. \/ got' = [got EXCEPT ![c] = Append(@, Word.client)] /\ UNCHANGED pc
        \/ pc' = [pc EXCEPT ![c] = "drain"] /\ UNCHANGED got
    BY DEF ReadToken, Goto
  <1>3. UNCHANGED <<lock, active, tok, toks, named, overrides, want, encoded, ran, connected,
                    sent, exits>>
    BY DEF ReadToken, engineVars, requestVars
  <1>4. /\ lock = c /\ (\A d \in Clients \ {c} : pc[d] \notin Holding /\ ~Reading(d))
        /\ Answering(c)
    BY <1>1, OneHolder DEF Holding, AnswerInv, Reading
  <1>5. /\ proc' \in Procs
        /\ proc'.alive = proc.alive /\ proc'.model = proc.model
    BY <1>1, TakenIs
  <1>6. /\ Word.client = c /\ Answering(c)'
        /\ TokensOut \in Nat /\ TokensOut' = TokensOut - 1
    BY <1>1, <1>4, TokenTaken
  <1>7. /\ pc' \in [Clients -> Labels] /\ pc'[c] \in {"read", "drain"}
        /\ \A d \in Clients \ {c} : pc'[d] = pc[d]
    BY <1>1, <1>2 DEF TypeOK, Labels
  <1>8. /\ got' \in [Clients -> Seq(Clients)]
        /\ \A d \in Clients \ {c} : got'[d] = got[d]
        /\ \/ got'[c] = Append(got[c], c)
           \/ got'[c] = got[c] /\ pc'[c] = "drain"
    <2>1. got[c] \in Seq(Clients)
      BY DEF TypeOK
    <2>2. Append(got[c], c) \in Seq(Clients)
      BY <2>1, AppendProperties
    <2>3. got \in [Clients -> Seq(Clients)] /\ pc \in [Clients -> Labels]
      BY DEF TypeOK
    <2>4. CASE got' = [got EXCEPT ![c] = Append(got[c], c)]
      BY <2>2, <2>3, <2>4
    <2>5. CASE UNCHANGED got /\ pc' = [pc EXCEPT ![c] = "drain"]
      BY <2>3, <2>5
    <2> QED  BY <1>2, <1>6, <2>4, <2>5
  <1>9. TypeOK'
    BY <1>3, <1>5, <1>7, <1>8 DEF TypeOK
  <1>10. LockInv'
    BY <1>1, <1>3, <1>4, <1>7 DEF LockInv, Holding
  <1>11. BoundaryInv' /\ AnswerInv'
    BY <1>4, <1>6, <1>7 DEF BoundaryInv, AnswerInv, Reading
  <1>12. got[c] \in Seq(Clients) /\ Len(got[c]) \in Nat /\ sent[c] \in Nat
    BY LenProperties DEF TypeOK
  <1>13. TokenInv'
    <2>1. sent[c] = Len(got[c]) + TokensOut
      BY <1>1 DEF TokenInv
    <2>2. pc'[c] = "read" => Len(got'[c]) = Len(got[c]) + 1
      BY <1>8, <1>12, AppendProperties
    <2>3. pc'[c] = "read" => sent'[c] = Len(got'[c]) + TokensOut'
      BY <1>3, <1>6, <1>12, <2>1, <2>2, SMT
    <2>4. \A d \in Clients \ {c} : pc'[d] # "read"
      BY <1>4, <1>7 DEF Holding
    <2> QED  BY <1>3, <1>7, <1>8, <2>3, <2>4 DEF TokenInv
  <1>14. OwnAnswer'
    <2>1. \A i \in 1 .. Len(got'[c]) : got'[c][i] = c
      <3>1. \A i \in 1 .. Len(got[c]) : got[c][i] = c
        BY DEF OwnAnswer
      <3>2. CASE got'[c] = Append(got[c], c)
        BY <1>12, <3>1, <3>2, AppendProperties, SMT
      <3>3. CASE got'[c] = got[c]
        BY <3>1, <3>3
      <3> QED  BY <1>8, <3>2, <3>3
    <2> QED  BY <1>3, <1>7, <1>8, <2>1 DEF OwnAnswer
  <1>15. WantInv' /\ VaultInv' /\ TokInv' /\ RanInv'
    BY <1>1, <1>3, <1>5, <1>7 DEF WantInv, VaultInv, TokInv, RanInv, RightModel
  <1> QED  BY <1>9, <1>10, <1>11, <1>13, <1>14, <1>15

\* The end of an answer, read or drained: the thread gives up the lock, and a live
\* engine is at a boundary.
LEMMA TerminatorKeeps ==
    ASSUME IInv, NEW c \in Clients, Reading(c), proc.out # <<>>, Word.kind # "token",
           proc' = Taken, NEW label \in {"done", "failed"}, Leave(c, label),
           label = "done" => pc[c] = "read",
           UNCHANGED <<engineVars, requestVars, traceVars, connected, sent, exits>>
    PROVE  IInv'
  <1> USE DEF IInv, PipeInv, ModelInv
  <1>1. /\ lock' = NoClient /\ pc' = [pc EXCEPT ![c] = label]
        /\ UNCHANGED <<active, tok, toks, named, overrides, want, encoded, ran, got, connected,
                       sent, exits>>
    BY DEF Leave, Goto, engineVars, requestVars, traceVars
  <1>2. /\ lock = c /\ (\A d \in Clients \ {c} : pc[d] \notin Holding /\ ~Reading(d))
        /\ Answering(c)
    BY OneHolder DEF Holding, AnswerInv, Reading
  <1>3. /\ proc' \in Procs
        /\ proc'.alive = proc.alive /\ proc'.model = proc.model
        /\ proc'.in = proc.in /\ proc'.cur = proc.cur /\ proc'.out = Tail(proc.out)
    BY TakenIs
  <1>4. proc'.in = <<>> /\ proc'.out = <<>> /\ proc'.cur = NoClient /\ TokensOut = 0
    BY <1>2, <1>3, TerminatorLast
  <1>5. /\ pc' \in [Clients -> Labels] /\ pc'[c] = label
        /\ \A d \in Clients \ {c} : pc'[d] = pc[d]
    BY <1>1 DEF TypeOK, Labels
  <1>6. TypeOK'
    BY <1>1, <1>3, <1>5 DEF TypeOK
  <1>7. LockInv'
    BY <1>1, <1>2, <1>5, ClientAssumption DEF LockInv, Holding
  <1>8. BoundaryInv' /\ AnswerInv'
    BY <1>2, <1>4, <1>5 DEF BoundaryInv, AnswerInv, Reading
  <1>9. TokenInv'
    <2>1. \A d \in Clients : pc'[d] # "read"
      BY <1>2, <1>5 DEF Holding
    <2> QED  BY <1>1, <1>5, <2>1 DEF TokenInv
  <1>10. OwnAnswer'
    <2>1. label = "done" => Len(got[c]) = sent[c]
      <3>1. label = "done" => sent[c] = Len(got[c]) + 0
        BY <1>4 DEF TokenInv
      <3>2. Len(got[c]) \in Nat
        BY LenProperties DEF TypeOK
      <3> QED  BY <3>1, <3>2, SMT
    <2> QED  BY <1>1, <1>5, <2>1 DEF OwnAnswer
  <1>11. WantInv' /\ VaultInv' /\ TokInv' /\ RanInv'
    <2>1. pc[c] \in {"read", "drain"}
      BY DEF Reading
    <2> QED  BY <1>1, <1>3, <1>5, <2>1 DEF WantInv, VaultInv, TokInv, RanInv, RightModel
  <1> QED  BY <1>6, <1>7, <1>8, <1>9, <1>10, <1>11

LEMMA ReadDoneKeeps ==
    ASSUME IInv, NEW c \in Clients, ReadDone(c)
    PROVE  IInv'
  BY TerminatorKeeps DEF ReadDone, Reading

LEMMA ReadErrorKeeps ==
    ASSUME IInv, NEW c \in Clients, ReadError(c)
    PROVE  IInv'
  BY TerminatorKeeps DEF ReadError, Reading

\* A refused request is written again to an engine at a boundary; if the engine is
\* gone, the drain has nothing to do.
LEMMA RetryKeeps ==
    ASSUME IInv, NEW c \in Clients, Retry(c)
    PROVE  IInv'
  <1> USE DEF IInv, PipeInv, ModelInv
  <1> DEFINE line == [client |-> c, overrides |-> FALSE]
  <1>1. pc[c] = "read" /\ proc.out # <<>> /\ Word.kind # "token" /\ got[c] = <<>>
    BY DEF Retry, Retriable
  <1>2. /\ overrides' = [overrides EXCEPT ![c] = FALSE]
        /\ UNCHANGED <<lock, active, tok, toks, named, want, encoded, ran, got, connected, sent,
                       exits>>
    BY DEF Retry, engineVars, traceVars
  <1>3. /\ lock = c /\ (\A d \in Clients \ {c} : pc[d] \notin Holding /\ ~Reading(d))
        /\ Answering(c)
    BY <1>1, OneHolder DEF Holding, AnswerInv, Reading
  <1>4. /\ Tail(proc.out) = <<>> /\ TokensOut = 0 /\ proc.in = <<>> /\ proc.cur = NoClient
    BY <1>1, <1>3, TerminatorLast
  <1>5. /\ proc' \in Procs
        /\ proc'.alive = proc.alive /\ proc'.model = proc.model
        /\ proc'.out = <<>> /\ proc'.cur = NoClient
        /\ proc'.in = <<>> \/ proc'.in = <<line>>
        /\ pc' \in [Clients -> Labels] /\ pc'[c] \in {"read", "drain"}
        /\ \A d \in Clients \ {c} : pc'[d] = pc[d]
    <2>0. Taken \in Procs /\ Taken.in = <<>> /\ Taken.alive = proc.alive
          /\ Taken.model = proc.model /\ Taken.out = <<>> /\ Taken.cur = NoClient
      BY <1>1, <1>4, TakenIs0
    <2>1. CASE proc.alive
      <3>1. proc' = [Taken EXCEPT !.in = Append(Taken.in, line)] /\ UNCHANGED pc
        BY <2>1 DEF Retry
      <3>2. line \in Lines
        BY DEF Lines
      <3>3. Append(Taken.in, line) = <<line>> /\ <<line>> \in Seq(Lines)
        BY <2>0, <3>2, SMT
      <3>4. proc' \in Procs
            /\ proc' = [alive |-> Taken.alive, model |-> Taken.model, in |-> <<line>>,
                        out |-> Taken.out, cur |-> Taken.cur]
        BY <2>0, <3>1, <3>3, WithIn
      <3>5. pc' \in [Clients -> Labels] /\ pc'[c] = "read"
        BY <1>1, <3>1 DEF TypeOK
      <3>6. /\ proc'.alive = Taken.alive /\ proc'.model = Taken.model
            /\ proc'.out = Taken.out /\ proc'.cur = Taken.cur /\ proc'.in = <<line>>
        BY <3>4
      <3> QED  BY <2>0, <3>1, <3>4, <3>5, <3>6
    <2>2. CASE ~proc.alive
      <3>1. proc' = Taken /\ pc' = [pc EXCEPT ![c] = "drain"]
        BY <2>2 DEF Retry, Goto
      <3>2. /\ pc' \in [Clients -> Labels] /\ pc'[c] = "drain"
            /\ \A d \in Clients \ {c} : pc'[d] = pc[d]
        BY <3>1 DEF TypeOK, Labels
      <3> QED  BY <1>1, <1>4, <3>1, <3>2, TakenIs
    <2> QED  BY <2>1, <2>2
  <1>6. Len(proc'.out) = 0 /\ TokensOut' = 0
    BY <1>5 DEF TokensOut
  <1>7. TypeOK'
    BY <1>2, <1>5 DEF TypeOK
  <1>8. LockInv'
    BY <1>1, <1>2, <1>3, <1>5 DEF LockInv, Holding
  <1>9. Answering(c)'
    <2>1. proc'.in = <<>> \/ (Len(proc'.in) = 1 /\ proc'.in[1].client = c)
      <3>1. Len(<<line>>) = 1 /\ <<line>>[1] = line /\ line.client = c
        OBVIOUS
      <3> QED  BY <1>5, <3>1
    <2>2. \A i \in 1 .. Len(proc'.out) : FALSE
      BY <1>6
    <2> QED  BY <1>5, <2>1, <2>2 DEF Answering
  <1>10. BoundaryInv' /\ AnswerInv'
    BY <1>3, <1>5, <1>9 DEF BoundaryInv, AnswerInv, Reading
  <1>11. TokenInv'
    <2>1. \A d \in Clients \ {c} : pc'[d] # "read"
      BY <1>3, <1>5 DEF Holding
    <2> QED  BY <1>1, <1>2, <1>4, <1>5, <1>6, <2>1 DEF TokenInv
  <1>12. OwnAnswer'
    BY <1>2, <1>5 DEF OwnAnswer
  <1>13. WantInv' /\ VaultInv' /\ TokInv' /\ RanInv'
    BY <1>1, <1>2, <1>5 DEF WantInv, VaultInv, TokInv, RanInv, RightModel
  <1> QED  BY <1>7, <1>8, <1>10, <1>11, <1>12, <1>13

LEMMA ReadEofKeeps ==
    ASSUME IInv, NEW c \in Clients, ReadEof(c)
    PROVE  IInv'
  <1> USE DEF IInv, ReadEof, Leave, Goto, engineVars, requestVars, traceVars
  <1>1. TypeOK' /\ LockInv'
    BY ClientAssumption
    DEF TypeOK, LockInv, ModelInv, WantInv, Labels, Holding, Procs, Words, Lines
  <1>2. BoundaryInv' /\ AnswerInv'
    BY DEF PipeInv, BoundaryInv, AnswerInv, Answering, Reading, TypeOK, LockInv, Holding
  <1>3. TokenInv' /\ OwnAnswer'
    BY DEF PipeInv, TokenInv, TokensOut, OwnAnswer, TypeOK, LockInv, Holding
  <1>4. ModelInv'
    BY DEF ModelInv, WantInv, VaultInv, TokInv, RanInv, RightModel, TypeOK, LockInv, Holding
  <1> QED  BY <1>1, <1>2, <1>3, <1>4 DEF PipeInv

\* A drained token leaves the answer in order; a terminator ends it.
LEMMA DrainWordKeeps ==
    ASSUME IInv, NEW c \in Clients, DrainWord(c)
    PROVE  IInv'
  <1> USE DEF IInv, PipeInv, ModelInv
  <1>1. pc[c] = "drain" /\ proc.out # <<>> /\ proc' = Taken
    BY DEF DrainWord
  <1>2. CASE Word.kind # "token"
    BY <1>1, <1>2, TerminatorKeeps DEF DrainWord, Reading
  <1>3. CASE Word.kind = "token"
    <2>1. UNCHANGED <<lock, active, tok, toks, pc, named, overrides, want, encoded, ran, got,
                      connected, sent, exits>>
      BY <1>3 DEF DrainWord, engineVars, requestVars, traceVars
    <2>2. /\ (\A d \in Clients \ {c} : pc[d] \notin Holding /\ ~Reading(d))
          /\ Answering(c)
      BY <1>1, OneHolder DEF Holding, AnswerInv, Reading
    <2>3. /\ proc' \in Procs
          /\ proc'.alive = proc.alive /\ proc'.model = proc.model
      BY <1>1, TakenIs
    <2>4. Answering(c)'
      BY <1>1, <1>3, <2>2, TokenTaken
    <2>5. TypeOK'
      BY <2>1, <2>3 DEF TypeOK
    <2>6. LockInv' /\ OwnAnswer'
      BY <2>1 DEF LockInv, OwnAnswer
    <2>7. BoundaryInv' /\ AnswerInv'
      BY <1>1, <2>1, <2>2, <2>4 DEF BoundaryInv, AnswerInv, Reading
    <2>8. TokenInv'
      <3>1. \A d \in Clients : pc'[d] # "read"
        BY <1>1, <2>1, <2>2 DEF Holding
      <3> QED  BY <2>1, <3>1 DEF TokenInv
    <2>9. WantInv' /\ VaultInv' /\ TokInv' /\ RanInv'
      BY <2>1, <2>3 DEF WantInv, VaultInv, TokInv, RanInv, RightModel
    <2> QED  BY <2>5, <2>6, <2>7, <2>8, <2>9
  <1> QED  BY <1>2, <1>3

LEMMA DrainEofKeeps ==
    ASSUME IInv, NEW c \in Clients, DrainEof(c)
    PROVE  IInv'
  <1> USE DEF IInv, DrainEof, Leave, Goto, engineVars, requestVars, traceVars
  <1>1. TypeOK' /\ LockInv'
    BY ClientAssumption
    DEF TypeOK, LockInv, ModelInv, WantInv, Labels, Holding, Procs, Words, Lines
  <1>2. BoundaryInv' /\ AnswerInv'
    BY DEF PipeInv, BoundaryInv, AnswerInv, Answering, Reading, TypeOK, LockInv, Holding
  <1>3. TokenInv' /\ OwnAnswer'
    BY DEF PipeInv, TokenInv, TokensOut, OwnAnswer, TypeOK, LockInv, Holding
  <1>4. ModelInv'
    BY DEF ModelInv, WantInv, VaultInv, TokInv, RanInv, RightModel, TypeOK, LockInv, Holding
  <1> QED  BY <1>1, <1>2, <1>3, <1>4 DEF PipeInv

----------------------------------------------------------------------------
(* The engine *)

\* A line in the pipe, or a request being answered, has a reader.
LEMMA EngineHasReader ==
    ASSUME IInv, proc.alive, proc.in # <<>> \/ proc.cur # NoClient
    PROVE  \E c \in Clients : Reading(c) /\ Answering(c) /\ lock = c
  <1>1. \E c \in Clients : Reading(c)
    BY DEF IInv, PipeInv, BoundaryInv
  <1> QED  BY <1>1 DEF IInv, PipeInv, AnswerInv, LockInv, Reading, Holding

\* A word is put into the pipe.
LEMMA PutIs ==
    ASSUME TypeOK, NEW kind \in {"token", "done", "bad", "err"}
    PROVE  /\ Put(kind) \in Procs
           /\ Put(kind).alive = proc.alive /\ Put(kind).model = proc.model
           /\ Put(kind).in = proc.in /\ Put(kind).cur = proc.cur
           /\ Len(proc.out) \in Nat /\ Len(Put(kind).out) = Len(proc.out) + 1
           /\ \A i \in 1 .. Len(proc.out) : Put(kind).out[i] = proc.out[i]
           /\ Put(kind).out[Len(proc.out) + 1] = [kind |-> kind, client |-> proc.cur]
           /\ Put(kind).out # <<>>
  <1> DEFINE word == [kind |-> kind, client |-> proc.cur]
             s == Append(proc.out, word)
  <1>1. proc \in Procs /\ proc.out \in Seq(Words) /\ word \in Words
    BY DEF TypeOK, Procs, Words
  <1>2. /\ s \in Seq(Words) /\ Len(proc.out) \in Nat /\ Len(s) = Len(proc.out) + 1
        /\ s[Len(proc.out) + 1] = word
        /\ \A i \in 1 .. Len(proc.out) : s[i] = proc.out[i]
    BY <1>1, AppendProperties, LenProperties
  <1>3. s # <<>>
    BY <1>2, EmptySeq
  <1>4. Put(kind) = [proc EXCEPT !.out = s]
    BY DEF Put
  <1>5. /\ Put(kind) \in Procs
        /\ Put(kind) = [alive |-> proc.alive, model |-> proc.model, in |-> proc.in,
                        out |-> s, cur |-> proc.cur]
    <2>1. /\ [proc EXCEPT !.out = s] \in Procs
          /\ [proc EXCEPT !.out = s] =
               [alive |-> proc.alive, model |-> proc.model, in |-> proc.in, out |-> s,
                cur |-> proc.cur]
      BY <1>1, <1>2, WithOut
    <2> QED  BY <1>4, <2>1
  <1>6. /\ Put(kind).alive = proc.alive /\ Put(kind).model = proc.model
        /\ Put(kind).in = proc.in /\ Put(kind).cur = proc.cur /\ Put(kind).out = s
    BY <1>5
  <1> QED  BY <1>2, <1>3, <1>5, <1>6

\* What a step of the engine for the reader c may do.
LEMMA EngineKeeps ==
    ASSUME IInv, NEW c \in Clients, Reading(c), lock = c,
           proc' \in Procs, proc'.alive = proc.alive, proc'.model = proc.model,
           Answering(c)',
           sent' \in [Clients -> Nat], \A d \in Clients \ {c} : sent'[d] = sent[d],
           pc[c] = "read" => sent'[c] = Len(got[c]) + TokensOut',
           UNCHANGED <<lock, engineVars, pc, requestVars, traceVars, connected, exits>>
    PROVE  IInv'
  <1> USE DEF IInv, PipeInv, ModelInv
  <1>1. UNCHANGED <<active, tok, toks, named, overrides, want, encoded, ran, got>>
    BY DEF engineVars, requestVars, traceVars
  <1>2. \A d \in Clients \ {c} : pc[d] \notin Holding /\ ~Reading(d)
    BY OneHolder DEF Reading, Holding
  <1>3. TypeOK' /\ LockInv'
    BY <1>1 DEF TypeOK, LockInv
  <1>4. BoundaryInv' /\ AnswerInv'
    BY <1>2 DEF BoundaryInv, AnswerInv, Reading
  <1>5. TokenInv'
    BY <1>1, <1>2 DEF TokenInv, Reading
  <1>6. OwnAnswer'
    BY <1>1 DEF OwnAnswer, Reading
  <1>7. WantInv' /\ VaultInv' /\ TokInv' /\ RanInv'
    BY <1>1 DEF WantInv, VaultInv, TokInv, RanInv, RightModel
  <1> QED  BY <1>3, <1>4, <1>5, <1>6, <1>7

\* The line is its reader's: the engine answers it next, or refuses it.
LEMMA TakeLineKeeps ==
    ASSUME IInv, TakeLine
    PROVE  IInv'
  <1> USE DEF IInv, PipeInv, ModelInv
  <1>1. proc.alive /\ proc.cur = NoClient /\ proc.in # <<>>
        /\ UNCHANGED <<lock, engineVars, pc, requestVars, traceVars, connected, sent, exits>>
    BY DEF TakeLine, HasRoom
  <1>2. PICK c \in Clients : Reading(c) /\ Answering(c) /\ lock = c
    BY <1>1, EngineHasReader
  <1>3. Len(proc.in) = 1 /\ proc.in[1].client = c /\ proc.out = <<>>
    BY <1>1, <1>2 DEF Answering
  <1>4. proc \in Procs /\ proc.in \in Seq(Lines) /\ sent \in [Clients -> Nat]
    BY DEF TypeOK, Procs
  <1>5. Head(proc.in).client = c /\ Tail(proc.in) = <<>> /\ <<>> \in Seq(Lines)
    <2>1. proc.in # <<>> => Len(Tail(proc.in)) = Len(proc.in) - 1 /\ Tail(proc.in) \in Seq(Lines)
      BY <1>4, HeadTailProperties
    <2>2. Head(proc.in) = proc.in[1]
      BY <1>4, SMT
    <2>3. Len(Tail(proc.in)) = 0
      BY <1>1, <1>3, <2>1
    <2> QED  BY <1>1, <1>3, <2>1, <2>2, <2>3, EmptySeq
  <1>6. Len(proc.out) = 0 /\ TokensOut = 0
    BY <1>3, EmptySeq DEF TokensOut
  <1>7. pc[c] = "read" => sent[c] = Len(got[c]) + 0
    BY <1>6 DEF TokenInv
  <1>8. CASE proc' = [proc EXCEPT !.in = Tail(@), !.cur = Head(proc.in).client]
    <2>1. /\ proc' = [[proc EXCEPT !.in = <<>>] EXCEPT !.cur = c]
          /\ [proc EXCEPT !.in = <<>>] \in Procs
          /\ [proc EXCEPT !.in = <<>>] =
               [alive |-> proc.alive, model |-> proc.model, in |-> <<>>, out |-> proc.out,
                cur |-> proc.cur]
      BY <1>4, <1>5, <1>8, WithIn
    <2>2. /\ proc' \in Procs /\ proc'.alive = proc.alive /\ proc'.model = proc.model
          /\ proc'.in = <<>> /\ proc'.out = <<>> /\ proc'.cur = c
      BY <1>3, <2>1, WithCur
    <2>3. Answering(c)' /\ TokensOut' = 0
      BY <1>6, <2>2, EmptySeq DEF Answering, TokensOut
    <2> QED  BY <1>1, <1>2, <1>4, <1>7, <2>2, <2>3, EngineKeeps
  <1>9. ASSUME NEW kind \in {"bad", "err"}, proc' = [Put(kind) EXCEPT !.in = Tail(@)]
        PROVE  IInv'
    <2>1. /\ Put(kind) \in Procs /\ Put(kind).out # <<>>
          /\ Put(kind).alive = proc.alive /\ Put(kind).model = proc.model
          /\ Put(kind).in = proc.in /\ Put(kind).cur = NoClient
          /\ Len(Put(kind).out) = 1 /\ Put(kind).out[1].kind = kind
      <3>1. 0 + 1 = 1
        OBVIOUS
      <3>2. kind \in {"token", "done", "bad", "err"}
        BY <1>9
      <3>3. /\ Put(kind) \in Procs /\ Put(kind).out # <<>>
            /\ Put(kind).alive = proc.alive /\ Put(kind).model = proc.model
            /\ Put(kind).in = proc.in /\ Put(kind).cur = proc.cur
            /\ Len(Put(kind).out) = Len(proc.out) + 1
            /\ Put(kind).out[Len(proc.out) + 1] = [kind |-> kind, client |-> proc.cur]
        BY <3>2, PutIs
      <3>4. Len(Put(kind).out) = 1 /\ Put(kind).out[1] = [kind |-> kind, client |-> proc.cur]
        BY <1>6, <3>1, <3>3, Zenon
      <3> QED  BY <1>1, <3>3, <3>4
    <2>2. proc' = [Put(kind) EXCEPT !.in = <<>>]
      BY <1>5, <1>9, <2>1
    <2>3. /\ proc' \in Procs
          /\ proc' = [alive |-> Put(kind).alive, model |-> Put(kind).model, in |-> <<>>,
                      out |-> Put(kind).out, cur |-> Put(kind).cur]
      BY <1>5, <2>1, <2>2, WithIn
    <2>4. /\ proc'.alive = proc.alive /\ proc'.model = proc.model /\ proc'.in = <<>>
          /\ proc'.out = Put(kind).out /\ proc'.cur = NoClient
      BY <2>1, <2>3
    <2>5. Len(proc'.out) = 1 /\ proc'.out # <<>> /\ proc'.out[1].kind # "token"
      BY <2>1, <2>4
    <2>6. Answering(c)'
      <3>1. \A i \in 1 .. Len(proc'.out) : i = 1 /\ ~(i < Len(proc'.out))
        BY <2>5, SMT
      <3>2. proc'.cur # c
        BY <2>4, ClientAssumption
      <3> QED  BY <2>4, <2>5, <3>1, <3>2 DEF Answering
    <2>7. TokensOut' = 0
      BY <2>5 DEF TokensOut
    <2> QED  BY <1>1, <1>2, <1>4, <1>7, <2>3, <2>4, <2>6, <2>7, EngineKeeps
  <1> QED  BY <1>8, <1>9 DEF TakeLine

LEMMA EmitTokenKeeps ==
    ASSUME IInv, EmitToken
    PROVE  IInv'
  <1> USE DEF IInv, PipeInv, ModelInv
  <1>1. /\ proc.alive /\ proc.cur # NoClient /\ proc' = Put("token")
        /\ sent' = [sent EXCEPT ![proc.cur] = @ + 1]
        /\ UNCHANGED <<lock, engineVars, pc, requestVars, traceVars, connected, exits>>
    BY DEF EmitToken, HasRoom
  <1>2. PICK c \in Clients : Reading(c) /\ Answering(c) /\ lock = c
    BY <1>1, EngineHasReader
  <1>3. /\ proc.cur = c /\ proc.in = <<>>
        /\ \A i \in 1 .. Len(proc.out) : proc.out[i].kind = "token" /\ proc.out[i].client = c
    BY <1>1, <1>2 DEF Answering
  <1>4. /\ proc' \in Procs /\ proc'.alive = proc.alive /\ proc'.model = proc.model
        /\ proc'.in = <<>> /\ proc'.cur = c
        /\ Len(proc.out) \in Nat /\ Len(proc'.out) = Len(proc.out) + 1
        /\ \A i \in 1 .. Len(proc.out) : proc'.out[i] = proc.out[i]
        /\ proc'.out[Len(proc.out) + 1] = [kind |-> "token", client |-> c]
    BY <1>1, <1>3, PutIs
  <1>5. ASSUME NEW i \in 1 .. Len(proc'.out)
        PROVE  proc'.out[i].kind = "token" /\ proc'.out[i].client = c
    <2>1. i \in 1 .. Len(proc.out) \/ i = Len(proc.out) + 1
      BY <1>4, SMT
    <2> QED  BY <1>3, <1>4, <2>1
  <1>6. Answering(c)'
    BY <1>4, <1>5 DEF Answering
  <1>7. TokensOut = Len(proc.out) /\ TokensOut' = Len(proc.out) + 1
    <2>1. proc.out # <<>> => Len(proc.out) \in 1 .. Len(proc.out)
      BY EmptySeq, Counts DEF TypeOK, Procs
    <2>2. Len(proc'.out) \in 1 .. Len(proc'.out)
      BY <1>4, SMT
    <2> QED  BY <1>3, <1>4, <1>5, <2>1, <2>2 DEF TokensOut
  <1>8. /\ sent' \in [Clients -> Nat] /\ sent'[c] = sent[c] + 1
        /\ \A d \in Clients \ {c} : sent'[d] = sent[d]
    <2>1. sent \in [Clients -> Nat]
      BY DEF TypeOK
    <2>2. sent' = [sent EXCEPT ![c] = sent[c] + 1]
      BY <1>1, <1>3
    <2> QED  BY <2>1, <2>2
  <1>9. pc[c] = "read" => sent'[c] = Len(got[c]) + TokensOut'
    <2>1. pc[c] = "read" => sent[c] = Len(got[c]) + Len(proc.out)
      BY <1>7 DEF TokenInv
    <2>2. Len(got[c]) \in Nat /\ sent[c] \in Nat
      BY LenProperties DEF TypeOK
    <2>3. ASSUME NEW a \in Nat, NEW b \in Nat
          PROVE  a + b + 1 = a + (b + 1)
      OBVIOUS
    <2> QED  BY <1>4, <1>7, <1>8, <2>1, <2>2, <2>3, Zenon
  <1> QED  BY <1>1, <1>2, <1>4, <1>6, <1>8, <1>9, EngineKeeps

LEMMA EmitDoneKeeps ==
    ASSUME IInv, EmitDone
    PROVE  IInv'
  <1> USE DEF IInv, PipeInv, ModelInv
  <1>1. /\ proc.alive /\ proc.cur # NoClient /\ proc' = [Put("done") EXCEPT !.cur = NoClient]
        /\ UNCHANGED <<lock, engineVars, pc, requestVars, traceVars, connected, sent, exits>>
    BY DEF EmitDone, HasRoom
  <1>2. PICK c \in Clients : Reading(c) /\ Answering(c) /\ lock = c
    BY <1>1, EngineHasReader
  <1>3. /\ proc.cur = c /\ proc.in = <<>>
        /\ \A i \in 1 .. Len(proc.out) : proc.out[i].kind = "token" /\ proc.out[i].client = c
    BY <1>1, <1>2 DEF Answering
  <1>4. /\ Put("done") \in Procs /\ Put("done").alive = proc.alive
        /\ Put("done").model = proc.model /\ Put("done").in = <<>>
        /\ Len(proc.out) \in Nat /\ Len(Put("done").out) = Len(proc.out) + 1
        /\ \A i \in 1 .. Len(proc.out) : Put("done").out[i] = proc.out[i]
        /\ Put("done").out[Len(proc.out) + 1].kind = "done" /\ Put("done").out # <<>>
    BY <1>3, PutIs
  <1>5. /\ proc' \in Procs
        /\ proc' = [alive |-> Put("done").alive, model |-> Put("done").model,
                    in |-> Put("done").in, out |-> Put("done").out, cur |-> NoClient]
    BY <1>1, <1>4, WithCur
  <1>6. /\ proc'.alive = proc.alive /\ proc'.model = proc.model /\ proc'.in = <<>>
        /\ proc'.out = Put("done").out /\ proc'.cur = NoClient
    BY <1>4, <1>5
  <1>7. ASSUME NEW i \in 1 .. Len(proc'.out)
        PROVE  \/ i < Len(proc'.out) /\ proc'.out[i].kind = "token" /\ proc'.out[i].client = c
               \/ ~(i < Len(proc'.out)) /\ proc'.out[i].kind = "done"
    <2>1. \/ i \in 1 .. Len(proc.out) /\ i < Len(proc'.out)
          \/ i = Len(proc.out) + 1 /\ ~(i < Len(proc'.out))
      <3>1. Len(proc'.out) = Len(proc.out) + 1 /\ Len(proc.out) \in Nat
        BY <1>4, <1>6
      <3>2. i \in 1 .. Len(proc.out) + 1
        BY <3>1
      <3>3. \/ i \in 1 .. Len(proc.out) /\ i < Len(proc.out) + 1
            \/ i = Len(proc.out) + 1 /\ ~(i < Len(proc.out) + 1)
        BY <3>1, <3>2, LastOrNot, Zenon
      <3> QED  BY <3>1, <3>3, Zenon
    <2> QED  BY <1>3, <1>4, <1>6, <2>1
  <1>8. Answering(c)'
    BY <1>6, <1>7, ClientAssumption DEF Answering
  <1>9. TokensOut = Len(proc.out) /\ TokensOut' = Len(proc.out)
    <2>1. proc.out # <<>> => Len(proc.out) \in 1 .. Len(proc.out)
      BY EmptySeq, Counts DEF TypeOK, Procs
    <2>2. TokensOut = Len(proc.out)
      BY <1>3, <2>1 DEF TokensOut
    <2>3. Len(proc.out) + 1 - 1 = Len(proc.out)
      BY <1>4, SMT
    <2>4. TokensOut' = Len(proc.out) + 1 - 1
      BY <1>4, <1>6 DEF TokensOut
    <2> QED  BY <2>2, <2>3, <2>4
  <1>10. pc[c] = "read" => sent[c] = Len(got[c]) + TokensOut'
    BY <1>9 DEF TokenInv
  <1>11. sent \in [Clients -> Nat]
    BY DEF TypeOK
  <1> QED  BY <1>1, <1>2, <1>5, <1>6, <1>8, <1>10, <1>11, EngineKeeps

\* What it has written can still be read.
LEMMA ExitKeeps ==
    ASSUME IInv, Exit
    PROVE  IInv'
  <1> USE DEF IInv, Exit, engineVars, requestVars, traceVars
  <1>1. TypeOK' /\ LockInv'
    <2>1. proc' \in Procs
      <3>1. proc \in Procs /\ proc' = [proc EXCEPT !.alive = FALSE]
        BY DEF TypeOK
      <3> QED  BY <3>1, Zenon DEF Procs
    <2>2. exits' \in Nat
      BY SMT DEF TypeOK
    <2> QED  BY <2>1, <2>2 DEF TypeOK, LockInv
  <1>2. BoundaryInv' /\ AnswerInv'
    BY DEF PipeInv, BoundaryInv, AnswerInv, Answering, Reading, TypeOK, Procs
  <1>3. TokenInv' /\ OwnAnswer'
    BY DEF PipeInv, TokenInv, TokensOut, OwnAnswer, TypeOK, Procs
  <1>4. ModelInv'
    BY DEF ModelInv, WantInv, VaultInv, TokInv, RanInv, RightModel, TypeOK, Procs
  <1> QED  BY <1>1, <1>2, <1>3, <1>4 DEF PipeInv

----------------------------------------------------------------------------
(* The invariant, and what it gives *)

LEMMA InitEstablishes == Init => IInv
  <1> SUFFICES ASSUME Init PROVE IInv
    OBVIOUS
  <1> USE ModelAssumption, ClientAssumption DEF Init
  <1>1. /\ proc \in Procs /\ proc.alive /\ proc.model = FirstModel
        /\ proc.in = <<>> /\ proc.out = <<>> /\ proc.cur = NoClient
    BY BootedIs
  <1>2. TypeOK
    <2>1. got \in [Clients -> Seq(Clients)]
      BY EmptySeq
    <2>2. overrides \in [Clients -> BOOLEAN] /\ connected \in [Clients -> BOOLEAN]
      BY Zenon
    <2> QED  BY <1>1, <2>1, <2>2 DEF TypeOK, Labels
  <1>3. LockInv
    BY DEF LockInv, Holding
  <1>4. PipeInv
    BY <1>1, EmptySeq DEF PipeInv, BoundaryInv, AnswerInv, Reading, TokenInv, OwnAnswer
  <1>5. ModelInv
    BY <1>1 DEF ModelInv, WantInv, VaultInv, TokInv, RanInv, RightModel
  <1> QED  BY <1>2, <1>3, <1>4, <1>5 DEF IInv

LEMMA StepKeeps == IInv /\ [Next]_vars => IInv'
  <1> SUFFICES ASSUME IInv, [Next]_vars PROVE IInv'
    OBVIOUS
  <1>1. CASE UNCHANGED vars
    BY <1>1 DEF vars, engineVars, requestVars, traceVars, IInv, TypeOK, LockInv, PipeInv,
       BoundaryInv, AnswerInv, Answering, Reading, TokenInv, TokensOut, OwnAnswer, ModelInv,
       WantInv, VaultInv, TokInv, RanInv, RightModel
  <1>2. ASSUME NEW c \in Clients, NEW m \in Models \cup {NoModel}, NEW o \in BOOLEAN,
               Post(c, m, o)
        PROVE  IInv'
    BY <1>2, PostKeeps
  <1>3. ASSUME NEW c \in Clients, HangUp(c)
        PROVE  IInv'
    BY <1>3, HangUpKeeps
  <1>4. ASSUME NEW c \in Clients, Handle(c)
        PROVE  IInv'
    BY <1>4, ResolveKeeps, AcquireKeeps, StopOldKeeps, SetActiveKeeps, LoadTokKeeps,
       LoadTokFailsKeeps, SpawnKeeps, StartKeeps, EncodeKeeps, WriteKeeps, WriteFailsKeeps,
       ReadTokenKeeps, ReadDoneKeeps, RetryKeeps, ReadErrorKeeps, ReadEofKeeps,
       DrainWordKeeps, DrainEofKeeps DEF Handle
  <1>5. CASE EngineStep
    BY <1>5, TakeLineKeeps, EmitTokenKeeps, EmitDoneKeeps DEF EngineStep
  <1>6. CASE Exit
    BY <1>6, ExitKeeps
  <1> QED  BY <1>1, <1>2, <1>3, <1>4, <1>5, <1>6 DEF Next, Quiet

LEMMA Invariance == Spec => []IInv
  BY InitEstablishes, StepKeeps, PTL DEF Spec

\* Every variable of the server keeps its type: threads are at a label of generate's or
\* _ensure's code, the pipes hold whole lines and words.
THEOREM TypeCorrect == Spec => []TypeOK
  <1>1. IInv => TypeOK
    BY DEF IInv
  <1> QED  BY <1>1, Invariance, PTL

\* generate and _drain: a client is passed tokens of its own answer only, and all of
\* them when its request ends well, whoever hangs up and whenever the engine exits.
THEOREM AnswersOwn == Spec => []OwnAnswer
  <1>1. IInv => OwnAnswer
    BY DEF IInv, PipeInv
  <1> QED  BY <1>1, Invariance, PTL

\* _ensure: a prompt is run by the vault its request resolved to, encoded with that
\* vault's tokenizer where it can be loaded.
THEOREM RunsItsModel == Spec => []RightModel
  <1>1. IInv => RightModel
    BY DEF IInv, ModelInv, RanInv
  <1> QED  BY <1>1, Invariance, PTL

\* When nobody holds the lock, a live engine is at a request boundary.
FreeAtBoundary ==
    lock = NoClient /\ proc.alive => proc.in = <<>> /\ proc.out = <<>> /\ proc.cur = NoClient

\* Every way out of generate, by a result or an exception, leaves the engine at a
\* boundary for the next request, or dead.
THEOREM BoundaryWhenFree == Spec => []FreeAtBoundary
  <1>1. IInv => FreeAtBoundary
    <2> SUFFICES ASSUME IInv, lock = NoClient PROVE FreeAtBoundary
      BY DEF FreeAtBoundary
    <2>1. \A c \in Clients : ~Reading(c)
      BY ClientAssumption DEF IInv, LockInv, Reading, Holding
    <2> QED  BY <2>1 DEF IInv, PipeInv, BoundaryInv, FreeAtBoundary
  <1> QED  BY <1>1, Invariance, PTL
=============================================================================

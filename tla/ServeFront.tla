----------------------------- MODULE ServeFront -----------------------------
(***************************************************************************)
(* src/serve.py: HTTP handler threads that share one engine process.       *)
(*                                                                         *)
(* Each client is one POST.  Its thread resolves the model, takes the      *)
(* lock, switches or respawns the engine if it must, writes a GEN line and *)
(* reads the engine's output word by word, passing tokens on, until the    *)
(* terminator.  The client may hang up at any time; a write to it may then *)
(* raise, and the rest of the answer has to be drained.                    *)
(*                                                                         *)
(* Abstractions.  A token is the request it answers.  Of the engine        *)
(* process (src/main.cpp) there is the request loop: it answers each line  *)
(* with tokens and a terminator, or with an error, and may exit at any     *)
(* time.  Text decoding, the two protocols' framing and the model listing  *)
(* are left out, as are the wait and the kill of an engine that is slow to *)
(* terminate.                                                              *)
(***************************************************************************)
EXTENDS Naturals, Sequences

CONSTANTS
    Clients,        \* the requests, each with a handler thread
    Models,         \* the discovered vaults
    FirstModel,     \* the one loaded at startup
    Unloadable,     \* models whose tokenizer may fail to load
    MaxTokens,      \* BOUND: tokens of an answer
    PipeSize,       \* BOUND: words the engine can write ahead of the reader
    MaxExits,       \* BOUND: times the engine exits by itself
    NoModel, NoClient

ASSUME ModelAssumption ==
    FirstModel \in Models /\ NoModel \notin Models /\ Unloadable \subseteq Models
ASSUME ClientAssumption == NoClient \notin Clients
ASSUME BoundAssumption ==
    MaxTokens \in Nat /\ PipeSize \in Nat \ {0} /\ MaxExits \in Nat

VARIABLES
    lock,           \* Engine.lock
    active,         \* Engine.active
    tok,            \* Engine.tok: the model whose tokenizer it is
    toks,           \* Engine.toks: the tokenizers already loaded
    proc,           \* Engine.proc and its two pipes
    pc,             \* each handler thread
    named, overrides,           \* the request's body
    want,           \* the model the handler resolved
    encoded,        \* the tokenizer its prompt was encoded with
    ran,            \* the vault its GEN line was written to
    got,            \* the tokens passed on to the client
    connected,      \* the client has not hung up
    sent,           \* history: tokens the engine wrote for each request
    exits

engineVars  == <<active, tok, toks>>
requestVars == <<named, overrides>>
traceVars   == <<want, encoded, ran, got>>
vars == <<lock, engineVars, proc, pc, requestVars, traceVars, connected, sent, exits>>

\* A new process, its pipes empty: cur is the request it answers.
Booted(m) == [alive |-> TRUE, model |-> m, in |-> <<>>, out |-> <<>>, cur |-> NoClient]

Init ==
    /\ lock = NoClient
    /\ active = FirstModel /\ tok = FirstModel /\ toks = {FirstModel}
    /\ proc = Booted(FirstModel)
    /\ pc = [c \in Clients |-> "idle"]
    /\ named = [c \in Clients |-> NoModel]
    /\ overrides = [c \in Clients |-> FALSE]
    /\ want    = [c \in Clients |-> NoModel]
    /\ encoded = [c \in Clients |-> NoModel]
    /\ ran     = [c \in Clients |-> NoModel]
    /\ got     = [c \in Clients |-> <<>>]
    /\ connected = [c \in Clients |-> TRUE]
    /\ sent = [c \in Clients |-> 0]
    /\ exits = 0

Goto(c, label) == pc' = [pc EXCEPT ![c] = label]

\* The end of the with block, with a result or by an exception.
Leave(c, label) == lock' = NoClient /\ Goto(c, label)

-----------------------------------------------------------------------------
(***************************************************************************)
(* The handler, up to the lock.                                            *)
(***************************************************************************)
Post(c, m, o) ==
    /\ pc[c] = "idle"
    /\ named' = [named EXCEPT ![c] = m]
    /\ overrides' = [overrides EXCEPT ![c] = o]
    /\ Goto(c, "resolve")
    /\ UNCHANGED <<lock, engineVars, proc, traceVars, connected, sent, exits>>

\* An absent or unknown model is whatever is loaded now.
Resolve(c) ==
    /\ pc[c] = "resolve"
    /\ want' = [want EXCEPT ![c] = IF named[c] \in Models THEN named[c] ELSE active]
    /\ Goto(c, "lock")
    /\ UNCHANGED <<lock, engineVars, proc, requestVars, encoded, ran, got, connected,
                   sent, exits>>

Acquire(c) ==
    /\ pc[c] = "lock" /\ lock = NoClient
    /\ lock' = c
    /\ Goto(c, IF want[c] = active THEN "start" ELSE "stopOld")
    /\ UNCHANGED <<engineVars, proc, requestVars, traceVars, connected, sent, exits>>

\* The client hangs up; its thread notices at a later write, if at all.
HangUp(c) ==
    /\ pc[c] \notin {"idle", "done", "failed"}
    /\ connected[c]
    /\ connected' = [connected EXCEPT ![c] = FALSE]
    /\ UNCHANGED <<lock, engineVars, proc, pc, requestVars, traceVars, sent, exits>>

-----------------------------------------------------------------------------
(***************************************************************************)
(* _ensure: the old engine is down before the new one boots.  active is    *)
(* set first, then the tokenizer is loaded, then the engine is spawned.    *)
(***************************************************************************)
StopOld(c) ==
    /\ pc[c] = "stopOld"
    /\ proc' = [proc EXCEPT !.alive = FALSE]
    /\ Goto(c, "setActive")
    /\ UNCHANGED <<lock, engineVars, requestVars, traceVars, connected, sent, exits>>

SetActive(c) ==
    /\ pc[c] = "setActive"
    /\ active' = want[c]
    /\ Goto(c, "loadTok")
    /\ UNCHANGED <<lock, tok, toks, proc, requestVars, traceVars, connected, sent, exits>>

\* Mutant: a tokenizer that is already loaded is not put back in use.
LoadTokNewOnly(c) ==
    /\ pc[c] = "loadTok"
    /\ tok' = IF active \in toks THEN tok ELSE active
    /\ toks' = toks \cup {active}
    /\ Goto(c, "spawn")
    /\ UNCHANGED <<lock, active, proc, requestVars, traceVars, connected, sent, exits>>

LoadTok(c) ==
    /\ pc[c] = "loadTok"
    /\ tok' = active
    /\ toks' = toks \cup {active}
    /\ Goto(c, "spawn")
    /\ UNCHANGED <<lock, active, proc, requestVars, traceVars, connected, sent, exits>>

\* from_pretrained raises; what was assigned before it stays.
LoadTokFails(c) ==
    /\ pc[c] = "loadTok"
    /\ active \in Unloadable \ toks
    /\ Leave(c, "failed")
    /\ UNCHANGED <<engineVars, proc, requestVars, traceVars, connected, sent, exits>>

Spawn(c) ==
    /\ pc[c] = "spawn"
    /\ proc' = Booted(active)
    /\ Goto(c, "start")
    /\ UNCHANGED <<lock, engineVars, requestVars, traceVars, connected, sent, exits>>

-----------------------------------------------------------------------------
(***************************************************************************)
(* generate.                                                               *)
(***************************************************************************)
\* A write to a client that has hung up may raise.  (It may also be buffered, and
\* a client that does not stream is only written to at the end.)
MayRaise(c) == ~connected[c]

Start(c) ==
    /\ pc[c] = "start"
    /\ proc' = IF proc.alive THEN proc ELSE Booted(active)
    /\ Goto(c, "encode")
    /\ UNCHANGED <<lock, engineVars, requestVars, traceVars, connected, sent, exits>>

\* The template may refuse the messages; the client may be gone when it is told the
\* prompt's size (on_prompt).  Either way nothing has been written to the engine.
Encode(c) ==
    /\ pc[c] = "encode"
    /\ \/ /\ encoded' = [encoded EXCEPT ![c] = tok]
          /\ Goto(c, "write")
          /\ UNCHANGED lock
       \/ Leave(c, "failed") /\ UNCHANGED encoded
    /\ UNCHANGED <<engineVars, proc, requestVars, want, ran, got, connected, sent, exits>>

Gen(c) == [client |-> c, overrides |-> overrides[c]]

Write(c) ==
    /\ pc[c] = "write" /\ proc.alive
    /\ proc' = [proc EXCEPT !.in = Append(@, Gen(c))]
    /\ ran' = [ran EXCEPT ![c] = proc.model]
    /\ Goto(c, "read")
    /\ UNCHANGED <<lock, engineVars, requestVars, want, encoded, got, connected, sent, exits>>

\* BrokenPipeError: the engine is respawned for the next request.
WriteFails(c) ==
    /\ pc[c] = "write" /\ ~proc.alive
    /\ proc' = Booted(active)
    /\ Leave(c, "failed")
    /\ UNCHANGED <<engineVars, requestVars, traceVars, connected, sent, exits>>

Word  == Head(proc.out)
Taken == [proc EXCEPT !.out = Tail(@)]

\* Mutant: the exception leaves the rest of the answer in the pipe.
ReadTokenNoDrain(c) ==
    /\ pc[c] = "read" /\ proc.out # <<>> /\ Word.kind = "token"
    /\ proc' = Taken
    /\ \/ /\ got' = [got EXCEPT ![c] = Append(@, Word.client)]
          /\ UNCHANGED <<lock, pc>>
       \/ MayRaise(c) /\ Leave(c, "failed") /\ UNCHANGED got
    /\ UNCHANGED <<engineVars, requestVars, want, encoded, ran, connected, sent, exits>>

\* A token is passed on.  If that raises, the rest is still in the pipe.
ReadToken(c) ==
    /\ pc[c] = "read" /\ proc.out # <<>> /\ Word.kind = "token"
    /\ proc' = Taken
    /\ \/ /\ got' = [got EXCEPT ![c] = Append(@, Word.client)]
          /\ UNCHANGED pc
       \/ MayRaise(c) /\ Goto(c, "drain") /\ UNCHANGED got
    /\ UNCHANGED <<lock, engineVars, requestVars, want, encoded, ran, connected, sent, exits>>

\* <<DONE>>: the last text is flushed, which may raise, at a boundary.
ReadDone(c) ==
    /\ pc[c] = "read" /\ proc.out # <<>> /\ Word.kind = "done"
    /\ proc' = Taken
    /\ Leave(c, "done") \/ (MayRaise(c) /\ Leave(c, "failed"))
    /\ UNCHANGED <<engineVars, requestVars, traceVars, connected, sent, exits>>

\* <<ERR bad_request>> to a request with overrides may come from an engine that
\* does not know them.
Retriable(c) == Word.kind = "bad" /\ overrides[c] /\ got[c] = <<>>

\* The request is written again without them, and the loop goes on; if the
\* write raises, the finally block drains.
Retry(c) ==
    /\ pc[c] = "read" /\ proc.out # <<>> /\ Retriable(c)
    /\ overrides' = [overrides EXCEPT ![c] = FALSE]
    /\ IF proc.alive
       THEN /\ proc' = [Taken EXCEPT !.in = Append(@, [client |-> c, overrides |-> FALSE])]
            /\ UNCHANGED pc
       ELSE proc' = Taken /\ Goto(c, "drain")
    /\ UNCHANGED <<lock, engineVars, named, traceVars, connected, sent, exits>>

\* Any other <<ERR ...>>.
ReadError(c) ==
    /\ pc[c] = "read" /\ proc.out # <<>>
    /\ Word.kind \in {"bad", "err"} /\ ~Retriable(c)
    /\ proc' = Taken
    /\ Leave(c, "failed")
    /\ UNCHANGED <<engineVars, requestVars, traceVars, connected, sent, exits>>

\* End of file: the engine is gone.
ReadEof(c) ==
    /\ pc[c] = "read" /\ proc.out = <<>> /\ ~proc.alive
    /\ Leave(c, "failed")
    /\ UNCHANGED <<engineVars, proc, requestVars, traceVars, connected, sent, exits>>

\* _drain: a line at a time while the engine lives, up to a terminator.
DrainWord(c) ==
    /\ pc[c] = "drain" /\ proc.alive /\ proc.out # <<>>
    /\ proc' = Taken
    /\ IF Word.kind = "token" THEN UNCHANGED <<lock, pc>> ELSE Leave(c, "failed")
    /\ UNCHANGED <<engineVars, requestVars, traceVars, connected, sent, exits>>

\* Mutant: only a terminator ends the drain.
DrainEofNever(c) == pc[c] = "drain" /\ ~proc.alive /\ UNCHANGED vars

\* The engine is gone: nothing to drain.
DrainEof(c) ==
    /\ pc[c] = "drain" /\ ~proc.alive
    /\ Leave(c, "failed")
    /\ UNCHANGED <<engineVars, proc, requestVars, traceVars, connected, sent, exits>>

-----------------------------------------------------------------------------
(***************************************************************************)
(* The engine process: the loop of main.cpp in serve mode, and its pipe.   *)
(***************************************************************************)
Put(kind) == [proc EXCEPT !.out = Append(@, [kind |-> kind, client |-> proc.cur])]

HasRoom == proc.alive /\ Len(proc.out) < PipeSize

\* A line is read: it is answered, or refused at once.  (bad_request to a line
\* without overrides is an error like another to serve.py: "err".)
TakeLine ==
    /\ HasRoom /\ proc.cur = NoClient /\ proc.in # <<>>
    /\ LET line == Head(proc.in)
           refusals == IF line.overrides THEN {"bad", "err"} ELSE {"err"}
       IN \/ proc' = [proc EXCEPT !.in = Tail(@), !.cur = line.client]
          \/ \E kind \in refusals :
                proc' = [Put(kind) EXCEPT !.in = Tail(@)]
    /\ UNCHANGED <<lock, engineVars, pc, requestVars, traceVars, connected, sent, exits>>

EmitToken ==
    /\ HasRoom /\ proc.cur # NoClient /\ sent[proc.cur] < MaxTokens
    /\ proc' = Put("token")
    /\ sent' = [sent EXCEPT ![proc.cur] = @ + 1]
    /\ UNCHANGED <<lock, engineVars, pc, requestVars, traceVars, connected, exits>>

EmitDone ==
    /\ HasRoom /\ proc.cur # NoClient
    /\ proc' = [Put("done") EXCEPT !.cur = NoClient]
    /\ UNCHANGED <<lock, engineVars, pc, requestVars, traceVars, connected, sent, exits>>

\* The engine exits: at its start, when it cannot open its vault, or by a crash.
\* What it has written can still be read.
Exit ==
    /\ proc.alive /\ exits < MaxExits
    /\ proc' = [proc EXCEPT !.alive = FALSE]
    /\ exits' = exits + 1
    /\ UNCHANGED <<lock, engineVars, pc, requestVars, traceVars, connected, sent>>

-----------------------------------------------------------------------------
\* What a handler thread does on its own once it wants the lock.
Handle(c) ==
    \/ Resolve(c) \/ Acquire(c)
    \/ StopOld(c) \/ SetActive(c) \/ LoadTok(c) \/ LoadTokFails(c) \/ Spawn(c)
    \/ Start(c) \/ Encode(c) \/ Write(c) \/ WriteFails(c)
    \/ ReadToken(c) \/ ReadDone(c) \/ Retry(c) \/ ReadError(c) \/ ReadEof(c)
    \/ DrainWord(c) \/ DrainEof(c)

EngineStep == TakeLine \/ EmitToken \/ EmitDone

\* All requests are answered; the server waits for more.
Quiet == (\A c \in Clients : pc[c] \in {"done", "failed"}) /\ UNCHANGED vars

Next ==
    \/ \E c \in Clients :
        \/ \E m \in Models \cup {NoModel}, o \in BOOLEAN : Post(c, m, o)
        \/ Handle(c) \/ HangUp(c)
    \/ EngineStep \/ Exit
    \/ Quiet

Spec == Init /\ [][Next]_vars

\* The handler threads run, and the engine answers what it has read.
FairSpec == Spec /\ (\A c \in Clients : WF_vars(Handle(c))) /\ WF_vars(EngineStep)

-----------------------------------------------------------------------------
(***************************************************************************)
(* Properties.                                                             *)
(***************************************************************************)
Labels == {"idle", "resolve", "lock", "stopOld", "setActive", "loadTok", "spawn", "start",
           "encode", "write", "read", "drain", "done", "failed"}

Lines == [client : Clients, overrides : BOOLEAN]
Words == [kind : {"token", "done", "bad", "err"}, client : Clients \cup {NoClient}]
Procs == [alive : BOOLEAN, model : Models, in : Seq(Lines), out : Seq(Words),
          cur : Clients \cup {NoClient}]

\* The types of every variable.
TypeOK ==
    /\ lock \in Clients \cup {NoClient}
    /\ active \in Models /\ tok \in Models /\ toks \subseteq Models
    /\ proc \in Procs
    /\ pc \in [Clients -> Labels]
    /\ named \in [Clients -> Models \cup {NoModel}]
    /\ overrides \in [Clients -> BOOLEAN]
    /\ want \in [Clients -> Models \cup {NoModel}]
    /\ encoded \in [Clients -> Models \cup {NoModel}]
    /\ ran \in [Clients -> Models \cup {NoModel}]
    /\ got \in [Clients -> Seq(Clients)]
    /\ connected \in [Clients -> BOOLEAN]
    /\ sent \in [Clients -> Nat] /\ exits \in Nat

\* A client is passed tokens of its own answer only, and a request that ends
\* well has passed on all of them.
OwnAnswer ==
    \A c \in Clients :
        /\ \A i \in 1 .. Len(got[c]) : got[c][i] = c
        /\ pc[c] = "done" => Len(got[c]) = sent[c]

\* A request is run by the vault its answer names, the one it asked for if it
\* asked for one, and was encoded with that vault's tokenizer, at least when that
\* tokenizer can always be loaded.
RightModel ==
    \A c \in Clients :
        ran[c] # NoModel =>
            /\ ran[c] = want[c]
            /\ named[c] \in Models => ran[c] = named[c]
            /\ ran[c] \notin Unloadable => encoded[c] = ran[c]

\* Every request that has been posted is answered, whoever hangs up and
\* whenever the engine exits.
Answered == \A c \in Clients : pc[c] = "resolve" ~> pc[c] \in {"done", "failed"}

\* The prompt a vault runs was encoded with its own tokenizer.
OwnTokenizer == \A c \in Clients : ran[c] # NoModel => encoded[c] = ran[c]
=============================================================================

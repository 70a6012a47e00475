----------------------------- MODULE DaemonIpc -----------------------------
(***************************************************************************)
(* Requests to the daemon.  One thread accepts a connection at a time,     *)
(* reads one frame, dispatches it and answers; requests wait in the        *)
(* backlog of the socket, also those whose client has given up waiting.    *)
(* A collection preview is too large for a frame: a client begins a draft, *)
(* appends its chunks and then adds the collection, or aborts.  The daemon *)
(* stages one draft at a time, in memory (apps/wikisyncd/src/lib.rs,       *)
(* application.rs).                                                        *)
(***************************************************************************)
EXTENDS Naturals, Sequences
CONSTANTS Clients, NoClient, Chunks, MaxTokens, MaxBacklog, MaxAdded
ASSUME IpcAssumption == /\ NoClient \notin Clients
                        /\ Chunks \in Nat \ {0} /\ MaxTokens \in Nat \ {0}
                        /\ MaxBacklog \in Nat \ {0}

VARIABLES
  step,      \* the call a client is in
  answered,  \* whether the client still waits for its answer
  token,     \* the token a client was given
  sent,      \* how many chunks it has had confirmed
  backlog,   \* requests not yet accepted, oldest first
  staged,    \* the draft in the daemon: its token, whose chunks it has, and whether
             \* one of them came from a client of an earlier daemon (history)
  nextToken, \* process-local, 1 in every new daemon
  daemonUp,
  added,     \* drafts committed as collections, by the client that asked
  restarted  \* clients that began with an earlier daemon (history variable)
ipcVars == <<step, answered, token, sent, backlog, staged, nextToken, daemonUp, added, restarted>>

ClientSteps == {"idle", "begin", "append", "add", "abort"}
NoDraft == [token |-> 0, parts |-> <<>>, crossed |-> FALSE]
Requests == [from : Clients \cup {NoClient}, kind : ClientSteps \ {"idle"}, by : Clients,
             token : 0..MaxTokens, offset : 0..Chunks, old : BOOLEAN]

IpcTypeOK ==
  /\ step \in [Clients -> ClientSteps] /\ answered \in [Clients -> BOOLEAN]
  /\ token \in [Clients -> 0..MaxTokens] /\ sent \in [Clients -> 0..Chunks]
  /\ backlog \in Seq(Requests) /\ Len(backlog) <= MaxBacklog
  /\ staged.token \in 0..MaxTokens /\ staged.parts \in Seq(Clients)
  /\ Len(staged.parts) <= Chunks /\ staged.crossed \in BOOLEAN
  /\ nextToken \in 1..(MaxTokens + 1) /\ daemonUp \in BOOLEAN
  /\ added \in Seq([by : Clients, parts : Seq(Clients), crossed : BOOLEAN])
  /\ restarted \subseteq Clients

IpcInit ==
  /\ step = [c \in Clients |-> "idle"] /\ answered = [c \in Clients |-> TRUE]
  /\ token = [c \in Clients |-> 0] /\ sent = [c \in Clients |-> 0]
  /\ backlog = <<>> /\ staged = NoDraft /\ nextToken = 1 /\ daemonUp = TRUE
  /\ added = <<>> /\ restarted = {}

(* Connect, write the frame and wait. *)
Call(c, kind) ==
  /\ daemonUp /\ Len(backlog) < MaxBacklog
  /\ step' = [step EXCEPT ![c] = kind]
  /\ answered' = [answered EXCEPT ![c] = FALSE]
  /\ backlog' = Append(backlog, [from |-> c, by |-> c, kind |-> kind,
                                 token |-> token[c], offset |-> sent[c],
                                 old |-> c \in restarted])

BeginDraft(c) ==
  /\ step[c] = "idle" /\ Call(c, "begin")
  /\ restarted' = restarted \ {c}
  /\ UNCHANGED <<token, sent, staged, nextToken, daemonUp, added>>

NextCall(c) ==
  /\ answered[c] /\ step[c] \in {"begin", "append"} /\ token[c] # 0
  /\ Call(c, IF sent[c] < Chunks THEN "append" ELSE "add")
  /\ UNCHANGED <<token, sent, staged, nextToken, daemonUp, added, restarted>>

(* The client ends; a connection it has closed stays in the backlog. *)
Leave(c) ==
  /\ step' = [step EXCEPT ![c] = "idle"]
  /\ answered' = [answered EXCEPT ![c] = TRUE]
  /\ token' = [token EXCEPT ![c] = 0] /\ sent' = [sent EXCEPT ![c] = 0]

(* A read timeout or a kill: nothing tells the daemon. *)
GiveUpCall(c) ==
  /\ ~answered[c] /\ Leave(c)
  /\ backlog' = [i \in DOMAIN backlog |->
                   IF backlog[i].from = c THEN [backlog[i] EXCEPT !.from = NoClient] ELSE backlog[i]]
  /\ UNCHANGED <<staged, nextToken, daemonUp, added, restarted>>

(* The daemon's answer to the request it has just served. *)
Answer(r, ok) ==
  IF r.from = NoClient THEN UNCHANGED <<step, answered, token, sent>>
  ELSE LET c == r.from IN
    CASE ~ok /\ r.kind \in {"append", "add"} ->    \* then an abort, best effort
           /\ answered' = [answered EXCEPT ![c] = TRUE]
           /\ step' = [step EXCEPT ![c] = "abort"] /\ UNCHANGED <<token, sent>>
      [] ok /\ r.kind = "begin" ->
           /\ answered' = [answered EXCEPT ![c] = TRUE]
           /\ token' = [token EXCEPT ![c] = staged'.token] /\ UNCHANGED <<step, sent>>
      [] ok /\ r.kind = "append" ->
           /\ answered' = [answered EXCEPT ![c] = TRUE]
           /\ sent' = [sent EXCEPT ![c] = @ + 1] /\ UNCHANGED <<step, token>>
      [] OTHER -> Leave(c)

Abort(c) ==
  /\ step[c] = "abort" /\ answered[c]
  /\ \/ Call(c, "abort") /\ UNCHANGED <<token, sent>>
     \/ ~daemonUp /\ Leave(c) /\ UNCHANGED backlog
  /\ UNCHANGED <<staged, nextToken, daemonUp, added, restarted>>

HoldsDraftLoosely(r) == staged # NoDraft
HoldsDraft(r) == staged # NoDraft /\ staged.token = r.token

ServeBegin(r) ==
  IF staged # NoDraft
    THEN Answer(r, FALSE) /\ UNCHANGED <<staged, nextToken, added>>
    ELSE /\ nextToken <= MaxTokens
         /\ staged' = [NoDraft EXCEPT !.token = nextToken]
         /\ nextToken' = nextToken + 1
         /\ Answer(r, TRUE) /\ UNCHANGED added

ServeAppendUnbounded(r) ==
  /\ staged' = IF HoldsDraft(r) THEN [staged EXCEPT !.parts = Append(@, r.by),
                                            !.crossed = @ \/ r.old] ELSE staged
  /\ Answer(r, HoldsDraft(r)) /\ UNCHANGED <<nextToken, added>>
ServeAppend(r) ==
  LET ok == HoldsDraft(r) /\ r.offset = Len(staged.parts) /\ Len(staged.parts) < Chunks IN
    /\ staged' = IF ok THEN [staged EXCEPT !.parts = Append(@, r.by),
                                       !.crossed = @ \/ r.old] ELSE staged
    /\ Answer(r, ok) /\ UNCHANGED <<nextToken, added>>

(* The collection is created in one transaction, which may fail and leaves
   the draft staged then. *)
ServeAdd(r) ==
  \/ /\ HoldsDraft(r) /\ Len(staged.parts) = Chunks /\ Len(added) < MaxAdded
     /\ added' = Append(added, [by |-> r.by, parts |-> staged.parts,
                                 crossed |-> staged.crossed \/ r.old])
     /\ staged' = NoDraft
     /\ Answer(r, TRUE) /\ UNCHANGED nextToken
  \/ Answer(r, FALSE) /\ UNCHANGED <<staged, nextToken, added>>

ServeAbort(r) ==
  /\ staged' = IF HoldsDraft(r) THEN NoDraft ELSE staged
  /\ Answer(r, HoldsDraft(r)) /\ UNCHANGED <<nextToken, added>>

Serve ==
  /\ daemonUp /\ backlog # <<>>
  /\ LET r == Head(backlog) IN
       \/ r.kind = "begin" /\ ServeBegin(r)
       \/ r.kind = "append" /\ ServeAppend(r)
       \/ r.kind = "add" /\ ServeAdd(r)
       \/ r.kind = "abort" /\ ServeAbort(r)
  /\ backlog' = Tail(backlog)
  /\ UNCHANGED <<daemonUp, restarted>>

(* Ten minutes without an accepted chunk; noticed by the next request. *)
Expire ==
  /\ daemonUp /\ staged # NoDraft /\ staged' = NoDraft
  /\ UNCHANGED <<step, answered, token, sent, backlog, nextToken, daemonUp, added, restarted>>

(* A shutdown or a kill: the draft and the backlog are gone, every waiting
   client reads a reset connection. *)
DaemonEnds ==
  /\ daemonUp /\ daemonUp' = FALSE
  /\ backlog' = <<>> /\ staged' = NoDraft
  /\ step' = [c \in Clients |-> IF answered[c] THEN step[c]
                                ELSE IF step[c] \in {"append", "add"} THEN "abort" ELSE "idle"]
  /\ answered' = [c \in Clients |-> TRUE]
  /\ token' = [c \in Clients |-> IF step'[c] = "idle" THEN 0 ELSE token[c]]
  /\ sent' = [c \in Clients |-> IF step'[c] = "idle" THEN 0 ELSE sent[c]]
  /\ restarted' = restarted \cup {c \in Clients : step[c] # "idle"}
  /\ UNCHANGED <<nextToken, added>>

DaemonStarts ==
  /\ ~daemonUp /\ daemonUp' = TRUE /\ nextToken' = 1
  /\ UNCHANGED <<step, answered, token, sent, backlog, staged, added, restarted>>

IpcNext ==
  \/ \E c \in Clients : BeginDraft(c) \/ NextCall(c) \/ GiveUpCall(c) \/ Abort(c)
  \/ Serve \/ Expire \/ DaemonEnds \/ DaemonStarts
IpcSpec == IpcInit /\ [][IpcNext]_ipcVars

(* A collection is never made of the chunks of two clients, however requests
   of clients that gave up, expired drafts and new ones interleave.  Tokens
   start again at 1 in a new daemon, so a client that began with the daemon
   before it may still write into another's draft. *)
OneClientPerDraft ==
  \A i \in DOMAIN added : ~added[i].crossed =>
     \A j \in DOMAIN added[i].parts : added[i].parts[j] = added[i].by
=============================================================================

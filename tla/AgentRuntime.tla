---------------------------- MODULE AgentRuntime ----------------------------
(***************************************************************************)
(* The sessions of the agent runtime, minilab-api/src/agent_runtime.rs,    *)
(* with the handlers of app.rs, mcp_command.rs and mcp_artifacts.rs.       *)
(*                                                                         *)
(* Handlers run in parallel; one mutex guards the map of sessions.  They   *)
(* await nothing, so a handler that has begun also ends: an action is one  *)
(* possession of the mutex with the local code around it, and only a       *)
(* message takes it twice.  The id of a run, and of a session that was not *)
(* named, is a fresh uuid: the call that draws it.                         *)
(***************************************************************************)
EXTENDS StrongGrammar

CONSTANTS
    Session,        \* session ids that clients bring along
    Call,           \* calls of the runtime
    Class           \* output classes that clients name

ASSUME IdAssumption == Session \cap Call = {} /\ "none" \notin Session \cup Call

VARIABLES
    pc,             \* "idle", "pipeline", "answered" or "refused", per call
    request,        \* what each call asked for
    sessions,       \* the latest snapshot of each session
    updates,        \* the calls that updated each run, in the order they did
    racing          \* the messages still unanswered in a session when its run was recorded

sessionVars == <<pc, request, sessions, updates, racing>>

None == "none"
SessionId == Session \cup Call

Message == {"advisory", "artifact", "proposal"}
Governed == {"intent", "handoff", "operational"}
Attachment == {"create_artifact", "summary", "output", "result", "note"}
OutputClass == {"advisory", "proposal", "artifact", "execution_summary", "handoff_result"}

Request(op, session, run, class) == [op |-> op, session |-> session, run |-> run, class |-> class]
NoRequest == Request(None, None, None, None)
NoSnapshot == [run |-> None]

-----------------------------------------------------------------------------
(* Drafts. *)

Waits(op) == op \in Governed \cup {"proposal"}

Output(op) ==
    CASE op \in {"proposal", "intent", "operational"} -> "proposal"
      [] op = "handoff" -> "handoff_result"
      [] OTHER -> op

Event(kind, c) == [kind |-> kind, by |-> c]

DraftSnapshot(c, op) ==
    LET phase == IF Waits(op) THEN "awaiting_input" ELSE "completed"
    IN  [run |-> c,
         status |-> IF Waits(op) THEN "waiting" ELSE "completed",
         phase |-> phase,
         checkpoint |-> phase,
         output |-> Output(op),
         action |-> IF Waits(op) THEN "proposed" ELSE "completed",
         trail |-> <<Event("session.opened", c), Event("run.created", c), Event("output.normalized", c)>>,
         pipeline |-> None]

(* Seeded bug: a resumed session keeps the pipeline it had. *)
ResumedSnapshot(c, op, old) ==
    IF old = NoSnapshot THEN DraftSnapshot(c, op)
    ELSE [DraftSnapshot(c, op) EXCEPT !.pipeline = old.pipeline]

(* What the session shows after the draft; nothing of the old run stays. *)
Recorded(c, op, old) == DraftSnapshot(c, op)

SessionOf(c) == IF request[c].session = None THEN c ELSE request[c].session

-----------------------------------------------------------------------------
(* The pipeline of a message. *)

Candidate(op) ==
    IF op = "proposal" THEN Leaf("Confirm", TRUE, "agent.propose", TRUE, None)
    ELSE Deliberation("SystemReview", "place", DefaultSteps, Emission, NoHandler)

AgentManifest ==
    [substrate |-> "local", primitives |-> PrimitiveName \ {"Decide"}, kinds |-> {}, evidence |-> TRUE]
AgentContext == [class |-> "C", permitted |-> TRUE, boundary |-> TRUE, closure |-> TRUE]

Pipelines(op) == UNION {Plans(nodes, {AgentManifest}, AgentContext) : nodes \in Compile(Candidate(op))}

(* The scripted dispatcher succeeds at every node, and no contract that    *)
(* the planner infers stops the executor.                                  *)
Evidence(plan, c) ==
    <<Event("message.received", c), Event("candidate.classified", c), Event("pipeline.admitted", c)>>
    \o [n \in DOMAIN plan |-> Event("node.dispatched", c)] \o <<Event("response.emitted", c)>>

-----------------------------------------------------------------------------
(* Updates of a snapshot. *)

MaxEvents == 8

(* Seeded bug: events are appended, and the trail is cut at the same end. *)
PushAtEnd(trail, event) ==
    LET longer == Append(trail, event)
    IN  IF Len(longer) > MaxEvents THEN SubSeq(longer, 1, MaxEvents) ELSE longer

PushAuditEvent(trail, event) ==
    LET longer == <<event>> \o trail
    IN  IF Len(longer) > MaxEvents THEN SubSeq(longer, 1, MaxEvents) ELSE longer

(* Seeded bug: every class is taken. *)
AnyOutputClass(class) == TRUE
ValidateOutputClass(class) == class \in OutputClass

(* Seeded bug: a run is looked for where it was opened. *)
LocatedByOpening(req) ==
    LET s == IF req.session # None THEN req.session
             ELSE IF req.run \in Call THEN SessionOf(req.run) ELSE None
    IN  {s} \cap {t \in SessionId : sessions[t] # NoSnapshot}

(* The session a request is about, or none: a session id goes before a run *)
(* id, and a run is found only while it is the latest of its session.      *)
Located(req) ==
    {s \in SessionId : /\ sessions[s] # NoSnapshot
                       /\ IF req.session # None THEN s = req.session ELSE sessions[s].run = req.run}

(* Seeded bug: an artifact closes the whole run. *)
WithArtifactClosing(snap) == [snap EXCEPT !.checkpoint = "completed", !.status = "completed"]

(* An artifact closes the checkpoint only. *)
WithArtifact(snap) == [snap EXCEPT !.checkpoint = "completed"]

WithSummary(snap) == [snap EXCEPT !.checkpoint = "completed"]

WithOutput(snap, class) ==
    [snap EXCEPT !.output = class, !.status = "completed", !.phase = "completed",
                 !.checkpoint = "completed", !.action = "completed"]

WithResult(snap, class) == [snap EXCEPT !.output = class]

Changed(req, snap) ==
    CASE req.op = "create_artifact" -> WithArtifact(snap)
      [] req.op = "summary" -> WithSummary(snap)
      [] req.op = "output" -> WithOutput(snap, req.class)
      [] req.op = "result" -> WithResult(snap, req.class)
      [] req.op = "note" -> snap

Updated(c, req, snap) ==
    [Changed(req, snap) EXCEPT !.trail = PushAuditEvent(@, Event(req.op, c))]

-----------------------------------------------------------------------------
SessionsInit ==
    /\ pc = [c \in Call |-> "idle"]
    /\ request = [c \in Call |-> NoRequest]
    /\ sessions = [s \in SessionId |-> NoSnapshot]
    /\ updates = [c \in Call |-> <<>>]
    /\ racing = [s \in SessionId |-> {}]

(* submit_message and the three governed submissions: the draft replaces   *)
(* whatever the session showed.                                            *)
RecordDraft(c, op, session) ==
    /\ pc[c] = "idle"
    /\ request' = [request EXCEPT ![c] = Request(op, session, None, None)]
    /\ pc' = [pc EXCEPT ![c] = IF op \in Message THEN "pipeline" ELSE "answered"]
    /\ LET s == IF session = None THEN c ELSE session
       IN  /\ sessions' = [sessions EXCEPT ![s] = Recorded(c, op, @)]
           /\ racing' = [racing EXCEPT ![s] = {d \in Call : pc[d] = "pipeline" /\ SessionOf(d) = s}]
    /\ UNCHANGED updates

(* The ids a client can know: its own and those of earlier calls. *)
Begun == {c \in Call : pc[c] # "idle"}
SessionGiven == Session \cup Begun \cup {None}

SubmitMessage(c) == \E op \in Message, s \in SessionGiven : RecordDraft(c, op, s)
SubmitGoverned(c) == \E op \in Governed, s \in SessionGiven : RecordDraft(c, op, s)

(* The pipeline of a message is attached to its session, whatever run that *)
(* session shows by now; a candidate that has no plan is an error.         *)
AttachRuntimePipeline(c) ==
    /\ pc[c] = "pipeline"
    /\ LET plans == Pipelines(request[c].op)
       IN  IF plans = {}
           THEN pc' = [pc EXCEPT ![c] = "refused"] /\ UNCHANGED sessions
           ELSE /\ pc' = [pc EXCEPT ![c] = "answered"]
                /\ \E plan \in plans :
                      sessions' = [sessions EXCEPT ![SessionOf(c)].trail = @ \o Evidence(plan, c),
                                                   ![SessionOf(c)].pipeline = c]
    /\ UNCHANGED <<request, updates, racing>>

Update(c, req) ==
    /\ pc[c] = "idle"
    /\ \E s \in Located(req) :
          /\ sessions' = [sessions EXCEPT ![s] = Updated(c, req, @)]
          /\ updates' = [updates EXCEPT ![sessions[s].run] = Append(@, c)]
    /\ request' = [request EXCEPT ![c] = req]
    /\ pc' = [pc EXCEPT ![c] = "answered"]
    /\ UNCHANGED racing

OfSessionOrRun(op) ==
    {Request(op, s, r, None) : s \in SessionGiven, r \in Begun \cup {None}}
OfRun(op, classes) == {Request(op, None, r, class) : r \in Begun, class \in classes}
Attachments ==
    OfSessionOrRun("create_artifact") \cup OfSessionOrRun("note") \cup OfRun("summary", {None})
    \cup OfRun("output", Class)
    \cup OfRun("result", Class)

CreateArtifact(c) == \E req \in OfSessionOrRun("create_artifact") : Update(c, req)
AttachSummary(c) == \E req \in OfRun("summary", {None}) : Update(c, req)
AttachRunOutput(c) ==
    \E req \in OfRun("output", Class) :
        ValidateOutputClass(req.class) /\ Update(c, req)
StoreExternalResult(c) ==
    \E req \in OfRun("result", Class) :
        ValidateOutputClass(req.class) /\ Update(c, req)
AppendEvidenceNote(c) == \E req \in OfSessionOrRun("note") : Update(c, req)

(* An unknown session or run, or an unsupported class. *)
Refuse(c) ==
    /\ pc[c] = "idle"
    /\ \E req \in Attachments :
          /\ Located(req) = {} \/ (req.op \in {"output", "result"} /\ ~ValidateOutputClass(req.class))
          /\ request' = [request EXCEPT ![c] = req]
    /\ pc' = [pc EXCEPT ![c] = "refused"]
    /\ UNCHANGED <<sessions, updates, racing>>

Handle(c) ==
    \/ SubmitMessage(c) \/ SubmitGoverned(c) \/ AttachRuntimePipeline(c)
    \/ CreateArtifact(c) \/ AttachSummary(c) \/ AttachRunOutput(c)
    \/ StoreExternalResult(c) \/ AppendEvidenceNote(c) \/ Refuse(c)

SessionsNext == \E c \in Call : Handle(c)

SessionsSpec == SessionsInit /\ [][SessionsNext]_sessionVars

-----------------------------------------------------------------------------
Shown == {s \in SessionId : sessions[s] # NoSnapshot}

EventKind == Attachment \cup
    {"session.opened", "run.created", "output.normalized", "message.received",
     "candidate.classified", "pipeline.admitted", "node.dispatched", "response.emitted"}
AuditEvent == [kind : EventKind, by : Call]
Snapshot ==
    [run : Call, status : {"waiting", "completed"}, phase : {"awaiting_input", "completed"},
     checkpoint : {"awaiting_input", "completed"}, output : OutputClass,
     action : {"proposed", "completed"}, trail : Seq(AuditEvent), pipeline : Call \cup {None}]

SessionsTypeOK ==
    /\ pc \in [Call -> {"idle", "pipeline", "answered", "refused"}]
    /\ request \in [Call -> {NoRequest} \cup
          [op : Message \cup Governed \cup Attachment, session : SessionId \cup {None},
           run : Call \cup {None}, class : Class \cup {None}]]
    /\ sessions \in [SessionId -> Snapshot \cup {NoSnapshot}]
    /\ updates \in [Call -> Seq(Call)]
    /\ racing \in [SessionId -> SUBSET Call]

(* What a client attached to a run by its id is seen on that run alone,    *)
(* however often its session was resumed before or after.                  *)
AttachmentsFollowTheirRun ==
    \A s \in Shown : \A i \in DOMAIN sessions[s].trail :
        LET event == sessions[s].trail[i]
        IN  (event.kind \in Attachment /\ request[event.by].session = None)
                => request[event.by].run = sessions[s].run

OutputAttached(run) == \E i \in DOMAIN updates[run] : request[updates[run][i]].op = "output"

(* A draft that waits for a confirmation is left waiting by everything but *)
(* an output attached to its run, and status, phase and action agree.      *)
WaitingEndsByOutput ==
    \A s \in Shown :
        LET snap == sessions[s]
        IN  /\ snap.status = "waiting" <=> (Waits(request[snap.run].op) /\ ~OutputAttached(snap.run))
            /\ snap.status = "waiting" <=> snap.phase = "awaiting_input"
            /\ snap.status = "waiting" <=> snap.action = "proposed"

(* The trail of a run that is not being answered shows its latest updates, *)
(* newest first, although drafts and pipelines append to it in the order   *)
(* of time and nothing but an update cuts it.                              *)
TrailShowsLatestUpdates ==
    \A s \in Shown :
        LET mine == updates[sessions[s].run]
        IN  \A i \in 1..Len(mine) :
                i <= MaxEvents => sessions[s].trail[i].by = mine[Len(mine) + 1 - i]

(* A session never shows the pipeline of a message that was over when its  *)
(* run was recorded.  It may show that of one that raced with it; and no  *)
(* message bypasses the plan: once answered its run does not show without *)
(* a pipeline, and a refused call leaves no draft.                        *)
PipelineIsOwnOrRacing ==
    \A s \in Shown :
        LET c == sessions[s].run
        IN  /\ sessions[s].pipeline \in {None, c} \cup racing[s]
            /\ pc[c] # "refused"
            /\ (pc[c] = "answered" /\ request[c].op \in Message) => sessions[s].pipeline # None
=============================================================================

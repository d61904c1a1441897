------------------------------- MODULE RunRecord -------------------------------
(***************************************************************************)
(* What the events of one batch of tool calls leave behind: the references *)
(* in the durable record of the run (app._record_agent_run_reference over  *)
(* agent_runs.SQLiteAgentRunStore) and the list the desktop shows          *)
(* (tool_activity.ToolActivityStore), both fed by events.EventBus.         *)
(*                                                                         *)
(* A publisher waits for the handlers of its event, so the events of one   *)
(* call are handled one after the other.  The calls of a parallel batch    *)
(* publish at the same time, and a handler reads the record in one await   *)
(* and writes it in a later one.                                           *)
(***************************************************************************)
EXTENDS Naturals, Sequences, FiniteSets

CONSTANTS
    Calls,     \* the tool calls of the batch
    Batch,     \* their order in the model's answer
    Id,        \* the provider's id of each call
    Asked,     \* the calls the user is asked about
    Modes,     \* of {"sequential", "parallel"}: how the batch may be executed
    NoRequest, \* a reference without a request id
    Limit,     \* ToolActivityStore's limit
    MaxEdits,  \* bound: updates of the record by a client
    MaxStarts  \* bound: starts of other runs

ASSUME RecordAssumption ==
    /\ IsFiniteSet(Calls) /\ NoRequest \notin Calls
    /\ Batch \in [1..Cardinality(Calls) -> Calls]
    /\ \A c \in Calls : \E k \in DOMAIN Batch : Batch[k] = c
    /\ DOMAIN Id = Calls
    /\ \A c, d \in Calls : Id[c] = Id[d] => c = d \* or the loop raises
    /\ \A c \in Calls : Id[c] # NoRequest         \* a provider names a call that has no id
    /\ Asked \subseteq Calls
    /\ Modes \subseteq {"sequential", "parallel"}
    /\ Limit \in Nat \ {0} /\ MaxEdits \in Nat /\ MaxStarts \in Nat

VARIABLES
    mode,     \* how this batch is executed
    phase,    \* where the run's task is
    topic,    \* the last event published for each call
    todo,     \* the handlers of that event that have not finished
    held,     \* the record as its handler has read it
    surviving,\* the calls a cancellation met inside their tool
    record,   \* the durable record
    late,     \* rows a worker thread still writes for a cancelled handler
    items,    \* the tool activity list, newest first
    seen,     \* history: the last event of each call the list has taken in
    edits,    \* how often clients have written each field
    starts    \* starts of other runs

bus == <<topic, todo, held, surviving>>
activity == <<items, seen>>
vars == <<mode, phase, bus, record, late, activity, edits, starts>>

---------------------------------------------------------------------------
(* Vocabulary *)

Phases == {"requesting", "executing", "completing", "cancelling", "ended", "aborted"}

\* The events of a call in the order the executor and the loop publish them;
\* approval.responded is "approved" or "denied" by the answer it carries.
Topics == {"none", "requested", "pending", "approved", "denied",
           "started", "finished", "completed"}

Follows(t) ==
    CASE t = "none"      -> {"requested"}
      [] t = "requested" -> {"pending", "started", "finished"}
      [] t = "pending"   -> {"approved", "denied"}
      [] t = "approved"  -> {"started"}
      [] t = "denied"    -> {"finished"}
      [] t = "started"   -> {"finished"}
      [] t = "finished"  -> {"completed"}
      [] OTHER           -> {}

HasReferenceSlip(t) == t # "none"

\* Only tool.started leaves no reference.
HasReference(t) == t \notin {"none", "started"}
OfApproval(t) == t \in {"pending", "approved", "denied"}

Handlers(t) == IF HasReference(t) THEN {"activity", "get"} ELSE {"activity"}

Quiet(c) == todo[c] = {}
Published(c, t) == topic[c] = t /\ Quiet(c)
InTool(c) == Published(c, "started")
Before(c) == {d \in Calls : \E j, k \in DOMAIN Batch : j < k /\ Batch[j] = d /\ Batch[k] = c}

\* A reference: the ids it can be found by, how far the call has come, and
\* whether the result of tool.finished is in it.
Reference == [req: Calls \cup {NoRequest}, id: {Id[c] : c \in Calls} \cup Calls,
              stage: Topics \ {"none", "started"}, result: BOOLEAN]

\* What clients write: the last checklist and the last verification.
Edits == {"checklist", "verification"}
NoEdit == [e \in Edits |-> 0]

Outcomes == {"completed", "failed", "cancelled"}

Record == [status: {"running", "waiting_approval", "verifying"} \cup Outcomes,
           tools: Seq(Reference), approvals: Seq(Reference), edit: [Edits -> Nat]]

Item == [req: Calls \cup {NoRequest}, id: {Id[c] : c \in Calls} \cup {NoRequest},
         status: Topics]

---------------------------------------------------------------------------
(* References *)

ToolReference(c, t) ==
    [req |-> IF t = "completed" THEN NoRequest ELSE c, id |-> Id[c],
     stage |-> t, result |-> t = "finished"]

\* Each approval has an id of its own; one per call, so the call stands for it.
ApprovalReference(c, t) == [req |-> c, id |-> c, stage |-> t, result |-> FALSE]

MatchesSlip(item, ref) == ref.req # NoRequest /\ item.req = ref.req

Matches(item, ref) ==
    \/ ref.req # NoRequest /\ item.req = ref.req
    \/ item.id = ref.id

MergedSlip(item, ref) ==
    [ref EXCEPT !.req = IF ref.req = NoRequest THEN item.req ELSE ref.req]

\* Keys the event does not carry keep the item's value.
Merged(item, ref) ==
    [ref EXCEPT !.req = IF ref.req = NoRequest THEN item.req ELSE ref.req,
                !.result = item.result \/ ref.result]

UpsertSlip(refs, ref) ==
    [k \in DOMAIN refs |-> IF Matches(refs[k], ref) THEN Merged(refs[k], ref) ELSE refs[k]]

Upsert(refs, ref) ==
    IF \E k \in DOMAIN refs : Matches(refs[k], ref)
    THEN [k \in DOMAIN refs |-> IF Matches(refs[k], ref) THEN Merged(refs[k], ref) ELSE refs[k]]
    ELSE Append(refs, ref)

StaleRowSlip(row, old, c) ==
    IF OfApproval(topic[c])
    THEN [old EXCEPT !.approvals = Upsert(old.approvals, ApprovalReference(c, topic[c]))]
    ELSE [old EXCEPT !.tools = Upsert(old.tools, ToolReference(c, topic[c]))]

\* update() reads the row and writes it back under the store's lock: what the
\* handler does not pass keeps the row's value, and the references it does
\* pass come from the row it had read before.
Update(row, old, c) ==
    IF OfApproval(topic[c])
    THEN [row EXCEPT !.approvals = Upsert(old.approvals, ApprovalReference(c, topic[c])),
                     !.status = IF topic[c] = "pending" THEN "waiting_approval" ELSE @]
    ELSE [row EXCEPT !.tools = Upsert(old.tools, ToolReference(c, topic[c]))]

Fresh == [status |-> "running", tools |-> <<>>, approvals |-> <<>>, edit |-> NoEdit]

---------------------------------------------------------------------------
(* The activity list *)

Names(item, req, id) ==
    \/ req # NoRequest /\ item.req = req
    \/ id # NoRequest /\ item.id = id

\* The items that are about something else, in their order: of the first n, for each n.
Others(list, item) ==
    LET others[n \in 0..Len(list)] ==
          IF n = 0 THEN <<>>
          ELSE IF Names(list[n], item.req, item.id) THEN others[n - 1]
          ELSE Append(others[n - 1], list[n])
    IN others

Front(list, item) ==
    LET rest == Others(list, item)[Len(list)]
    IN SubSeq(<<item>> \o rest, 1, IF Len(rest) < Limit THEN Len(rest) + 1 ELSE Limit)

\* The ids an event carries: conversation.tool.completed has no request id,
\* and the approval events are not looked up by the call's id.
RequestOf(c, t) == IF t = "completed" THEN NoRequest ELSE c
CallOf(c, t) == IF OfApproval(t) THEN NoRequest ELSE Id[c]

\* The list with an item the event is about, and that item's place: the first that matches.
FindOrCreate(list, c, t) ==
    IF \E k \in DOMAIN list : Names(list[k], RequestOf(c, t), CallOf(c, t))
    THEN list
    ELSE Front(list, [req |-> RequestOf(c, t), id |-> CallOf(c, t), status |-> "requested"])

PlaceSlip(list, c, t) == 1

Place(list, c, t) ==
    CHOOSE k \in DOMAIN list :
        /\ Names(list[k], RequestOf(c, t), CallOf(c, t))
        /\ \A j \in 1..(k - 1) : ~Names(list[j], RequestOf(c, t), CallOf(c, t))

Applied(list, c, t) ==
    IF t = "requested"
    THEN Front(list, [req |-> c, id |-> Id[c], status |-> t])
    ELSE LET found == FindOrCreate(list, c, t)
             k == Place(found, c, t)
         IN [found EXCEPT ![k] =
                [req |-> IF t = "completed" THEN found[k].req ELSE c,
                 id |-> IF OfApproval(t) THEN found[k].id ELSE Id[c],
                 status |-> t]]

---------------------------------------------------------------------------
Init ==
    /\ mode \in Modes
    /\ phase = "requesting"
    /\ topic = [c \in Calls |-> "none"]
    /\ todo = [c \in Calls |-> {}]
    /\ held = [c \in Calls |-> Fresh]
    /\ surviving = {}
    /\ record = Fresh
    /\ late = {}
    /\ items = <<>>
    /\ seen = [c \in Calls |-> "none"]
    /\ edits = NoEdit
    /\ starts = 0

---------------------------------------------------------------------------
(* The run's task and the calls of its batch *)

MayFollow(c, t) ==
    /\ t \in Follows(topic[c])
    /\ t = "pending" => c \in Asked
    /\ topic[c] = "requested" /\ t = "started" => c \notin Asked

Turn(c, t) ==
    CASE t = "requested" -> phase = "requesting" /\ \A d \in Before(c) : Published(d, "requested")
      [] t = "completed" -> phase = "completing" /\ \A d \in Before(c) : Published(d, "completed")
      [] OTHER ->
            \/ /\ phase = "executing"
               /\ mode = "sequential" => \A d \in Before(c) : Published(d, "finished")
            \/ phase = "cancelling" /\ c \in surviving /\ t = "finished"

Publish(c, t) ==
    /\ Quiet(c) /\ MayFollow(c, t) /\ Turn(c, t)
    /\ topic' = [topic EXCEPT ![c] = t]
    /\ todo' = [todo EXCEPT ![c] = Handlers(t)]
    /\ UNCHANGED <<mode, phase, held, surviving, record, late, activity, edits, starts>>

ExecuteBatch ==
    /\ phase = "requesting"
    /\ \A c \in Calls : Published(c, "requested")
    /\ phase' = "executing"
    /\ UNCHANGED <<mode, bus, record, late, activity, edits, starts>>

TakeResults ==
    /\ phase = "executing"
    /\ \A c \in Calls : Published(c, "finished")
    /\ phase' = "completing"
    /\ UNCHANGED <<mode, bus, record, late, activity, edits, starts>>

FinishSlip(s) ==
    /\ phase = "executing"
    /\ \A c \in Calls : Published(c, "finished")
    /\ phase' = "ended"
    /\ record' = [record EXCEPT !.status = s]
    /\ UNCHANGED <<mode, bus, late, activity, edits, starts>>

Finish(s) ==
    /\ phase = "completing"
    /\ \A c \in Calls : Published(c, "completed")
    /\ phase' = "ended"
    /\ record' = [record EXCEPT !.status = s]
    /\ UNCHANGED <<mode, bus, late, activity, edits, starts>>

\* A cancellation of the run's task, which waits for handlers or an answer: the
\* handlers are cancelled with it, but a row a worker thread is writing is
\* written.  A call inside its tool turns it into its result and goes on; one
\* that was still announcing its start does not.
Cancel ==
    /\ phase \in {"requesting", "executing", "completing"}
    /\ mode = "sequential" => \A c \in Calls : ~InTool(c)
    /\ phase' = "cancelling"
    /\ todo' = [c \in Calls |-> {}]
    /\ held' = [c \in Calls |-> Fresh]
    /\ surviving' = {c \in Calls : InTool(c)}
    /\ \/ late' = late
       \/ \E c \in Calls : "update" \in todo[c] /\ late' = {Update(record, held[c], c)}
    /\ UNCHANGED <<mode, topic, record, activity, edits, starts>>

Abort ==
    /\ phase = "cancelling"
    /\ \A c \in Calls : Quiet(c) /\ (c \in surviving => topic[c] # "started")
    /\ phase' = "aborted"
    /\ record' = [record EXCEPT !.status = "cancelled"]
    /\ UNCHANGED <<mode, bus, late, activity, edits, starts>>

Land(row) ==
    /\ row \in late
    /\ record' = row
    /\ late' = late \ {row}
    /\ UNCHANGED <<mode, phase, bus, activity, edits, starts>>

---------------------------------------------------------------------------
(* Handlers *)

RecordActivity(c) ==
    /\ "activity" \in todo[c]
    /\ items' = Applied(items, c, topic[c])
    /\ seen' = [seen EXCEPT ![c] = topic[c]]
    /\ todo' = [todo EXCEPT ![c] = @ \ {"activity"}]
    /\ UNCHANGED <<mode, phase, topic, held, surviving, record, late, edits, starts>>

GetRun(c) ==
    /\ "get" \in todo[c]
    /\ held' = [held EXCEPT ![c] = record]
    /\ todo' = [todo EXCEPT ![c] = (@ \ {"get"}) \cup {"update"}]
    /\ UNCHANGED <<mode, phase, topic, surviving, record, late, activity, edits, starts>>

UpdateReferences(c) ==
    /\ "update" \in todo[c]
    /\ record' = Update(record, held[c], c)
    /\ held' = [held EXCEPT ![c] = Fresh]
    /\ todo' = [todo EXCEPT ![c] = @ \ {"update"}]
    /\ UNCHANGED <<mode, phase, topic, surviving, late, activity, edits, starts>>

---------------------------------------------------------------------------
(* Clients and other runs *)

\* The n-th edit of a kind leaves n in its field.
Edited(row, e) == [row EXCEPT !.edit = [@ EXCEPT ![e] = edits[e] + 1]]

Edit(e) ==
    /\ edits["checklist"] + edits["verification"] < MaxEdits
    /\ edits' = [edits EXCEPT ![e] = @ + 1]
    /\ UNCHANGED <<mode, phase, bus, late, activity, starts>>

UpdateChecklist == Edit("checklist") /\ record' = Edited(record, "checklist")

UpdateVerification(running) ==
    /\ Edit("verification")
    /\ record' = [Edited(record, "verification")
                    EXCEPT !.status = IF running THEN "verifying" ELSE @]

\* conversation.run.started of any run empties the list.
OtherRunStarts ==
    /\ starts < MaxStarts
    /\ starts' = starts + 1
    /\ items' = <<>>
    /\ UNCHANGED <<mode, phase, bus, record, late, seen, edits>>

Next ==
    \/ \E c \in Calls, t \in Topics : Publish(c, t)
    \/ ExecuteBatch
    \/ TakeResults
    \/ \E s \in Outcomes : Finish(s)
    \/ Cancel
    \/ Abort
    \/ \E row \in late : Land(row)
    \/ \E c \in Calls : RecordActivity(c) \/ GetRun(c) \/ UpdateReferences(c)
    \/ UpdateChecklist
    \/ \E running \in BOOLEAN : UpdateVerification(running)
    \/ OtherRunStarts

Spec == Init /\ [][Next]_vars

---------------------------------------------------------------------------
(* Properties *)

TypeOK ==
    /\ mode \in Modes
    /\ phase \in Phases
    /\ topic \in [Calls -> Topics]
    /\ todo \in [Calls -> SUBSET {"activity", "get", "update"}]
    /\ held \in [Calls -> Record]
    /\ surviving \subseteq Calls
    /\ record \in Record
    /\ late \subseteq Record
    /\ items \in Seq(Item)
    /\ seen \in [Calls -> Topics]
    /\ edits \in [Edits -> 0..MaxEdits]
    /\ starts \in 0..MaxStarts

\* A call's tool reference has the stage of the last event that carries one.
Stage(t) == IF t \in {"finished", "completed"} THEN t ELSE "requested"
Rank(t) == CASE t = "requested" -> 1 [] t = "finished" -> 2 [] t = "completed" -> 3 [] OTHER -> 0

Answers(t) == CASE OfApproval(t) -> {t} [] t = "started" -> {"approved"}
                [] OTHER -> {"approved", "denied"}

Cancelled == phase \in {"cancelling", "aborted"}
RefersTo(ref, c) == ref.req = c \/ ref.id = Id[c]

\* Two entries never describe one call: every event of a call finds the entry
\* an earlier one left, by whichever id it carries
\* (app._upsert_reference, also when a stale list is written back).
OneReferencePerCall ==
    \A j, k \in DOMAIN record.tools : j # k =>
        /\ record.tools[j].id # record.tools[k].id
        /\ record.tools[j].req = record.tools[k].req => record.tools[j].req = NoRequest

\* In a sequential batch the record has caught up with every event whose
\* handlers have ended: the call's entry has its stage and, from tool.finished
\* on, its result, and an asked call has the answer it was given.
SequentialRecordIsComplete ==
    mode = "sequential" /\ ~Cancelled => \A c \in Calls :
        Quiet(c) /\ topic[c] # "none" =>
            /\ \E k \in DOMAIN record.tools : record.tools[k] =
                    [req |-> c, id |-> Id[c], stage |-> Stage(topic[c]),
                     result |-> topic[c] \in {"finished", "completed"}]
            /\ (c \in Asked /\ topic[c] = "started") \/ OfApproval(topic[c]) =>
                 \E k \in DOMAIN record.approvals : record.approvals[k].req = c
            /\ \A k \in DOMAIN record.approvals : record.approvals[k].req = c =>
                 record.approvals[k].stage \in Answers(topic[c])

\* When a run has ended in the loop's own way, its record has a completed
\* reference for each call: the results are taken in one by one, which repairs
\* the stages a parallel batch may have set back.
EndedRunIsReferenced ==
    phase = "ended" => \A c \in Calls : \E k \in DOMAIN record.tools :
        record.tools[k].id = Id[c] /\ record.tools[k].stage = "completed"

\* What a client writes into the record stays there while handlers write
\* references: update() keeps what it is not passed.  Only the row of a
\* cancelled handler may take it back.
EditsAreKept == ~Cancelled => record.edit = edits

\* The list shows the last event of each call that is on it, has each call
\* once, and drops calls only at its limit or for another run's start.
ActivityIsFaithful ==
    /\ Len(items) <= Limit
    /\ \A j, k \in DOMAIN items : j # k =>
          \/ items[j].id # items[k].id
          \/ items[j].id = NoRequest /\ items[j].req # items[k].req
    /\ \A k \in DOMAIN items, c \in Calls :
          RefersTo(items[k], c) => items[k].status = seen[c]
    /\ LET known == {c \in Calls : seen[c] # "none"} IN
       starts = 0 /\ Cardinality(known) <= Limit =>
          \A c \in known : \E k \in DOMAIN items : RefersTo(items[k], c)

\* In a sequential batch no reference is lost or set back, whatever is
\* cancelled: a row that lands late was the last one its run wrote.
StageAdvances ==
    \A k \in DOMAIN record.tools : \E j \in DOMAIN record'.tools :
        /\ record'.tools[j].id = record.tools[k].id
        /\ Rank(record'.tools[j].stage) >= Rank(record.tools[k].stage)
        /\ record.tools[k].result => record'.tools[j].result

StagesOnlyAdvance == [][mode = "sequential" => StageAdvances]_vars
=============================================================================

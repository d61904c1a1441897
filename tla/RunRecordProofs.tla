---------------------------- MODULE RunRecordProofs ----------------------------
(***************************************************************************)
(* Proofs about RunRecord, for any calls, any order of them, any ids and   *)
(* any number of edits: what the durable record has of a batch, whatever   *)
(* the handlers of its events read before they write.                      *)
(***************************************************************************)
EXTENDS RunRecord, Induction, SequenceTheorems, FiniteSetTheorems, TLAPS

---------------------------------------------------------------------------
(* References and lists of references *)

ToolTopics == {"requested", "finished", "completed"}

\* Events with a reference are about an approval or about a tool.
LEMMA TopicKinds ==
    \A t \in Topics : HasReference(t) /\ ~OfApproval(t) <=> t \in ToolTopics
BY DEF Topics, HasReference, OfApproval, ToolTopics

\* What events carry are references.
LEMMA ReferenceTypes ==
    ASSUME NEW c \in Calls
    PROVE  /\ \A t \in ToolTopics : ToolReference(c, t) \in Reference
           /\ \A t \in {"pending", "approved", "denied"} : ApprovalReference(c, t) \in Reference
<1>1. c \in Calls \cup {NoRequest} /\ NoRequest \in Calls \cup {NoRequest}
  OBVIOUS
<1>2. Id[c] \in {Id[d] : d \in Calls} \cup Calls /\ c \in {Id[d] : d \in Calls} \cup Calls
  OBVIOUS
<1>3. ASSUME NEW t \in ToolTopics PROVE ToolReference(c, t) \in Reference
  <2>1. t \in Topics \ {"none", "started"} /\ (t = "finished") \in BOOLEAN
    BY DEF ToolTopics, Topics
  <2>2. QED
    BY <1>1, <1>2, <2>1 DEF ToolReference, Reference
<1>4. ASSUME NEW t \in {"pending", "approved", "denied"}
      PROVE  ApprovalReference(c, t) \in Reference
  <2>1. t \in Topics \ {"none", "started"}
    BY DEF Topics
  <2>2. QED
    BY <1>1, <1>2, <2>1 DEF ApprovalReference, Reference
<1>5. QED
  BY <1>3, <1>4

\* _upsert_reference: entries that match take the reference in, the others stay;
\* where none matches the reference is added at the end.
LEMMA Upserted ==
    ASSUME NEW L \in Seq(Reference), NEW ref \in Reference, NEW N, N = Upsert(L, ref)
    PROVE  /\ N \in Seq(Reference) /\ Len(N) \in {Len(L), Len(L) + 1} /\ Len(L) \in Nat
           /\ \A k \in 1..Len(L) :
                N[k] = IF Matches(L[k], ref) THEN Merged(L[k], ref) ELSE L[k]
           /\ Len(N) = Len(L) => \E k \in 1..Len(L) : Matches(L[k], ref)
           /\ Len(N) = Len(L) + 1 =>
                N[Len(L) + 1] = ref /\ \A k \in 1..Len(L) : ~Matches(L[k], ref)
<1>1. DOMAIN L = 1..Len(L) /\ Len(L) \in Nat /\ \A k \in 1..Len(L) : L[k] \in Reference
  BY LenProperties, ElementOfSeq
<1>2. \A item \in Reference : Merged(item, ref) \in Reference
  <2>1. TAKE item \in Reference
  <2>2. /\ item.req \in Calls \cup {NoRequest} /\ ref.req \in Calls \cup {NoRequest}
        /\ item.result \in BOOLEAN /\ ref.result \in BOOLEAN
    BY DEF Reference
  <2>3. (item.result \/ ref.result) \in BOOLEAN
    BY <2>2
  <2>4. QED
    BY <2>2, <2>3 DEF Merged, Reference
<1>3. CASE \E k \in 1..Len(L) : Matches(L[k], ref)
  <2>1. N = [k \in 1..Len(L) |->
                IF Matches(L[k], ref) THEN Merged(L[k], ref) ELSE L[k]]
    BY <1>1, <1>3 DEF Upsert
  <2>2. N \in [1..Len(L) -> Reference]
    BY <1>1, <1>2, <2>1
  <2>3. \A k \in 1..Len(L) : N[k] = IF Matches(L[k], ref) THEN Merged(L[k], ref) ELSE L[k]
    BY <2>1
  <2>4. N \in Seq(Reference) /\ Len(N) = Len(L)
    BY <1>1, <2>2
  <2>5. QED
    <3>1. Len(N) # Len(L) + 1
      <4>1. Len(L) \in Nat /\ Len(N) = Len(L)
        BY <1>1, <2>4
      <4>2. QED
        BY <4>1
    <3>2. QED
      BY <1>1, <1>3, <2>3, <2>4, <3>1
<1>4. CASE \A k \in 1..Len(L) : ~Matches(L[k], ref)
  <2>1. N = Append(L, ref)
    BY <1>1, <1>4 DEF Upsert
  <2>2. /\ N \in Seq(Reference) /\ Len(N) = Len(L) + 1
        /\ N[Len(L) + 1] = ref
        /\ \A k \in 1..Len(L) : N[k] = L[k]
    BY <1>1, <2>1
  <2>3. QED
    <3>1. Len(N) # Len(L)
      <4>1. Len(L) \in Nat /\ Len(N) = Len(L) + 1
        BY <1>1, <2>2
      <4>2. QED
        BY <4>1
    <3>2. \A k \in 1..Len(L) :
            N[k] = IF Matches(L[k], ref) THEN Merged(L[k], ref) ELSE L[k]
      BY <1>4, <2>2
    <3>3. QED
      BY <1>1, <1>4, <2>2, <3>1, <3>2
<1>5. QED
  BY <1>3, <1>4

\* Lists of tool references: each entry is one call's, and each call has one.
ToolList(L) ==
    /\ L \in Seq(Reference)
    /\ \A k \in 1..Len(L) : \E c \in Calls : L[k].id = Id[c] /\ L[k].req \in {c, NoRequest}
    /\ \A j, k \in 1..Len(L) : L[j].id = L[k].id => j = k

\* What a tool event does to the list it is merged into.
LEMMA ToolUpserted ==
    ASSUME RecordAssumption, NEW L, ToolList(L), NEW c \in Calls, NEW t \in ToolTopics,
           NEW N, N = Upsert(L, ToolReference(c, t))
    PROVE  /\ ToolList(N) /\ Len(L) \in Nat /\ Len(N) \in {Len(L), Len(L) + 1}
           /\ \A k \in 1..Len(L) : L[k].id # Id[c] => N[k] = L[k]
           /\ \A k \in 1..Len(L) : L[k].id = Id[c] =>
                N[k] = [req |-> IF t = "completed" THEN L[k].req ELSE c, id |-> Id[c],
                        stage |-> t, result |-> L[k].result \/ t = "finished"]
           /\ Len(N) = Len(L) => \E k \in 1..Len(L) : L[k].id = Id[c]
           /\ Len(N) = Len(L) + 1 =>
                N[Len(N)] = ToolReference(c, t) /\ \A k \in 1..Len(L) : L[k].id # Id[c]
<1> DEFINE ref == ToolReference(c, t)
<1>1. ref \in Reference /\ L \in Seq(Reference)
  BY ReferenceTypes DEF ToolList
<1>2. /\ ref.id = Id[c] /\ ref.stage = t /\ ref.result = (t = "finished")
      /\ ref.req = IF t = "completed" THEN NoRequest ELSE c
  BY DEF ToolReference
<1>3. c # NoRequest
  BY DEF RecordAssumption
<1> HIDE DEF ref
<1>4. /\ N \in Seq(Reference) /\ Len(N) \in {Len(L), Len(L) + 1} /\ Len(L) \in Nat
      /\ \A k \in 1..Len(L) :
            N[k] = IF Matches(L[k], ref) THEN Merged(L[k], ref) ELSE L[k]
      /\ Len(N) = Len(L) => \E k \in 1..Len(L) : Matches(L[k], ref)
      /\ Len(N) = Len(L) + 1 =>
            N[Len(L) + 1] = ref /\ \A k \in 1..Len(L) : ~Matches(L[k], ref)
  <2>1. N = Upsert(L, ref)
    BY DEF ref
  <2>2. QED
    BY <1>1, <2>1, Upserted
<1>5. \A k \in 1..Len(L) : Matches(L[k], ref) <=> L[k].id = Id[c]
  <2>1. TAKE k \in 1..Len(L)
  <2>2. PICK d \in Calls : L[k].id = Id[d] /\ L[k].req \in {d, NoRequest}
    BY DEF ToolList
  <2>3. d # NoRequest
    BY DEF RecordAssumption
  <2>4. QED
    BY <1>2, <1>3, <2>2, <2>3 DEF Matches
<1>6. ASSUME NEW k \in 1..Len(L), L[k].id = Id[c]
      PROVE  /\ N[k] = [req |-> IF t = "completed" THEN L[k].req ELSE c, id |-> Id[c],
                        stage |-> t, result |-> L[k].result \/ t = "finished"]
             /\ N[k].id = Id[c] /\ N[k].req = IF t = "completed" THEN L[k].req ELSE c
  <2>1. N[k] = Merged(L[k], ref)
    BY <1>4, <1>5, <1>6
  <2>2. ref = [req |-> IF t = "completed" THEN NoRequest ELSE c, id |-> Id[c],
               stage |-> t, result |-> t = "finished"]
    BY DEF ref, ToolReference
  <2>3. QED
    BY <1>3, <2>1, <2>2 DEF Merged
<1>7. \A k \in 1..Len(L) : N[k].id = L[k].id /\ L[k].id # Id[c] => N[k] = L[k]
  BY <1>4, <1>5, <1>6
<1>8. \A k \in 1..Len(L) : N[k].id = L[k].id
  <2>1. TAKE k \in 1..Len(L)
  <2>2. CASE L[k].id = Id[c]
    BY <1>6, <2>2
  <2>3. CASE L[k].id # Id[c]
    BY <1>4, <1>5, <2>3
  <2>4. QED
    BY <2>2, <2>3
<1>9. \A k \in 1..Len(L) : L[k].id # Id[c] => N[k] = L[k]
  BY <1>4, <1>5
<1>10. Len(N) = Len(L) + 1 =>
         N[Len(N)] = ref /\ \A k \in 1..Len(L) : L[k].id # Id[c]
  BY <1>4, <1>5
<1>11. \A k \in 1..Len(N) : \E d \in Calls : N[k].id = Id[d] /\ N[k].req \in {d, NoRequest}
  <2>1. TAKE k \in 1..Len(N)
  <2>2. CASE k \in 1..Len(L) /\ L[k].id # Id[c]
    BY <1>9, <2>2 DEF ToolList
  <2>3. CASE k \in 1..Len(L) /\ L[k].id = Id[c]
    <3>1. PICK d \in Calls : L[k].id = Id[d] /\ L[k].req \in {d, NoRequest}
      BY <2>3 DEF ToolList
    <3>2. d = c
      BY <2>3, <3>1 DEF RecordAssumption
    <3>3. N[k].id = Id[c] /\ N[k].req \in {c, NoRequest}
      BY <1>6, <2>3, <3>1, <3>2
    <3>4. QED
      BY <3>3
  <2>4. CASE k \notin 1..Len(L)
    <3>1. k = Len(L) + 1 /\ Len(N) = Len(L) + 1
      BY <1>4, <2>4
    <3>2. N[k].id = Id[c] /\ N[k].req \in {c, NoRequest}
      BY <1>2, <1>4, <3>1
    <3>3. QED
      BY <3>2
  <2>5. QED
    BY <2>2, <2>3, <2>4
<1>12. \A j, k \in 1..Len(N) : N[j].id = N[k].id => j = k
  <2>1. SUFFICES ASSUME NEW j \in 1..Len(N), NEW k \in 1..Len(N), N[j].id = N[k].id
                 PROVE  j = k
    OBVIOUS
  <2>2. CASE Len(N) = Len(L)
    <3>1. j \in 1..Len(L) /\ k \in 1..Len(L)
      BY <2>2
    <3>2. L[j].id = L[k].id
      BY <1>8, <2>1, <3>1
    <3>3. QED
      BY <3>1, <3>2 DEF ToolList
  <2>3. CASE Len(N) = Len(L) + 1
    <3>1. \A i \in 1..Len(N) : i \in 1..Len(L) \/ i = Len(N)
      BY <1>4, <2>3
    <3>2. N[Len(N)].id = Id[c]
      BY <1>2, <1>10, <2>3
    <3>3. \A i \in 1..Len(L) : N[i].id = L[i].id /\ N[i].id # Id[c]
      BY <1>8, <1>10, <2>3
    <3>4. QED
      BY <2>1, <3>1, <3>2, <3>3 DEF ToolList
  <2>4. QED
    BY <1>4, <2>2, <2>3
<1>13. ToolList(N)
  BY <1>4, <1>11, <1>12 DEF ToolList
<1>14. QED
  BY <1>4, <1>5, <1>6, <1>9, <1>10, <1>13 DEF ref

---------------------------------------------------------------------------
(* Rows: the record, what handlers hold of it, what may still be written    *)

Row(r) == r \in Record /\ ToolList(r.tools)

RecordTypes ==
    /\ mode \in Modes /\ phase \in Phases /\ topic \in [Calls -> Topics]
    /\ todo \in [Calls -> SUBSET {"activity", "get", "update"}]
    /\ DOMAIN held = Calls /\ edits \in [Edits -> Nat]

Rows ==
    /\ RecordTypes
    /\ Row(record) /\ (\A c \in Calls : Row(held[c])) /\ \A row \in late : Row(row)
    /\ \A c \in Calls : "get" \in todo[c] \/ "update" \in todo[c] => HasReference(topic[c])

\* The fields of a record have their types.
LEMMA RecordFields ==
    \A r \in Record : /\ r.status \in {"running", "waiting_approval", "verifying"} \cup Outcomes
                      /\ r.tools \in Seq(Reference) /\ r.approvals \in Seq(Reference)
                      /\ r.edit \in [Edits -> Nat]
                      /\ r = [status |-> r.status, tools |-> r.tools,
                              approvals |-> r.approvals, edit |-> r.edit]
BY DEF Record

\* The record a run begins with is a good row.
LEMMA FreshRow == Row(Fresh)
<1>1. <<>> \in Seq(Reference) /\ Len(<<>>) = 0
  OBVIOUS
<1>2. NoEdit \in [Edits -> Nat]
  BY DEF NoEdit
<1>3. Fresh \in Record
  BY <1>1, <1>2 DEF Fresh, Record
<1>4. Fresh.tools = <<>>
  BY DEF Fresh
<1>5. QED
  BY <1>1, <1>3, <1>4 DEF Row, ToolList

\* update(): the references come from the row that was read, the rest from the row there is.
LEMMA Updated ==
    ASSUME RecordAssumption, NEW row, Row(row), NEW old, Row(old), NEW c \in Calls,
           topic[c] \in Topics, HasReference(topic[c]), NEW new, new = Update(row, old, c)
    PROVE  /\ Row(new) /\ new.edit = row.edit
           /\ OfApproval(topic[c]) =>
                /\ new.tools = row.tools
                /\ new.approvals = Upsert(old.approvals, ApprovalReference(c, topic[c]))
           /\ ~OfApproval(topic[c]) =>
                /\ topic[c] \in ToolTopics
                /\ new.tools = Upsert(old.tools, ToolReference(c, topic[c]))
                /\ new.approvals = row.approvals
<1>1. row \in Record /\ old \in Record /\ ToolList(row.tools) /\ ToolList(old.tools)
  BY DEF Row
<1>2. CASE OfApproval(topic[c])
  <2> DEFINE refs == Upsert(old.approvals, ApprovalReference(c, topic[c]))
  <2>1. new = [row EXCEPT !.approvals = refs,
                          !.status = IF topic[c] = "pending" THEN "waiting_approval" ELSE @]
    BY <1>2 DEF Update
  <2>2. refs \in Seq(Reference)
    <3>1. ApprovalReference(c, topic[c]) \in Reference
      BY <1>2, ReferenceTypes DEF OfApproval
    <3>2. old.approvals \in Seq(Reference)
      BY <1>1, RecordFields
    <3>3. QED
      BY <3>1, <3>2, Upserted
  <2> HIDE DEF refs
  <2>3. /\ new.tools = row.tools /\ new.approvals = refs /\ new.edit = row.edit
        /\ new \in Record
    BY <1>1, <2>1, <2>2 DEF Record
  <2>4. QED
    BY <1>1, <1>2, <2>3 DEF Row, refs
<1>3. CASE ~OfApproval(topic[c])
  <2> DEFINE refs == Upsert(old.tools, ToolReference(c, topic[c]))
  <2>1. new = [row EXCEPT !.tools = refs]
    BY <1>3 DEF Update
  <2>2. topic[c] \in ToolTopics
    BY <1>3, TopicKinds
  <2>3. ToolList(refs)
    BY <1>1, <2>2, ToolUpserted
  <2>4. refs \in Seq(Reference)
    BY <2>3 DEF ToolList
  <2> HIDE DEF refs
  <2>5. /\ new.tools = refs /\ new.approvals = row.approvals /\ new.edit = row.edit
        /\ new \in Record
    BY <1>1, <2>1, <2>4 DEF Record
  <2>6. QED
    BY <1>3, <2>2, <2>3, <2>5 DEF Row, refs
<1>4. QED
  BY <1>2, <1>3

\* A row whose references stay and whose other fields are written.
LEMMA Rewritten ==
    ASSUME NEW r, Row(r), NEW new, new.tools = r.tools, new \in Record
    PROVE  Row(new)
BY DEF Row

\* What a client's edit makes of a row.
LEMMA EditedRow ==
    ASSUME NEW r, Row(r), NEW e \in Edits, NEW new, edits \in [Edits -> Nat],
           \/ new = Edited(r, e)
           \/ new = [Edited(r, e) EXCEPT !.status = "verifying"]
    PROVE  /\ Row(new) /\ new.tools = r.tools /\ new.approvals = r.approvals
           /\ new.edit = [r.edit EXCEPT ![e] = edits[e] + 1]
<1> DEFINE field == [r.edit EXCEPT ![e] = edits[e] + 1]
<1>1. r \in Record /\ ToolList(r.tools)
  BY DEF Row
<1>2. field \in [Edits -> Nat]
  BY <1>1, RecordFields
<1>3. Edited(r, e) = [r EXCEPT !.edit = field]
  BY DEF Edited
<1> HIDE DEF field
<1>4. new = [r EXCEPT !.edit = field] \/ new = [r EXCEPT !.edit = field, !.status = "verifying"]
  BY <1>1, <1>3 DEF Record
<1>5. /\ new \in Record /\ new.tools = r.tools /\ new.approvals = r.approvals
      /\ new.edit = field
  BY <1>1, <1>2, <1>4 DEF Record
<1>6. QED
  BY <1>1, <1>5 DEF Row, field

\* Every row is good at first.
LEMMA RowsInit == RecordAssumption /\ Init => Rows
<1> SUFFICES ASSUME RecordAssumption, Init PROVE Rows
  OBVIOUS
<1>1. RecordTypes
  BY DEF Init, RecordTypes, Phases, Topics, NoEdit
<1>2. record = Fresh /\ late = {} /\ \A c \in Calls : held[c] = Fresh /\ todo[c] = {}
  BY DEF Init
<1>3. QED
  BY <1>1, <1>2, FreshRow DEF Rows

\* What clients write changes nothing else of the record than their field and its status.
LEMMA ClientEdit ==
    ASSUME Rows, UpdateChecklist \/ \E running \in BOOLEAN : UpdateVerification(running)
    PROVE  \E e \in Edits : /\ Edit(e) /\ Row(record')
                            /\ record'.tools = record.tools
                            /\ record'.approvals = record.approvals
                            /\ record'.edit = [record.edit EXCEPT ![e] = edits[e] + 1]
<1>1. "checklist" \in Edits /\ "verification" \in Edits
  BY DEF Edits
<1>2. Row(record) /\ edits \in [Edits -> Nat]
  BY DEF Rows, RecordTypes
<1>3. CASE UpdateChecklist
  <2>1. Edit("checklist") /\ record' = Edited(record, "checklist")
    BY <1>3 DEF UpdateChecklist
  <2>2. LET new == Edited(record, "checklist") IN
        /\ Row(new) /\ new.tools = record.tools /\ new.approvals = record.approvals
        /\ new.edit = [record.edit EXCEPT !["checklist"] = edits["checklist"] + 1]
    BY <1>1, <1>2, EditedRow
  <2>3. QED
    BY <1>1, <2>1, <2>2
<1>4. ASSUME NEW running \in BOOLEAN, UpdateVerification(running)
      PROVE  /\ Edit("verification")
             /\ \/ record' = Edited(record, "verification")
                \/ record' = [Edited(record, "verification") EXCEPT !.status = "verifying"]
  <2>1. Edited(record, "verification") \in Record
    BY <1>1, <1>2, EditedRow DEF Row
  <2>2. \A r \in Record : [r EXCEPT !.status = r.status] = r
    BY DEF Record
  <2>3. CASE running
    BY <1>4, <2>3 DEF UpdateVerification
  <2>4. CASE ~running
    BY <1>4, <2>1, <2>2, <2>4 DEF UpdateVerification
  <2>5. QED
    BY <1>4, <2>3, <2>4 DEF UpdateVerification
<1>5. ASSUME NEW new, \/ new = Edited(record, "verification")
                      \/ new = [Edited(record, "verification") EXCEPT !.status = "verifying"]
      PROVE  /\ Row(new) /\ new.tools = record.tools /\ new.approvals = record.approvals
             /\ new.edit = [record.edit EXCEPT !["verification"] = edits["verification"] + 1]
  BY <1>1, <1>2, <1>5, EditedRow
<1>6. ASSUME NEW running \in BOOLEAN, UpdateVerification(running)
      PROVE  \E e \in Edits : /\ Edit(e) /\ Row(record')
                              /\ record'.tools = record.tools
                              /\ record'.approvals = record.approvals
                              /\ record'.edit = [record.edit EXCEPT ![e] = edits[e] + 1]
  <2>1. /\ Edit("verification")
        /\ \/ record' = Edited(record, "verification")
           \/ record' = [Edited(record, "verification") EXCEPT !.status = "verifying"]
    BY <1>4, <1>6
  <2>2. /\ Row(record') /\ record'.tools = record.tools /\ record'.approvals = record.approvals
        /\ record'.edit = [record.edit EXCEPT !["verification"] = edits["verification"] + 1]
    BY <1>5, <2>1
  <2>3. QED
    BY <1>1, <2>1, <2>2
<1>7. QED
  BY <1>3, <1>6

\* Every step keeps the rows good: those read, those written and those that land late.
LEMMA RowsNext ==
    ASSUME RecordAssumption, Rows, [Next]_vars
    PROVE  Rows'
<1>1. ASSUME UNCHANGED <<mode, topic, todo, held, late, edits>>, phase' \in Phases, Row(record')
      PROVE  Rows'
  BY <1>1 DEF Rows, RecordTypes
<1>2. ASSUME NEW c \in Calls, NEW t \in Topics, Publish(c, t) PROVE Rows'
  <2>1. topic' \in [Calls -> Topics]
    BY <1>2 DEF Publish, Rows, RecordTypes
  <2>2. todo' \in [Calls -> SUBSET {"activity", "get", "update"}]
    BY <1>2 DEF Publish, Rows, RecordTypes, Handlers
  <2>3. ASSUME NEW d \in Calls, "get" \in todo'[d] \/ "update" \in todo'[d]
        PROVE  HasReference(topic'[d])
    <3>1. CASE d = c
      <4>1. todo'[c] = Handlers(t) /\ topic'[c] = t
        BY <1>2 DEF Publish, Rows, RecordTypes
      <4>2. HasReference(t)
        BY <2>3, <3>1, <4>1 DEF Handlers
      <4>3. QED
        BY <3>1, <4>1, <4>2
    <3>2. CASE d # c
      <4>1. todo'[d] = todo[d] /\ topic'[d] = topic[d]
        BY <1>2, <3>2 DEF Publish, Rows, RecordTypes
      <4>2. QED
        BY <2>3, <4>1 DEF Rows
    <3>3. QED
      BY <3>1, <3>2
  <2>4. UNCHANGED <<mode, phase, held, record, late, edits>>
    BY <1>2 DEF Publish
  <2>5. QED
    BY <2>1, <2>2, <2>3, <2>4 DEF Rows, RecordTypes
<1>3. CASE ExecuteBatch \/ TakeResults
  BY <1>1, <1>3 DEF ExecuteBatch, TakeResults, Phases, Rows, bus
<1>4. ASSUME NEW s \in Outcomes, Finish(s) PROVE Rows'
  <2>1. record' = [record EXCEPT !.status = s] /\ record \in Record
    BY <1>4 DEF Finish, Rows, Row
  <2>2. record' \in Record /\ record'.tools = record.tools
    BY <2>1 DEF Record
  <2>3. Row(record')
    BY <2>2, Rewritten DEF Rows
  <2>4. QED
    BY <1>1, <1>4, <2>3 DEF Finish, Phases, bus
<1>5. CASE Cancel
  <2>1. \A c \in Calls : held'[c] = Fresh /\ todo'[c] = {}
    BY <1>5 DEF Cancel
  <2>2. \A row \in late' : Row(row)
    <3>1. CASE late' = late
      BY <3>1 DEF Rows
    <3>2. CASE late' # late
      <4>1. PICK c \in Calls : "update" \in todo[c] /\ late' = {Update(record, held[c], c)}
        BY <1>5, <3>2 DEF Cancel
      <4>2. topic[c] \in Topics /\ HasReference(topic[c]) /\ Row(held[c]) /\ Row(record)
        BY <4>1 DEF Rows, RecordTypes
      <4>3. Row(Update(record, held[c], c))
        BY <4>2, Updated
      <4>4. QED
        BY <4>1, <4>3
    <3>3. QED
      BY <3>1, <3>2
  <2>3. UNCHANGED <<mode, topic, record, edits>> /\ phase' \in Phases /\ DOMAIN held' = Calls
        /\ todo' \in [Calls -> SUBSET {"activity", "get", "update"}]
    BY <1>5 DEF Cancel, Phases
  <2>4. QED
    BY <2>1, <2>2, <2>3, FreshRow DEF Rows, RecordTypes
<1>6. CASE Abort
  <2>1. record' = [record EXCEPT !.status = "cancelled"] /\ record \in Record
    BY <1>6 DEF Abort, Rows, Row
  <2>2. record' \in Record /\ record'.tools = record.tools
    BY <2>1 DEF Record, Outcomes
  <2>3. Row(record')
    BY <2>2, Rewritten DEF Rows
  <2>4. QED
    BY <1>1, <1>6, <2>3 DEF Abort, Phases, bus
<1>7. ASSUME NEW row \in late, Land(row) PROVE Rows'
  BY <1>7 DEF Land, bus, Rows, RecordTypes
<1>8. ASSUME NEW c \in Calls, RecordActivity(c) PROVE Rows'
  <2>1. /\ todo' \in [Calls -> SUBSET {"activity", "get", "update"}]
        /\ \A d \in Calls : todo'[d] \subseteq todo[d]
    BY <1>8 DEF RecordActivity, Rows, RecordTypes
  <2>2. UNCHANGED <<mode, phase, topic, held, record, late, edits>>
    BY <1>8 DEF RecordActivity
  <2>3. QED
    BY <2>1, <2>2 DEF Rows, RecordTypes
<1>9. ASSUME NEW c \in Calls, GetRun(c) PROVE Rows'
  <2>1. /\ todo' \in [Calls -> SUBSET {"activity", "get", "update"}]
        /\ \A d \in Calls : "get" \in todo'[d] \/ "update" \in todo'[d] =>
              "get" \in todo[d] \/ "update" \in todo[d]
    BY <1>9 DEF GetRun, Rows, RecordTypes
  <2>2. DOMAIN held' = Calls /\ \A d \in Calls : Row(held'[d])
    BY <1>9 DEF GetRun, Rows, RecordTypes
  <2>3. UNCHANGED <<mode, phase, topic, record, late, edits>>
    BY <1>9 DEF GetRun
  <2>4. QED
    BY <2>1, <2>2, <2>3 DEF Rows, RecordTypes
<1>10. ASSUME NEW c \in Calls, UpdateReferences(c) PROVE Rows'
  <2>1. /\ todo' \in [Calls -> SUBSET {"activity", "get", "update"}]
        /\ \A d \in Calls : todo'[d] \subseteq todo[d]
    BY <1>10 DEF UpdateReferences, Rows, RecordTypes
  <2>2. DOMAIN held' = Calls /\ \A d \in Calls : Row(held'[d])
    BY <1>10, FreshRow DEF UpdateReferences, Rows, RecordTypes
  <2>3. Row(record')
    <3>1. /\ record' = Update(record, held[c], c) /\ Row(held[c]) /\ Row(record)
          /\ topic[c] \in Topics /\ HasReference(topic[c])
      BY <1>10 DEF UpdateReferences, Rows, RecordTypes
    <3>2. QED
      BY <3>1, Updated
  <2>4. UNCHANGED <<mode, phase, topic, late, edits>>
    BY <1>10 DEF UpdateReferences
  <2>5. QED
    BY <2>1, <2>2, <2>3, <2>4 DEF Rows, RecordTypes
<1>11. ASSUME NEW e \in Edits, Edit(e), Row(record') PROVE Rows'
  <2>1. edits' \in [Edits -> Nat]
    BY <1>11 DEF Edit, Rows, RecordTypes
  <2>2. QED
    BY <1>11, <2>1 DEF Edit, bus, Rows, RecordTypes
<1>12. ASSUME UpdateChecklist \/ \E running \in BOOLEAN : UpdateVerification(running)
       PROVE  Rows'
  BY <1>11, <1>12, ClientEdit
<1>13. CASE OtherRunStarts
  BY <1>1, <1>13 DEF OtherRunStarts, bus, Rows, RecordTypes
<1>14. CASE UNCHANGED vars
  BY <1>1, <1>14 DEF vars, bus, Rows, RecordTypes
<1>15. QED
  BY <1>2, <1>3, <1>4, <1>5, <1>6, <1>7, <1>8, <1>9, <1>10, <1>12, <1>13, <1>14 DEF Next

\* Every row is good in every state.
LEMMA RowsHold == Spec => []Rows
<1>1. Init => Rows
  BY RowsInit, RecordAssumption
<1>2. Rows /\ [Next]_vars => Rows'
  BY RowsNext, RecordAssumption
<1>3. QED
  BY <1>1, <1>2, PTL DEF Spec

\* Two entries of the record's list never describe one call.
THEOREM OneReference == Spec => []OneReferencePerCall
<1>1. Rows => OneReferencePerCall
  <2>1. SUFFICES ASSUME Rows PROVE OneReferencePerCall
    OBVIOUS
  <2> DEFINE L == record.tools
  <2>2. ToolList(L) /\ DOMAIN L = 1..Len(L)
    BY <2>1, LenProperties DEF Rows, Row, ToolList
  <2> HIDE DEF L
  <2>3. ASSUME NEW j \in DOMAIN L, NEW k \in DOMAIN L, j # k
        PROVE  L[j].id # L[k].id /\ (L[j].req = L[k].req => L[j].req = NoRequest)
    <3>1. L[j].id # L[k].id
      BY <2>2, <2>3 DEF ToolList
    <3>2. PICK c \in Calls : L[j].id = Id[c] /\ L[j].req \in {c, NoRequest}
      BY <2>2, <2>3 DEF ToolList
    <3>3. PICK d \in Calls : L[k].id = Id[d] /\ L[k].req \in {d, NoRequest}
      BY <2>2, <2>3 DEF ToolList
    <3>4. QED
      BY <3>1, <3>2, <3>3, RecordAssumption DEF RecordAssumption
  <2>4. QED
    BY <2>3 DEF OneReferencePerCall, L
<1>2. QED
  BY <1>1, RowsHold, PTL

---------------------------------------------------------------------------
(* What clients write *)

Kept == EditsAreKept /\ (late # {} => Cancelled)

\* update() keeps what it is not passed.
LEMMA UpdatedEdit ==
    ASSUME NEW row \in Record, NEW old, NEW c \in Calls
    PROVE  Update(row, old, c).edit = row.edit
<1>1. CASE OfApproval(topic[c])
  <2>1. ASSUME NEW refs, NEW s PROVE [row EXCEPT !.approvals = refs, !.status = s].edit = row.edit
    BY DEF Record
  <2>2. QED
    BY <1>1, <2>1 DEF Update
<1>2. CASE ~OfApproval(topic[c])
  <2>1. ASSUME NEW refs PROVE [row EXCEPT !.tools = refs].edit = row.edit
    BY DEF Record
  <2>2. QED
    BY <1>2, <2>1 DEF Update
<1>3. QED
  BY <1>1, <1>2

\* Every step keeps the edits until the run is cancelled.
LEMMA KeptNext ==
    ASSUME RecordAssumption, Rows, Kept, [Next]_vars
    PROVE  Kept'
<1>1. ASSUME UNCHANGED <<late, edits>>, record'.edit = record.edit, Cancelled => Cancelled'
      PROVE  Kept'
  BY <1>1 DEF Kept, EditsAreKept
<1>2. ASSUME NEW c \in Calls, NEW t \in Topics, Publish(c, t) PROVE Kept'
  BY <1>1, <1>2 DEF Publish, Cancelled
<1>3. CASE ExecuteBatch \/ TakeResults \/ OtherRunStarts \/ UNCHANGED vars
  BY <1>1, <1>3 DEF ExecuteBatch, TakeResults, OtherRunStarts, vars, Cancelled
<1>4. ASSUME NEW s \in Outcomes, Finish(s) PROVE Kept'
  <2>1. record \in Record /\ record' = [record EXCEPT !.status = s]
    BY <1>4 DEF Finish, Rows, Row
  <2>2. record'.edit = record.edit
    BY <2>1 DEF Record
  <2>3. QED
    BY <1>1, <1>4, <2>2 DEF Finish, Cancelled
<1>5. CASE Cancel \/ Abort
  BY <1>5 DEF Cancel, Abort, Cancelled, Kept, EditsAreKept
<1>6. ASSUME NEW row \in late, Land(row) PROVE Kept'
  BY <1>6 DEF Land, Kept, EditsAreKept, Cancelled
<1>7. ASSUME NEW c \in Calls, RecordActivity(c) \/ GetRun(c) PROVE Kept'
  BY <1>1, <1>7 DEF RecordActivity, GetRun, Cancelled
<1>8. ASSUME NEW c \in Calls, UpdateReferences(c) PROVE Kept'
  <2>1. /\ record' = Update(record, held[c], c) /\ Row(held[c]) /\ Row(record)
        /\ topic[c] \in Topics /\ HasReference(topic[c])
    BY <1>8 DEF UpdateReferences, Rows, RecordTypes
  <2>2. record'.edit = record.edit
    BY <2>1, UpdatedEdit DEF Row
  <2>3. QED
    BY <1>1, <1>8, <2>1, <2>2 DEF UpdateReferences, Cancelled
<1>9. ASSUME UpdateChecklist \/ \E running \in BOOLEAN : UpdateVerification(running)
      PROVE  Kept'
  <2>1. PICK e \in Edits : Edit(e) /\ record'.edit = [record.edit EXCEPT ![e] = edits[e] + 1]
    BY <1>9, ClientEdit
  <2>2. /\ edits' = [edits EXCEPT ![e] = @ + 1] /\ UNCHANGED <<phase, late>>
    BY <2>1 DEF Edit
  <2>3. QED
    BY <2>1, <2>2 DEF Kept, EditsAreKept, Cancelled
<1>10. QED
  BY <1>2, <1>3, <1>4, <1>5, <1>6, <1>7, <1>8, <1>9 DEF Next

\* Edits are kept, and only a cancelled run has a row in flight.
LEMMA KeptHolds == Spec => []Kept
<1>1. Init => Kept
  BY DEF Init, Fresh, Kept, EditsAreKept
<1>2. Kept /\ Rows /\ [Next]_vars => Kept'
  BY KeptNext, RecordAssumption
<1>3. QED
  BY <1>1, <1>2, RowsHold, PTL DEF Spec

\* As long as the run is not cancelled, the record has every edit of a client.
THEOREM EditsKept == Spec => []EditsAreKept
<1>1. Kept => EditsAreKept
  BY DEF Kept
<1>2. QED
  BY <1>1, KeptHolds, PTL

---------------------------------------------------------------------------
(* The results are taken in one by one: while there are any to take in, at  *)
(* most one call's handlers run, what its handler has read is the record    *)
(* there is, and each call whose handlers have ended is in it as completed. *)

CompletedIn(L, c) == \E k \in 1..Len(L) : L[k].id = Id[c] /\ L[k].stage = "completed"

Taking ==
    phase \in {"completing", "ended"} =>
        /\ \A c \in Calls : topic[c] \in {"finished", "completed"}
        /\ \A c \in Calls : topic[c] = "finished" => Quiet(c)
        /\ \A c \in Calls : topic[c] = "completed" =>
              \A d \in Before(c) : Published(d, "completed")
        /\ \A c \in Calls :
              topic[c] = "completed" /\ "get" \notin todo[c] /\ "update" \notin todo[c] =>
                 CompletedIn(record.tools, c)
        /\ \A c \in Calls : "update" \in todo[c] => held[c].tools = record.tools
        /\ phase = "ended" => \A c \in Calls : Published(c, "completed")

\* The reference of a result completes its call's entry and leaves the others.
LEMMA UpsertCompletes ==
    ASSUME RecordAssumption, NEW L, ToolList(L), NEW c \in Calls,
           NEW N, N = Upsert(L, ToolReference(c, "completed"))
    PROVE  /\ CompletedIn(N, c)
           /\ \A d \in Calls : CompletedIn(L, d) => CompletedIn(N, d)
<1>1. "completed" \in ToolTopics
  BY DEF ToolTopics
<1>2. /\ Len(L) \in Nat /\ Len(N) \in {Len(L), Len(L) + 1}
      /\ \A k \in 1..Len(L) : L[k].id # Id[c] => N[k] = L[k]
      /\ \A k \in 1..Len(L) : L[k].id = Id[c] =>
           N[k] = [req |-> L[k].req, id |-> Id[c], stage |-> "completed",
                   result |-> L[k].result \/ FALSE]
      /\ Len(N) = Len(L) => \E k \in 1..Len(L) : L[k].id = Id[c]
      /\ Len(N) = Len(L) + 1 => N[Len(N)] = ToolReference(c, "completed")
  BY <1>1, ToolUpserted
<1>3. \A k \in 1..Len(L) : k \in 1..Len(N)
  BY <1>2
<1>4. ASSUME NEW k \in 1..Len(L), L[k].id = Id[c]
      PROVE  N[k].id = Id[c] /\ N[k].stage = "completed"
  <2>1. N[k] = [req |-> L[k].req, id |-> Id[c], stage |-> "completed",
                result |-> L[k].result \/ FALSE]
    BY <1>2, <1>4
  <2>2. QED
    BY <2>1
<1>5. CompletedIn(N, c)
  <2>1. CASE Len(N) = Len(L)
    BY <1>2, <1>3, <1>4, <2>1 DEF CompletedIn
  <2>2. CASE Len(N) = Len(L) + 1
    <3>1. Len(N) \in 1..Len(N)
      BY <1>2, <2>2
    <3>2. N[Len(N)].id = Id[c] /\ N[Len(N)].stage = "completed"
      BY <1>2, <2>2 DEF ToolReference
    <3>3. QED
      BY <3>1, <3>2 DEF CompletedIn
  <2>3. QED
    BY <1>2, <2>1, <2>2
<1>6. ASSUME NEW d \in Calls, CompletedIn(L, d) PROVE CompletedIn(N, d)
  <2>1. PICK k \in 1..Len(L) : L[k].id = Id[d] /\ L[k].stage = "completed"
    BY <1>6 DEF CompletedIn
  <2>2. N[k].id = Id[d] /\ N[k].stage = "completed"
    BY <1>2, <1>4, <2>1
  <2>3. QED
    BY <1>3, <2>2 DEF CompletedIn
<1>7. QED
  BY <1>5, <1>6

\* Of two calls one comes before the other in the batch.
LEMMA BatchOrder ==
    ASSUME RecordAssumption, NEW c \in Calls, NEW d \in Calls, c # d
    PROVE  c \in Before(d) \/ d \in Before(c)
<1>1. Cardinality(Calls) \in Nat
  BY FS_CardinalityType DEF RecordAssumption
<1>2. PICK j \in DOMAIN Batch : Batch[j] = c
  BY DEF RecordAssumption
<1>3. PICK k \in DOMAIN Batch : Batch[k] = d
  BY DEF RecordAssumption
<1>4. DOMAIN Batch = 1..Cardinality(Calls)
  BY DEF RecordAssumption
<1>5. j \in Nat /\ k \in Nat /\ j # k
  BY <1>1, <1>2, <1>3, <1>4
<1>6. j < k \/ k < j
  BY <1>5
<1>7. QED
  BY <1>2, <1>3, <1>6 DEF Before

\* Only one call's handlers run at a time.
LEMMA OneAtATime ==
    ASSUME RecordAssumption, Taking, phase = "completing",
           NEW c \in Calls, todo[c] # {}, NEW d \in Calls, todo[d] # {}
    PROVE  c = d
<1>1. topic[c] = "completed" /\ topic[d] = "completed"
  BY DEF Taking, Quiet
<1>2. c \notin Before(d) /\ d \notin Before(c)
  BY <1>1 DEF Taking, Published, Quiet
<1>3. QED
  BY <1>2, BatchOrder

\* Every step keeps what has been taken in.
LEMMA TakingNext ==
    ASSUME RecordAssumption, Rows, Kept, Taking, [Next]_vars
    PROVE  Taking'
<1> USE DEF Quiet, Published
<1>1. ASSUME UNCHANGED <<phase, topic, todo, held>>, record'.tools = record.tools
      PROVE  Taking'
  BY <1>1 DEF Taking
<1>2. ASSUME NEW c \in Calls, NEW t \in Topics, Publish(c, t),
             phase \in {"completing", "ended"}
      PROVE  Taking'
  <2>1. topic[c] = "finished" /\ t = "completed"
    BY <1>2 DEF Publish, MayFollow, Follows, Taking
  <2>2. phase = "completing" /\ \A d \in Before(c) : Published(d, "completed")
    BY <1>2, <2>1 DEF Publish, Turn
  <2>3. /\ \A d \in Calls : d # c => topic'[d] = topic[d] /\ todo'[d] = todo[d]
        /\ topic'[c] = "completed" /\ todo'[c] = {"activity", "get"}
    BY <1>2, <2>1 DEF Publish, Handlers, HasReference, Rows, RecordTypes
  <2>4. UNCHANGED <<phase, held, record>>
    BY <1>2 DEF Publish
  <2>5. ASSUME NEW e \in Calls, topic'[e] = "completed", NEW d \in Before(e)
        PROVE  topic'[d] = "completed" /\ todo'[d] = {}
    <3>1. d \in Calls
      BY DEF Before
    <3>2. topic[d] = "completed" /\ todo[d] = {}
      BY <1>2, <2>2, <2>3, <2>5 DEF Taking
    <3>3. QED
      BY <2>1, <2>3, <3>1, <3>2
  <2>6. QED
    BY <1>2, <2>2, <2>3, <2>4, <2>5 DEF Taking
<1>3. CASE TakeResults
  BY <1>3 DEF TakeResults, bus, Taking
<1>4. ASSUME NEW s \in Outcomes, Finish(s) PROVE Taking'
  <2>1. record' = [record EXCEPT !.status = s] /\ record \in Record
    BY <1>4 DEF Finish, Rows, Row
  <2>2. record'.tools = record.tools
    BY <2>1 DEF Record
  <2>3. QED
    BY <1>4, <2>2 DEF Finish, bus, Taking
<1>5. ASSUME phase' \notin {"completing", "ended"} PROVE Taking'
  BY <1>5 DEF Taking
<1>6. ASSUME NEW row \in late, Land(row) PROVE Taking'
  BY <1>5, <1>6 DEF Kept, Cancelled, Land
<1>7. ASSUME NEW c \in Calls, RecordActivity(c), phase \in {"completing", "ended"}
      PROVE  Taking'
  <2>1. \A d \in Calls : todo'[d] = IF d = c THEN todo[c] \ {"activity"} ELSE todo[d]
    BY <1>7 DEF RecordActivity, Rows, RecordTypes
  <2>2. todo[c] # {} /\ UNCHANGED <<phase, topic, held, record>>
    BY <1>7 DEF RecordActivity
  <2>3. ASSUME NEW d \in Calls, todo[d] = {} PROVE todo'[d] = {}
    BY <2>1, <2>3
  <2>4. \A d \in Calls : /\ "get" \in todo'[d] <=> "get" \in todo[d]
                         /\ "update" \in todo'[d] <=> "update" \in todo[d]
    BY <2>1
  <2>5. \A d, e \in Calls : d \in Before(e) => d \in Calls
    OBVIOUS
  <2>6. QED
    BY <1>7, <2>2, <2>3, <2>4 DEF Taking, Before
<1>8. ASSUME NEW c \in Calls, GetRun(c), phase \in {"completing", "ended"}
      PROVE  Taking'
  <2>1. \A d \in Calls : d # c => todo'[d] = todo[d] /\ held'[d] = held[d]
    BY <1>8 DEF GetRun, Rows, RecordTypes
  <2>2. /\ todo[c] # {} /\ "update" \in todo'[c] /\ held'[c] = record
        /\ UNCHANGED <<phase, topic, record>>
    BY <1>8 DEF GetRun, Rows, RecordTypes
  <2>3. topic[c] = "completed" /\ phase = "completing"
    BY <1>8, <2>2 DEF Taking
  <2>4. ASSUME NEW d \in Calls, todo[d] = {} PROVE todo'[d] = {}
    BY <2>1, <2>2, <2>4
  <2>5. QED
    BY <1>8, <2>1, <2>2, <2>3, <2>4 DEF Taking, Before
<1>9. ASSUME NEW c \in Calls, UpdateReferences(c), phase \in {"completing", "ended"}
      PROVE  Taking'
  <2>1. /\ todo[c] # {} /\ "update" \in todo[c]
        /\ \A d \in Calls : d # c => todo'[d] = todo[d] /\ held'[d] = held[d]
        /\ "update" \notin todo'[c] /\ UNCHANGED <<phase, topic>>
        /\ record' = Update(record, held[c], c)
    BY <1>9 DEF UpdateReferences, Rows, RecordTypes
  <2>2. topic[c] = "completed" /\ phase = "completing" /\ held[c].tools = record.tools
    BY <1>9, <2>1 DEF Taking
  <2>3. \A d \in Calls : d # c => todo[d] = {}
    BY <2>1, <2>2, OneAtATime
  <2>4. ToolList(record.tools) /\ record \in Record
    BY DEF Rows, Row
  <2>5. record'.tools = Upsert(record.tools, ToolReference(c, "completed"))
    <3>1. record' = [record EXCEPT !.tools = Upsert(held[c].tools, ToolReference(c, topic[c]))]
      BY <2>1, <2>2 DEF Update, OfApproval
    <3>2. QED
      BY <2>2, <2>4, <3>1 DEF Record
  <2>6. "completed" \in ToolTopics
    BY DEF ToolTopics
  <2>7. /\ CompletedIn(record'.tools, c)
        /\ \A d \in Calls : CompletedIn(record.tools, d) => CompletedIn(record'.tools, d)
    BY <2>4, <2>5, <2>6, UpsertCompletes
  <2>8. \A d \in Calls : "update" \notin todo'[d]
    BY <2>1, <2>3
  <2>9. ASSUME NEW d \in Calls, todo[d] = {} PROVE todo'[d] = {}
    BY <2>1, <2>9
  <2>10. QED
    BY <1>9, <2>1, <2>2, <2>3, <2>7, <2>8, <2>9 DEF Taking, Before
<1>10. CASE UpdateChecklist \/ \E running \in BOOLEAN : UpdateVerification(running)
  <2>1. PICK e \in Edits : Edit(e) /\ record'.tools = record.tools
    BY <1>10, ClientEdit
  <2>2. QED
    BY <1>1, <2>1 DEF Edit, bus
<1>11. CASE ExecuteBatch \/ Cancel \/ Abort
  BY <1>5, <1>11 DEF ExecuteBatch, Cancel, Abort
<1>12. CASE OtherRunStarts \/ UNCHANGED vars
  BY <1>1, <1>12 DEF OtherRunStarts, vars, bus
<1>13. ASSUME NEW c \in Calls,
              \/ \E t \in Topics : Publish(c, t)
              \/ RecordActivity(c) \/ GetRun(c) \/ UpdateReferences(c),
              phase \notin {"completing", "ended"}
       PROVE  Taking'
  <2>1. UNCHANGED phase
    BY <1>13 DEF Publish, RecordActivity, GetRun, UpdateReferences
  <2>2. QED
    BY <1>5, <1>13, <2>1
<1>14. QED
  BY <1>2, <1>3, <1>4, <1>6, <1>7, <1>8, <1>9, <1>10, <1>11, <1>12, <1>13 DEF Next

\* Results are taken in one by one in every behaviour.
LEMMA TakingHolds == Spec => []Taking
<1>1. Init => Taking
  BY DEF Init, Taking
<1>2. Taking /\ Kept /\ Rows /\ [Next]_vars => Taking'
  BY TakingNext, RecordAssumption
<1>3. QED
  BY <1>1, <1>2, RowsHold, KeptHolds, PTL DEF Spec

\* A run that has ended in the loop's own way has a completed reference for
\* each call of its batch, whatever a parallel batch had lost before.
THEOREM EndedReferenced == Spec => []EndedRunIsReferenced
<1>1. Taking /\ Rows => EndedRunIsReferenced
  <2>1. ASSUME Taking, Rows, phase = "ended", NEW c \in Calls
        PROVE  CompletedIn(record.tools, c)
    BY <2>1 DEF Taking, Published, Quiet
  <2>2. Rows => DOMAIN record.tools = 1..Len(record.tools)
    BY LenProperties DEF Rows, Row, ToolList
  <2>3. QED
    BY <2>1, <2>2 DEF CompletedIn, EndedRunIsReferenced
<1>2. QED
  BY <1>1, RowsHold, TakingHolds, PTL

---------------------------------------------------------------------------
(* A sequential batch: the calls come one after the other, so what a        *)
(* handler writes is what it has read and its event, and the record is one  *)
(* event behind the call whose handler is at work and behind no other.      *)

Pending(c) == "get" \in todo[c] \/ "update" \in todo[c]

\* Whose turn it is: a call has come no further than the calls before it let it.
InTurn ==
    /\ surviving = {}
    /\ phase = "requesting" => \A c \in Calls :
          /\ topic[c] \in {"none", "requested"} /\ (topic[c] = "none" => Quiet(c))
          /\ topic[c] = "requested" => \A d \in Before(c) : Published(d, "requested")
    /\ phase = "executing" => \A c \in Calls :
          /\ topic[c] \notin {"none", "completed"} /\ (topic[c] = "requested" => Quiet(c))
          /\ topic[c] # "requested" => \A d \in Before(c) : Published(d, "finished")
    /\ Cancelled \/ phase = "ended" => \A c \in Calls : Quiet(c)

\* The stage the list of tools has of a call: of its last event or, while that
\* one's handler is at work, of the event before it.
Prior(t) ==
    CASE t \in {"none", "requested"} -> "none"
      [] t = "completed" -> "finished"
      [] OTHER -> "requested"

Recorded(c) ==
    IF Pending(c) THEN Prior(topic[c]) ELSE IF topic[c] = "none" THEN "none" ELSE Stage(topic[c])

Entry(c, s) ==
    [req |-> c, id |-> Id[c], stage |-> s, result |-> s \in {"finished", "completed"}]

Holds(L, c, s) ==
    IF s = "none" THEN \A k \in 1..Len(L) : L[k].id # Id[c]
                  ELSE \E k \in 1..Len(L) : L[k] = Entry(c, s)

\* The same of the list of approvals: no entry before the question has been
\* recorded, then one with the answer, which comes after the question itself.
Unasked(c) == topic[c] \in {"none", "requested"} \/ (topic[c] = "pending" /\ Pending(c))

RecordedAnswers(c) ==
    IF topic[c] \in {"approved", "denied"} /\ Pending(c) THEN {"pending"} ELSE Answers(topic[c])

MustHaveAnswer(c) ==
    (OfApproval(topic[c]) /\ ~Unasked(c)) \/ (c \in Asked /\ topic[c] = "started")

HoldsAnswer(A, c) ==
    /\ Unasked(c) => \A k \in 1..Len(A) : A[k].req # c
    /\ \A k \in 1..Len(A) : A[k].req = c => A[k].stage \in RecordedAnswers(c)
    /\ MustHaveAnswer(c) => \E k \in 1..Len(A) : A[k].req = c

ApprovalList(A) ==
    A \in Seq(Reference) /\ \A k \in 1..Len(A) : A[k].req \in Calls /\ A[k].id = A[k].req

CaughtUp(c) ==
    /\ Holds(record.tools, c, Recorded(c)) /\ HoldsAnswer(record.approvals, c)
    /\ "update" \in todo[c] =>
          /\ "get" \notin todo[c]
          /\ held[c].tools = record.tools /\ held[c].approvals = record.approvals

\* No reference of L is lost in N or set back.
Advances(L, N) ==
    \A k \in 1..Len(L) : \E j \in 1..Len(N) :
        /\ N[j].id = L[k].id /\ Rank(N[j].stage) >= Rank(L[k].stage)
        /\ L[k].result => N[j].result

\* The record has caught up, and a row that lands late was to be its next state.
Caught ==
    /\ ~Cancelled => (\A c \in Calls : CaughtUp(c)) /\ ApprovalList(record.approvals)
    /\ \A x, y \in late : x = y /\ Advances(record.tools, x.tools)

InOrder == mode = "sequential" => InTurn /\ Caught

\* Only one call's handlers run at a time.
LEMMA OneBusy ==
    ASSUME RecordAssumption, Rows, Taking, InTurn,
           NEW c \in Calls, todo[c] # {}, NEW d \in Calls, todo[d] # {}
    PROVE  c = d
<1>1. phase \in Phases
  BY DEF Rows, RecordTypes
<1>2. phase \notin {"cancelling", "aborted", "ended"}
  BY DEF InTurn, Cancelled, Quiet
<1>3. CASE phase \in {"requesting", "executing"}
  <2>1. c \notin Before(d) /\ d \notin Before(c)
    BY <1>3 DEF InTurn, Published, Quiet
  <2> QED BY <2>1, BatchOrder
<1>4. CASE phase = "completing"
  BY <1>4, OneAtATime
<1> QED BY <1>1, <1>2, <1>3, <1>4 DEF Phases

\* Every step of a sequential batch keeps the calls in turn.
LEMMA TurnNext ==
    ASSUME RecordAssumption, Rows, Kept, Taking, mode = "sequential", InTurn, [Next]_vars
    PROVE  InTurn'
<1> USE DEF Quiet, Published
<1>1. ASSUME UNCHANGED <<phase, topic, todo, surviving>> PROVE InTurn'
  BY <1>1 DEF InTurn, Cancelled
<1>2. ASSUME NEW c \in Calls, NEW t \in Topics, Publish(c, t) PROVE InTurn'
  <2>1. /\ \A d \in Calls : d # c => topic'[d] = topic[d] /\ todo'[d] = todo[d]
        /\ topic'[c] = t /\ todo'[c] = Handlers(t) /\ todo[c] = {}
        /\ UNCHANGED <<phase, surviving>> /\ MayFollow(c, t) /\ Turn(c, t)
    BY <1>2 DEF Publish, Rows, RecordTypes
  <2>2. \A d \in Calls : \A e \in Before(d) : e \in Calls
    BY DEF Before
  <2>3. CASE t = "requested"
    <3>1. phase = "requesting" /\ topic[c] = "none" /\ \A d \in Before(c) : Published(d, "requested")
      BY <2>1, <2>3 DEF Turn, MayFollow, Follows, InTurn
    <3>2. \A d \in Before(c) : d # c
      BY <3>1
    <3> QED BY <2>1, <2>2, <2>3, <3>1, <3>2 DEF InTurn, Cancelled
  <2>4. CASE t = "completed"
    <3>1. phase = "completing"
      BY <2>1, <2>4 DEF Turn
    <3> QED BY <2>1, <3>1 DEF InTurn, Cancelled
  <2>5. CASE t \notin {"requested", "completed"}
    <3>1. phase = "executing" /\ \A d \in Before(c) : Published(d, "finished")
      BY <2>1, <2>5 DEF Turn, InTurn
    <3>2. t # "none" /\ topic[c] # "finished"
      BY <2>1, <2>5 DEF MayFollow, Follows
    <3>3. \A d \in Before(c) : d # c
      BY <3>1, <3>2
    <3>4. \A d \in Calls : c \in Before(d) => topic[d] = "requested"
      BY <3>1, <3>2 DEF InTurn
    <3> QED BY <2>1, <2>2, <2>5, <3>1, <3>2, <3>3, <3>4 DEF InTurn, Cancelled
  <2> QED BY <2>3, <2>4, <2>5
<1>3. CASE ExecuteBatch \/ TakeResults
  BY <1>3 DEF ExecuteBatch, TakeResults, InTurn, Cancelled, bus, Taking
<1>4. ASSUME NEW s \in Outcomes, Finish(s) PROVE InTurn'
  BY <1>4 DEF Finish, InTurn, Cancelled, bus
<1>5. CASE Cancel
  BY <1>5 DEF Cancel, InTurn, Cancelled
<1>6. CASE Abort
  BY <1>6 DEF Abort, InTurn, Cancelled, bus
<1>7. ASSUME NEW row \in late, Land(row) PROVE InTurn'
  BY <1>1, <1>7 DEF Land, bus
<1>8. ASSUME NEW c \in Calls, RecordActivity(c) \/ GetRun(c) \/ UpdateReferences(c) PROVE InTurn'
  <2>1. /\ todo[c] # {} /\ UNCHANGED <<phase, topic, surviving>>
        /\ \A d \in Calls : d # c => todo'[d] = todo[d]
    BY <1>8 DEF RecordActivity, GetRun, UpdateReferences, Rows, RecordTypes
  <2>2. \A d \in Calls : \A e \in Before(d) : e \in Calls
    BY DEF Before
  <2> QED BY <2>1, <2>2 DEF InTurn, Cancelled
<1>9. CASE UpdateChecklist \/ \E running \in BOOLEAN : UpdateVerification(running)
  BY <1>1, <1>9 DEF UpdateChecklist, UpdateVerification, Edit, bus
<1>10. CASE OtherRunStarts \/ UNCHANGED vars
  BY <1>1, <1>10 DEF OtherRunStarts, vars, bus
<1> QED
  BY <1>2, <1>3, <1>4, <1>5, <1>6, <1>7, <1>8, <1>9, <1>10 DEF Next

Stages == {"none", "requested", "finished", "completed"}

\* A tool event moves its call's entry on, and no other entry.
LEMMA UpsertHolds ==
    ASSUME RecordAssumption, NEW L, ToolList(L), NEW c \in Calls, NEW t \in ToolTopics,
           Holds(L, c, Prior(t)), NEW N, N = Upsert(L, ToolReference(c, t))
    PROVE  /\ Holds(N, c, t) /\ Advances(L, N)
           /\ \A d \in Calls \ {c} : \A s \in Stages : Holds(L, d, s) => Holds(N, d, s)
<1>1. /\ ToolList(N) /\ Len(L) \in Nat /\ Len(N) \in {Len(L), Len(L) + 1}
      /\ \A k \in 1..Len(L) : L[k].id # Id[c] => N[k] = L[k]
      /\ \A k \in 1..Len(L) : L[k].id = Id[c] =>
           N[k] = [req |-> IF t = "completed" THEN L[k].req ELSE c, id |-> Id[c],
                   stage |-> t, result |-> L[k].result \/ t = "finished"]
      /\ Len(N) = Len(L) => \E k \in 1..Len(L) : L[k].id = Id[c]
      /\ Len(N) = Len(L) + 1 =>
           N[Len(N)] = ToolReference(c, t) /\ \A k \in 1..Len(L) : L[k].id # Id[c]
  BY ToolUpserted
<1>2. \A k \in 1..Len(L) : k \in 1..Len(N)
  BY <1>1
<1>3. t \in {"requested", "finished", "completed"} /\ t # "none"
  BY DEF ToolTopics
<1>4. CASE t = "requested"
  <2>1. \A k \in 1..Len(L) : L[k].id # Id[c]
    BY <1>4 DEF Holds, Prior
  <2>2. Len(N) = Len(L) + 1 /\ N[Len(N)] = ToolReference(c, t) /\ Len(N) \in 1..Len(N)
    BY <1>1, <2>1
  <2>3. ToolReference(c, t) = Entry(c, t)
    BY <1>4 DEF ToolReference, Entry
  <2>4. Holds(N, c, t)
    BY <1>4, <2>2, <2>3 DEF Holds
  <2>5. \A k \in 1..Len(L) : N[k] = L[k]
    BY <1>1, <2>1
  <2>6. \A k \in 1..Len(L) : Rank(L[k].stage) >= Rank(L[k].stage)
    BY DEF Rank
  <2>7. Advances(L, N)
    BY <1>2, <2>5, <2>6 DEF Advances
  <2>8. \A d \in Calls \ {c} : \A s \in Stages : Holds(L, d, s) => Holds(N, d, s)
    <3>1. ASSUME NEW d \in Calls \ {c}, \A k \in 1..Len(L) : L[k].id # Id[d]
          PROVE  \A k \in 1..Len(N) : N[k].id # Id[d]
      <4>1. N[Len(N)].id = Id[c] /\ Id[c] # Id[d]
        BY <2>2 DEF ToolReference, RecordAssumption
      <4>2. \A k \in 1..Len(N) : k \in 1..Len(L) \/ k = Len(N)
        BY <1>1, <2>2
      <4> QED BY <2>5, <3>1, <4>1, <4>2
    <3> QED BY <1>2, <2>5, <3>1 DEF Holds
  <2> QED BY <2>4, <2>7, <2>8
<1>5. CASE t \in {"finished", "completed"}
  <2> DEFINE p == Prior(t)
  <2>1. p = (IF t = "finished" THEN "requested" ELSE "finished") /\ p # "none"
    BY <1>5 DEF Prior
  <2>2. PICK i \in 1..Len(L) : L[i] = Entry(c, p)
    BY <2>1 DEF Holds
  <2>3. /\ L[i].id = Id[c] /\ L[i].req = c /\ L[i].stage = p
        /\ L[i].result = (p \in {"finished", "completed"})
    BY <2>2 DEF Entry
  <2> HIDE DEF p
  <2>4. N[i] = [req |-> c, id |-> Id[c], stage |-> t, result |-> TRUE]
    <3>1. N[i] = [req |-> IF t = "completed" THEN L[i].req ELSE c, id |-> Id[c],
                  stage |-> t, result |-> L[i].result \/ t = "finished"]
      BY <1>1, <2>3
    <3>2. (L[i].result \/ t = "finished") = TRUE
      BY <1>5, <2>1, <2>3
    <3> QED BY <2>3, <3>1, <3>2
  <2>5. Holds(N, c, t)
    <3>1. Entry(c, t) = [req |-> c, id |-> Id[c], stage |-> t, result |-> TRUE]
      BY <1>5 DEF Entry
    <3> QED BY <1>2, <1>3, <2>4, <3>1 DEF Holds
  <2>6. Len(N) = Len(L)
    BY <1>1, <2>3
  <2>7. \A k \in 1..Len(L) : L[k].id = Id[c] => k = i
    BY <2>3 DEF ToolList
  <2>8. Advances(L, N)
    <3>1. ASSUME NEW k \in 1..Len(L)
          PROVE  /\ N[k].id = L[k].id /\ Rank(N[k].stage) >= Rank(L[k].stage)
                 /\ L[k].result => N[k].result
      <4>1. CASE k = i
        <5>1. N[i].id = Id[c] /\ N[i].stage = t /\ N[i].result = TRUE
          BY <2>4
        <5>2. Rank(t) >= Rank(p)
          BY <1>5, <2>1 DEF Rank
        <5> QED BY <2>3, <4>1, <5>1, <5>2
      <4>2. CASE k # i
        <5>1. N[k] = L[k]
          BY <1>1, <2>7, <4>2
        <5>2. Rank(L[k].stage) >= Rank(L[k].stage)
          BY DEF Rank
        <5> QED BY <5>1, <5>2
      <4> QED BY <4>1, <4>2
    <3> QED BY <1>2, <3>1 DEF Advances
  <2>9. \A d \in Calls \ {c} : \A s \in Stages : Holds(L, d, s) => Holds(N, d, s)
    <3> SUFFICES ASSUME NEW d \in Calls \ {c}, NEW s \in Stages, Holds(L, d, s)
                 PROVE  Holds(N, d, s)
      OBVIOUS
    <3>1. Id[c] # Id[d]
      BY DEF RecordAssumption
    <3>2. CASE s = "none"
      <4>1. \A k \in 1..Len(L) : L[k].id # Id[d]
        BY <3>2 DEF Holds
      <4>2. N[i].id = Id[c]
        BY <2>4
      <4>3. \A k \in 1..Len(N) : N[k].id # Id[d]
        BY <1>1, <2>6, <2>7, <3>1, <4>1, <4>2
      <4> QED BY <3>2, <4>3 DEF Holds
    <3>3. CASE s # "none"
      <4>1. PICK k \in 1..Len(L) : L[k] = Entry(d, s)
        BY <3>3 DEF Holds
      <4>2. L[k].id = Id[d]
        BY <4>1 DEF Entry
      <4>3. N[k] = L[k]
        BY <1>1, <3>1, <4>2
      <4> QED BY <1>2, <3>3, <4>1, <4>3 DEF Holds
    <3> QED BY <3>2, <3>3
  <2> QED BY <2>5, <2>8, <2>9
<1> QED BY <1>3, <1>4, <1>5

\* N is A with what it says of c's approval replaced, and nothing else.
Answered(A, N, c, t) ==
    /\ \A k \in 1..Len(N) : N[k].req = c => N[k].stage = t
    /\ \E k \in 1..Len(N) : N[k].req = c
    /\ \A d \in Calls \ {c} :
         /\ \A k \in 1..Len(N) : N[k].req = d => k \in 1..Len(A) /\ A[k] = N[k]
         /\ \A k \in 1..Len(A) : A[k].req = d => k \in 1..Len(N) /\ A[k] = N[k]

\* An approval event replaces what its call's approval said.
LEMMA ApprovalUpserted ==
    ASSUME RecordAssumption, NEW A, ApprovalList(A), NEW c \in Calls,
           NEW t \in {"pending", "approved", "denied"},
           NEW N, N = Upsert(A, ApprovalReference(c, t))
    PROVE  ApprovalList(N) /\ Answered(A, N, c, t)
<1> DEFINE ref == ApprovalReference(c, t)
<1>1. ref.req = c /\ ref.id = c /\ ref.stage = t /\ ref = [req |-> c, id |-> c, stage |-> t, result |-> FALSE]
  BY DEF ApprovalReference
<1>2. ref \in Reference
  BY ReferenceTypes
<1>3. c # NoRequest /\ A \in Seq(Reference)
  BY DEF RecordAssumption, ApprovalList
<1> HIDE DEF ref
<1>4. /\ N \in Seq(Reference) /\ Len(N) \in {Len(A), Len(A) + 1} /\ Len(A) \in Nat
      /\ \A k \in 1..Len(A) : N[k] = IF Matches(A[k], ref) THEN Merged(A[k], ref) ELSE A[k]
      /\ Len(N) = Len(A) => \E k \in 1..Len(A) : Matches(A[k], ref)
      /\ Len(N) = Len(A) + 1 =>
            N[Len(A) + 1] = ref /\ \A k \in 1..Len(A) : ~Matches(A[k], ref)
  <2>1. N = Upsert(A, ref)
    BY DEF ref
  <2> QED BY <1>2, <1>3, <2>1, Upserted
<1>5. \A k \in 1..Len(A) : Matches(A[k], ref) <=> A[k].req = c
  BY <1>1, <1>3 DEF Matches, ApprovalList
<1>6. \A k \in 1..Len(A) : Merged(A[k], ref).req = c /\ Merged(A[k], ref).stage = t
                           /\ Merged(A[k], ref).id = c
  BY <1>1, <1>3 DEF Merged
<1>7. \A k \in 1..Len(A) :
         IF A[k].req = c THEN N[k].req = c /\ N[k].id = c /\ N[k].stage = t ELSE N[k] = A[k]
  BY <1>4, <1>5, <1>6
<1>8. \A k \in 1..Len(N) : k \in 1..Len(A) \/ (k = Len(A) + 1 /\ N[k] = ref)
  BY <1>4
<1>9. ApprovalList(N)
  BY <1>1, <1>4, <1>7, <1>8 DEF ApprovalList
<1>10. \E k \in 1..Len(N) : N[k].req = c
  <2>1. CASE Len(N) = Len(A)
    BY <1>4, <1>5, <1>7, <2>1
  <2>2. CASE Len(N) = Len(A) + 1
    <3>1. Len(A) + 1 \in 1..Len(N)
      BY <1>4, <2>2
    <3> QED BY <1>1, <1>4, <2>2, <3>1
  <2> QED BY <1>4, <2>1, <2>2
<1>11. \A k \in 1..Len(N) : N[k].req = c => N[k].stage = t
  BY <1>1, <1>7, <1>8
<1>12. ASSUME NEW d \in Calls \ {c}
       PROVE  /\ \A k \in 1..Len(N) : N[k].req = d => k \in 1..Len(A) /\ A[k] = N[k]
              /\ \A k \in 1..Len(A) : A[k].req = d => k \in 1..Len(N) /\ A[k] = N[k]
  BY <1>1, <1>4, <1>7, <1>8
<1> QED BY <1>9, <1>10, <1>11, <1>12 DEF Answered

\* Handlers write by turns: all other calls' handlers have ended.
LEMMA UpdateInOrder ==
    ASSUME RecordAssumption, Rows, Taking, InTurn, Caught, ~Cancelled,
           NEW c \in Calls, "update" \in todo[c], NEW new, new = Update(record, held[c], c)
    PROVE  /\ Advances(record.tools, new.tools) /\ ApprovalList(new.approvals)
           /\ \A d \in Calls \ {c} :
                /\ \A s \in Stages : Holds(record.tools, d, s) => Holds(new.tools, d, s)
                /\ HoldsAnswer(record.approvals, d) => HoldsAnswer(new.approvals, d)
           /\ Holds(new.tools, c, Stage(topic[c]))
           /\ \A k \in 1..Len(new.approvals) :
                 new.approvals[k].req = c => new.approvals[k].stage \in Answers(topic[c])
           /\ topic[c] = "requested" => \A k \in 1..Len(new.approvals) : new.approvals[k].req # c
           /\ OfApproval(topic[c]) => \E k \in 1..Len(new.approvals) : new.approvals[k].req = c
<1>1. /\ Row(record) /\ Row(held[c]) /\ topic[c] \in Topics /\ HasReference(topic[c])
      /\ ToolList(record.tools)
  BY DEF Rows, RecordTypes, Row
<1>2. /\ held[c].tools = record.tools /\ held[c].approvals = record.approvals
      /\ Holds(record.tools, c, Recorded(c)) /\ HoldsAnswer(record.approvals, c)
      /\ ApprovalList(record.approvals) /\ Pending(c) /\ Recorded(c) = Prior(topic[c])
  BY DEF Caught, CaughtUp, Pending, Recorded
<1>3. /\ OfApproval(topic[c]) =>
            /\ new.tools = record.tools
            /\ new.approvals = Upsert(record.approvals, ApprovalReference(c, topic[c]))
      /\ ~OfApproval(topic[c]) =>
            /\ topic[c] \in ToolTopics
            /\ new.tools = Upsert(record.tools, ToolReference(c, topic[c]))
            /\ new.approvals = record.approvals
  <2>1. record \in Record
    BY <1>1 DEF Row
  <2>2. CASE OfApproval(topic[c])
    <3>1. \A refs, st : /\ [record EXCEPT !.approvals = refs, !.status = st].tools = record.tools
                        /\ [record EXCEPT !.approvals = refs, !.status = st].approvals = refs
      BY <2>1 DEF Record
    <3>2. /\ new.tools = record.tools
          /\ new.approvals = Upsert(held[c].approvals, ApprovalReference(c, topic[c]))
      BY <2>2, <3>1 DEF Update
    <3> QED BY <1>2, <2>2, <3>2
  <2>3. CASE ~OfApproval(topic[c])
    <3>1. \A refs : /\ [record EXCEPT !.tools = refs].tools = refs
                    /\ [record EXCEPT !.tools = refs].approvals = record.approvals
      BY <2>1 DEF Record
    <3>2. /\ new.tools = Upsert(held[c].tools, ToolReference(c, topic[c]))
          /\ new.approvals = record.approvals
      BY <2>3, <3>1 DEF Update
    <3>3. topic[c] \in ToolTopics
      BY <1>1, <2>3, TopicKinds
    <3> QED BY <1>2, <2>3, <3>2, <3>3
  <2> QED BY <2>2, <2>3
<1>4. CASE OfApproval(topic[c])
  <2>1. topic[c] \in {"pending", "approved", "denied"}
    BY <1>4 DEF OfApproval
  <2>2. /\ Stage(topic[c]) = "requested" /\ Prior(topic[c]) = "requested"
        /\ Answers(topic[c]) = {topic[c]} /\ topic[c] # "requested"
    BY <1>4, <2>1 DEF Stage, Prior, Answers
  <2>3. Advances(record.tools, new.tools)
    <3>1. \A k \in 1..Len(record.tools) :
             Rank(record.tools[k].stage) >= Rank(record.tools[k].stage)
      BY DEF Rank
    <3> QED BY <1>3, <1>4, <3>1 DEF Advances
  <2> DEFINE A == record.approvals
             N == new.approvals
  <2>4. ApprovalList(N) /\ Answered(A, N, c, topic[c])
    <3>0. PICK t \in {"pending", "approved", "denied"} : t = topic[c]
      BY <2>1
    <3>1. ApprovalList(A) /\ N = Upsert(A, ApprovalReference(c, t))
      BY <1>2, <1>3, <1>4, <3>0
    <3> HIDE DEF A, N
    <3>2. ApprovalList(N) /\ Answered(A, N, c, t)
      BY <3>1, ApprovalUpserted
    <3> QED BY <3>0, <3>2
  <2>5. ASSUME NEW d \in Calls \ {c}, HoldsAnswer(A, d) PROVE HoldsAnswer(N, d)
    <3> HIDE DEF A, N
    <3> QED BY <2>4, <2>5 DEF HoldsAnswer, Answered
  <2> QED BY <1>2, <1>3, <1>4, <2>2, <2>3, <2>4, <2>5 DEF Answered
<1>5. CASE ~OfApproval(topic[c])
  <2>1. topic[c] \in ToolTopics
    BY <1>3, <1>5
  <2>2. Stage(topic[c]) = topic[c]
    BY <2>1 DEF Stage, ToolTopics
  <2> DEFINE L == record.tools
             N == new.tools
  <2>3. /\ Holds(N, c, topic[c]) /\ Advances(L, N)
        /\ \A d \in Calls \ {c} : \A s \in Stages : Holds(L, d, s) => Holds(N, d, s)
    <3>1. /\ ToolList(L) /\ Holds(L, c, Prior(topic[c]))
          /\ N = Upsert(L, ToolReference(c, topic[c]))
      BY <1>1, <1>2, <1>3, <1>5
    <3> HIDE DEF L, N
    <3> QED BY <2>1, <3>1, UpsertHolds
  <2>4. RecordedAnswers(c) = Answers(topic[c])
    BY <2>1 DEF RecordedAnswers, ToolTopics
  <2>5. topic[c] = "requested" => Unasked(c)
    BY DEF Unasked
  <2> QED BY <1>2, <1>3, <1>5, <2>2, <2>3, <2>4, <2>5 DEF HoldsAnswer
<1> QED BY <1>4, <1>5

\* What has been recorded of a call is what the next event expects to find.
LEMMA PublishInOrder ==
    ASSUME Rows, NEW c \in Calls, NEW t \in Topics, Publish(c, t), CaughtUp(c)
    PROVE  CaughtUp(c)'
<1>1. /\ topic'[c] = t /\ todo'[c] = Handlers(t) /\ todo[c] = {} /\ MayFollow(c, t)
      /\ UNCHANGED <<record, held>> /\ topic[c] \in Topics
  BY DEF Publish, Rows, RecordTypes, Quiet
<1>2. ~Pending(c) /\ (Pending(c)' <=> HasReference(t)) /\ "update" \notin todo'[c]
  BY <1>1 DEF Pending, Handlers
<1>3. Recorded(c)' = Recorded(c)
  <2>1. Recorded(c) = IF topic[c] = "none" THEN "none" ELSE Stage(topic[c])
    BY <1>2 DEF Recorded
  <2>2. Recorded(c)' = IF HasReference(t) THEN Prior(t) ELSE IF t = "none" THEN "none" ELSE Stage(t)
    BY <1>1, <1>2 DEF Recorded
  <2>3. t \in Follows(topic[c]) /\ t # "none"
    BY <1>1 DEF MayFollow, Follows
  <2> QED BY <1>1, <2>1, <2>2, <2>3 DEF Follows, Topics, HasReference, Prior, Stage
<1>4. Holds(record.tools, c, Recorded(c))'
  BY <1>1, <1>3 DEF CaughtUp, Holds, Entry
<1>5. HoldsAnswer(record.approvals, c)'
  <2>1. t \in Follows(topic[c]) /\ (t = "pending" => c \in Asked)
        /\ (topic[c] = "requested" /\ t = "started" => c \notin Asked)
    BY <1>1 DEF MayFollow
  <2>2. /\ Unasked(c) <=> topic[c] \in {"none", "requested"}
        /\ RecordedAnswers(c) = Answers(topic[c])
        /\ MustHaveAnswer(c) <=> OfApproval(topic[c]) \/ (c \in Asked /\ topic[c] = "started")
    BY <1>2 DEF Unasked, RecordedAnswers, MustHaveAnswer, OfApproval
  <2>3. /\ Unasked(c)' <=> t \in {"none", "requested", "pending"}
        /\ RecordedAnswers(c)' = IF t \in {"approved", "denied"} THEN {"pending"} ELSE Answers(t)
        /\ MustHaveAnswer(c)' <=> t \in {"approved", "denied"} \/ (c \in Asked /\ t = "started")
    <3>1. t \in {"pending", "approved", "denied"} => HasReference(t)
      BY DEF HasReference
    <3>2. Unasked(c)' <=> t \in {"none", "requested", "pending"}
      BY <1>1, <1>2, <3>1 DEF Unasked
    <3>3. RecordedAnswers(c)' = IF t \in {"approved", "denied"} THEN {"pending"} ELSE Answers(t)
      BY <1>1, <1>2, <3>1 DEF RecordedAnswers
    <3>4. MustHaveAnswer(c)' <=> t \in {"approved", "denied"} \/ (c \in Asked /\ t = "started")
      BY <1>1, <3>2 DEF MustHaveAnswer, OfApproval
    <3> QED BY <3>2, <3>3, <3>4
  <2>4. Unasked(c)' => Unasked(c)
    BY <1>1, <2>1, <2>2, <2>3 DEF Follows, Topics
  <2>5. MustHaveAnswer(c)' => MustHaveAnswer(c)
    BY <1>1, <2>1, <2>2, <2>3 DEF Follows, Topics, OfApproval
  <2>6. Unasked(c) \/ RecordedAnswers(c) \subseteq RecordedAnswers(c)'
    BY <1>1, <2>1, <2>2, <2>3 DEF Follows, Topics, OfApproval, Answers
  <2>7. HoldsAnswer(record.approvals, c)
    BY DEF CaughtUp
  <2> QED BY <1>1, <2>4, <2>5, <2>6, <2>7 DEF HoldsAnswer
<1> QED BY <1>2, <1>4, <1>5 DEF CaughtUp

\* Every step of a sequential batch keeps the record caught up.
LEMMA CaughtNext ==
    ASSUME RecordAssumption, Rows, Kept, Taking, InTurn, Caught, [Next]_vars
    PROVE  Caught'
<1>0. \A c \in Calls : Recorded(c) \in Stages
  BY DEF Recorded, Prior, Stage, Stages
<1>1. ASSUME UNCHANGED <<topic, late>>, Cancelled <=> Cancelled',
             record'.tools = record.tools, record'.approvals = record.approvals,
             \A c \in Calls : /\ "get" \in todo'[c] <=> "get" \in todo[c]
                              /\ "update" \in todo'[c] <=> "update" \in todo[c]
                              /\ held'[c] = held[c]
      PROVE  Caught'
  <2>1. ASSUME NEW c \in Calls, CaughtUp(c) PROVE CaughtUp(c)'
    <3>0. Pending(c)' = Pending(c)
      BY <1>1 DEF Pending
    <3>1. /\ Recorded(c)' = Recorded(c) /\ Unasked(c)' = Unasked(c)
          /\ RecordedAnswers(c)' = RecordedAnswers(c)
      BY <1>1, <3>0 DEF Recorded, Unasked, RecordedAnswers
    <3>2. MustHaveAnswer(c)' = MustHaveAnswer(c)
      BY <1>1, <3>1 DEF MustHaveAnswer
    <3>3. Holds(record.tools, c, Recorded(c))'
      BY <1>1, <2>1, <3>1 DEF Holds, Entry, CaughtUp
    <3>4. HoldsAnswer(record.approvals, c)'
      BY <1>1, <2>1, <3>1, <3>2 DEF HoldsAnswer, CaughtUp
    <3> QED BY <1>1, <2>1, <3>3, <3>4 DEF CaughtUp
  <2> QED BY <1>1, <2>1 DEF Caught, Advances, ApprovalList
<1>2. ASSUME NEW c \in Calls, NEW t \in Topics, Publish(c, t) PROVE Caught'
  <2>1. /\ UNCHANGED <<phase, record, late, held>>
        /\ \A d \in Calls : d # c => topic'[d] = topic[d] /\ todo'[d] = todo[d]
    BY <1>2 DEF Publish, Rows, RecordTypes
  <2>2. ASSUME NEW d \in Calls, d # c, CaughtUp(d) PROVE CaughtUp(d)'
    <3>1. topic'[d] = topic[d] /\ todo'[d] = todo[d]
      BY <2>1, <2>2
    <3>2. /\ Recorded(d)' = Recorded(d) /\ Unasked(d)' = Unasked(d)
          /\ RecordedAnswers(d)' = RecordedAnswers(d)
      BY <3>1 DEF Recorded, Unasked, RecordedAnswers, Pending
    <3>3. MustHaveAnswer(d)' = MustHaveAnswer(d)
      BY <3>1, <3>2 DEF MustHaveAnswer
    <3>4. Holds(record.tools, d, Recorded(d))'
      BY <2>1, <2>2, <3>2 DEF Holds, Entry, CaughtUp
    <3>5. HoldsAnswer(record.approvals, d)'
      BY <2>1, <2>2, <3>2, <3>3 DEF HoldsAnswer, CaughtUp
    <3> QED BY <2>1, <2>2, <3>1, <3>4, <3>5 DEF CaughtUp
  <2>3. CaughtUp(c) => CaughtUp(c)'
    BY <1>2, PublishInOrder
  <2> QED BY <2>1, <2>2, <2>3 DEF Caught, Cancelled, Advances, ApprovalList
<1>3. CASE ExecuteBatch \/ TakeResults \/ OtherRunStarts \/ UNCHANGED vars
  BY <1>1, <1>3 DEF ExecuteBatch, TakeResults, OtherRunStarts, vars, bus, Cancelled
<1>4. ASSUME NEW s, record' = [record EXCEPT !.status = s], UNCHANGED <<bus, late>>,
             Cancelled <=> Cancelled'
      PROVE  Caught'
  <2>1. record'.tools = record.tools /\ record'.approvals = record.approvals
    BY <1>4 DEF Rows, Row, Record
  <2> QED BY <1>1, <1>4, <2>1 DEF bus
<1>5. ASSUME NEW s \in Outcomes, Finish(s) PROVE Caught'
  BY <1>4, <1>5 DEF Finish, Cancelled
<1>6. CASE Abort
  BY <1>4, <1>6 DEF Abort, Cancelled
<1>7. CASE Cancel
  <2>1. ~Cancelled /\ late = {} /\ Cancelled' /\ UNCHANGED record
    BY <1>7 DEF Cancel, Cancelled, Kept
  <2>2. CASE late' = late
    BY <2>1, <2>2 DEF Caught
  <2>3. CASE late' # late
    <3>1. PICK c \in Calls : "update" \in todo[c] /\ late' = {Update(record, held[c], c)}
      BY <1>7, <2>3 DEF Cancel
    <3>2. Advances(record.tools, Update(record, held[c], c).tools)
      BY <2>1, <3>1, UpdateInOrder
    <3>3. \A x, y \in late' : x = y /\ Advances(record.tools, x.tools)
      BY <3>1, <3>2
    <3> QED BY <2>1, <3>3 DEF Caught
  <2> QED BY <2>2, <2>3
<1>8. ASSUME NEW row \in late, Land(row) PROVE Caught'
  <2>1. late' = {} /\ Cancelled'
    BY <1>8 DEF Land, Caught, Kept, Cancelled
  <2> QED BY <2>1 DEF Caught
<1>9. ASSUME NEW c \in Calls, RecordActivity(c) PROVE Caught'
  <2>1. \A d \in Calls : /\ "get" \in todo'[d] <=> "get" \in todo[d]
                         /\ "update" \in todo'[d] <=> "update" \in todo[d]
    BY <1>9 DEF RecordActivity, Rows, RecordTypes
  <2> QED BY <1>1, <1>9, <2>1 DEF RecordActivity, Cancelled
<1>10. ASSUME NEW c \in Calls, GetRun(c) PROVE Caught'
  <2>1. /\ \A d \in Calls : d # c => todo'[d] = todo[d] /\ held'[d] = held[d]
        /\ Pending(c) /\ Pending(c)' /\ held'[c] = record
        /\ UNCHANGED <<phase, topic, record, late>>
        /\ "get" \notin todo'[c]
    BY <1>10 DEF GetRun, Rows, RecordTypes, Pending
  <2>2. ASSUME NEW d \in Calls, CaughtUp(d) PROVE CaughtUp(d)'
    <3>1. topic'[d] = topic[d] /\ (Pending(d)' <=> Pending(d))
      BY <2>1 DEF Pending
    <3>2. /\ Recorded(d)' = Recorded(d) /\ Unasked(d)' = Unasked(d)
          /\ RecordedAnswers(d)' = RecordedAnswers(d)
      BY <3>1 DEF Recorded, Unasked, RecordedAnswers
    <3>3. MustHaveAnswer(d)' = MustHaveAnswer(d)
      BY <3>1, <3>2 DEF MustHaveAnswer
    <3>4. Holds(record.tools, d, Recorded(d))'
      BY <2>1, <2>2, <3>2 DEF Holds, Entry, CaughtUp
    <3>5. HoldsAnswer(record.approvals, d)'
      BY <2>1, <2>2, <3>2, <3>3 DEF HoldsAnswer, CaughtUp
    <3>6. "update" \in todo'[d] =>
            /\ "get" \notin todo'[d]
            /\ held'[d].tools = record'.tools /\ held'[d].approvals = record'.approvals
      BY <2>1, <2>2 DEF CaughtUp
    <3> QED BY <3>4, <3>5, <3>6 DEF CaughtUp
  <2> QED BY <2>1, <2>2 DEF Caught, Cancelled, Advances, ApprovalList
<1>11. ASSUME NEW c \in Calls, UpdateReferences(c) PROVE Caught'
  <2>1. /\ \A d \in Calls : d # c => todo'[d] = todo[d] /\ held'[d] = held[d]
        /\ "update" \in todo[c] /\ "update" \notin todo'[c]
        /\ UNCHANGED <<phase, topic, late>> /\ record' = Update(record, held[c], c)
    BY <1>11 DEF UpdateReferences, Rows, RecordTypes
  <2>2. todo[c] # {} /\ ~Cancelled /\ late = {} /\ HasReference(topic[c])
    BY <2>1 DEF InTurn, Quiet, Kept, Rows
  <2>3. \A d \in Calls \ {c} : todo[d] = {}
    BY <2>2, OneBusy
  <2>4. /\ ApprovalList(record'.approvals)
        /\ \A d \in Calls \ {c} :
             /\ \A s \in Stages : Holds(record.tools, d, s) => Holds(record'.tools, d, s)
             /\ HoldsAnswer(record.approvals, d) => HoldsAnswer(record'.approvals, d)
        /\ Holds(record'.tools, c, Stage(topic[c]))
        /\ \A k \in 1..Len(record'.approvals) :
              record'.approvals[k].req = c => record'.approvals[k].stage \in Answers(topic[c])
        /\ topic[c] = "requested" => \A k \in 1..Len(record'.approvals) : record'.approvals[k].req # c
        /\ OfApproval(topic[c]) => \E k \in 1..Len(record'.approvals) : record'.approvals[k].req = c
    <3>1. PICK new : new = Update(record, held[c], c)
      OBVIOUS
    <3>2. /\ ApprovalList(new.approvals)
          /\ \A d \in Calls \ {c} :
               /\ \A s \in Stages : Holds(record.tools, d, s) => Holds(new.tools, d, s)
               /\ HoldsAnswer(record.approvals, d) => HoldsAnswer(new.approvals, d)
          /\ Holds(new.tools, c, Stage(topic[c]))
          /\ \A k \in 1..Len(new.approvals) :
                new.approvals[k].req = c => new.approvals[k].stage \in Answers(topic[c])
          /\ topic[c] = "requested" => \A k \in 1..Len(new.approvals) : new.approvals[k].req # c
          /\ OfApproval(topic[c]) => \E k \in 1..Len(new.approvals) : new.approvals[k].req = c
      BY <2>1, <2>2, <3>1, UpdateInOrder
    <3>3. record' = new
      BY <2>1, <3>1
    <3> QED BY <3>2, <3>3
  <2>5. CaughtUp(c)'
    <3>1. ~Pending(c)' /\ topic'[c] = topic[c] /\ topic[c] \notin {"none", "started"}
      <4>1. "get" \notin todo'[c]
        BY <1>11, <2>2 DEF UpdateReferences, Rows, RecordTypes, Caught, CaughtUp
      <4> QED BY <2>1, <2>2, <4>1 DEF Pending, HasReference
    <3>2. Recorded(c)' = Stage(topic[c])
      BY <3>1 DEF Recorded
    <3>3. Holds(record.tools, c, Recorded(c))'
      BY <2>4, <3>2 DEF Holds, Entry
    <3>4. /\ Unasked(c)' => topic[c] = "requested"
          /\ RecordedAnswers(c)' = Answers(topic[c])
      BY <3>1 DEF Unasked, RecordedAnswers
    <3>5. MustHaveAnswer(c)' => OfApproval(topic[c])
      BY <3>1 DEF MustHaveAnswer, OfApproval
    <3>6. HoldsAnswer(record.approvals, c)'
      BY <2>4, <3>4, <3>5 DEF HoldsAnswer
    <3> QED BY <2>1, <3>3, <3>6 DEF CaughtUp
  <2>6. ASSUME NEW d \in Calls \ {c}, CaughtUp(d) PROVE CaughtUp(d)'
    <3>1. topic'[d] = topic[d] /\ todo'[d] = {} /\ todo[d] = {}
      BY <2>1, <2>3
    <3>2. /\ Recorded(d)' = Recorded(d) /\ Unasked(d)' = Unasked(d)
          /\ RecordedAnswers(d)' = RecordedAnswers(d)
      BY <3>1 DEF Recorded, Unasked, RecordedAnswers, Pending
    <3>3. MustHaveAnswer(d)' = MustHaveAnswer(d)
      BY <3>1, <3>2 DEF MustHaveAnswer
    <3>4. Holds(record'.tools, d, Recorded(d)) /\ HoldsAnswer(record'.approvals, d)
      BY <1>0, <2>4, <2>6 DEF CaughtUp
    <3>5. Holds(record.tools, d, Recorded(d))'
      BY <3>2, <3>4 DEF Holds, Entry
    <3>6. HoldsAnswer(record.approvals, d)'
      BY <3>2, <3>3, <3>4 DEF HoldsAnswer
    <3> QED BY <3>1, <3>5, <3>6 DEF CaughtUp
  <2> QED BY <2>1, <2>2, <2>4, <2>5, <2>6 DEF Caught, ApprovalList
<1>12. CASE UpdateChecklist \/ \E running \in BOOLEAN : UpdateVerification(running)
  <2>1. PICK e \in Edits : /\ Edit(e) /\ record'.tools = record.tools
                           /\ record'.approvals = record.approvals
    BY <1>12, ClientEdit
  <2> QED BY <1>1, <2>1 DEF Edit, bus, Cancelled
<1> QED
  BY <1>2, <1>3, <1>5, <1>6, <1>7, <1>8, <1>9, <1>10, <1>11, <1>12 DEF Next

\* A sequential batch begins in turn, with an empty record.
LEMMA OrderInit == Init => InOrder
<1> SUFFICES ASSUME Init PROVE InTurn /\ Caught
  BY DEF InOrder
<1>1. InTurn
  BY DEF Init, InTurn, Quiet, Published, Cancelled
<1>2. Len(<<>>) = 0 /\ <<>> \in Seq(Reference)
  OBVIOUS
<1>3. record.tools = <<>> /\ record.approvals = <<>> /\ late = {}
  BY DEF Init, Fresh
<1>4. ASSUME NEW c \in Calls PROVE CaughtUp(c)
  <2>1. topic[c] = "none" /\ todo[c] = {}
    BY DEF Init
  <2>2. Recorded(c) = "none" /\ ~MustHaveAnswer(c)
    BY <2>1 DEF Recorded, Pending, MustHaveAnswer, OfApproval
  <2>3. Holds(<<>>, c, "none")
    BY <1>2 DEF Holds
  <2>4. HoldsAnswer(<<>>, c)
    BY <1>2, <2>2 DEF HoldsAnswer
  <2> QED BY <1>3, <2>1, <2>2, <2>3, <2>4 DEF CaughtUp
<1>5. ApprovalList(record.approvals)
  BY <1>2, <1>3 DEF ApprovalList
<1> QED BY <1>1, <1>3, <1>4, <1>5 DEF Caught

\* The way a batch is executed does not change.
LEMMA ModeStays == [Next]_vars => mode' = mode
BY DEF Next, vars, Publish, ExecuteBatch, TakeResults, Finish, Cancel, Abort, Land,
       RecordActivity, GetRun, UpdateReferences, UpdateChecklist, UpdateVerification, Edit,
       OtherRunStarts

\* A sequential batch stays in turn and its record caught up.
LEMMA OrderHolds == Spec => []InOrder
<1>1. InOrder /\ Rows /\ Kept /\ Taking /\ [Next]_vars => InOrder'
  BY TurnNext, CaughtNext, ModeStays, RecordAssumption DEF InOrder
<1> QED
  BY <1>1, OrderInit, RowsHold, KeptHolds, TakingHolds, PTL DEF Spec

\* The record of a sequential batch has every event whose handlers have ended.
THEOREM SequentialIsComplete == Spec => []SequentialRecordIsComplete
<1>1. ASSUME InOrder, Rows, mode = "sequential", ~Cancelled,
             NEW c \in Calls, Quiet(c), topic[c] # "none"
      PROVE  /\ \E k \in DOMAIN record.tools : record.tools[k] =
                    [req |-> c, id |-> Id[c], stage |-> Stage(topic[c]),
                     result |-> topic[c] \in {"finished", "completed"}]
             /\ (c \in Asked /\ topic[c] = "started") \/ OfApproval(topic[c]) =>
                  \E k \in DOMAIN record.approvals : record.approvals[k].req = c
             /\ \A k \in DOMAIN record.approvals : record.approvals[k].req = c =>
                  record.approvals[k].stage \in Answers(topic[c])
  <2>1. CaughtUp(c) /\ ApprovalList(record.approvals) /\ ~Pending(c)
    BY <1>1 DEF InOrder, Caught, Pending, Quiet
  <2>2. /\ DOMAIN record.tools = 1..Len(record.tools)
        /\ DOMAIN record.approvals = 1..Len(record.approvals)
    BY <1>1, <2>1, LenProperties DEF Rows, Row, ToolList, ApprovalList
  <2>3. Recorded(c) = Stage(topic[c]) /\ Stage(topic[c]) # "none"
    BY <1>1, <2>1 DEF Recorded, Stage
  <2>4. PICK k \in 1..Len(record.tools) : record.tools[k] = Entry(c, Stage(topic[c]))
    BY <2>1, <2>3 DEF CaughtUp, Holds
  <2>5. (Stage(topic[c]) \in {"finished", "completed"}) = (topic[c] \in {"finished", "completed"})
    BY DEF Stage
  <2>6. RecordedAnswers(c) = Answers(topic[c])
    BY <2>1 DEF RecordedAnswers
  <2>7. (c \in Asked /\ topic[c] = "started") \/ OfApproval(topic[c]) => MustHaveAnswer(c)
    BY <2>1 DEF MustHaveAnswer, Unasked, OfApproval
  <2> QED
    BY <2>1, <2>2, <2>4, <2>5, <2>6, <2>7 DEF CaughtUp, HoldsAnswer, Entry
<1>2. InOrder /\ Rows => SequentialRecordIsComplete
  BY <1>1 DEF SequentialRecordIsComplete
<1> QED
  BY <1>2, OrderHolds, RowsHold, PTL

\* No step of a sequential batch loses a reference or sets one back.
LEMMA AdvanceStep ==
    ASSUME RecordAssumption, Rows, Kept, Taking, InTurn, Caught, Next
    PROVE  Advances(record.tools, record'.tools)
<1>1. ASSUME record'.tools = record.tools PROVE Advances(record.tools, record'.tools)
  <2>1. \A k \in 1..Len(record.tools) : Rank(record.tools[k].stage) >= Rank(record.tools[k].stage)
    BY DEF Rank
  <2> QED BY <1>1, <2>1 DEF Advances
<1>2. CASE UNCHANGED record
  BY <1>1, <1>2
<1>3. ASSUME NEW s, record' = [record EXCEPT !.status = s]
      PROVE  Advances(record.tools, record'.tools)
  BY <1>1, <1>3 DEF Rows, Row, Record
<1>4. ASSUME NEW row \in late, Land(row) PROVE Advances(record.tools, record'.tools)
  BY <1>4 DEF Land, Caught
<1>5. ASSUME NEW c \in Calls, UpdateReferences(c) PROVE Advances(record.tools, record'.tools)
  <2>1. "update" \in todo[c] /\ record' = Update(record, held[c], c) /\ ~Cancelled
    BY <1>5 DEF UpdateReferences, InTurn, Quiet
  <2>2. Advances(record.tools, Update(record, held[c], c).tools)
    BY <2>1, UpdateInOrder
  <2> QED BY <2>1, <2>2
<1>6. CASE UpdateChecklist \/ \E running \in BOOLEAN : UpdateVerification(running)
  BY <1>1, <1>6, ClientEdit
<1>7. CASE \/ \E c \in Calls, t \in Topics : Publish(c, t)
           \/ ExecuteBatch \/ TakeResults \/ Cancel \/ OtherRunStarts
           \/ \E c \in Calls : RecordActivity(c) \/ GetRun(c)
  BY <1>2, <1>7 DEF Publish, ExecuteBatch, TakeResults, Cancel, OtherRunStarts,
     RecordActivity, GetRun
<1>8. CASE Abort \/ \E s \in Outcomes : Finish(s)
  BY <1>3, <1>8 DEF Abort, Finish
<1> QED
  BY <1>4, <1>5, <1>6, <1>7, <1>8 DEF Next

\* In a sequential batch the references only advance, whatever is cancelled
\* and whenever a row lands.
THEOREM OnlyAdvance == Spec => StagesOnlyAdvance
<1>1. ASSUME Rows, Rows', Kept, Taking, InOrder, [Next]_vars
      PROVE  [mode = "sequential" => StageAdvances]_vars
  <2> SUFFICES ASSUME Next, mode = "sequential" PROVE StageAdvances
    BY <1>1
  <2>1. Advances(record.tools, record'.tools)
    BY <1>1, AdvanceStep, RecordAssumption DEF InOrder
  <2>2. PICK L, N : L = record.tools /\ N = record'.tools
    OBVIOUS
  <2>3. DOMAIN L = 1..Len(L) /\ DOMAIN N = 1..Len(N)
    BY <1>1, <2>2, LenProperties DEF Rows, Row, ToolList
  <2>4. Advances(L, N)
    BY <2>1, <2>2
  <2>5. \A k \in DOMAIN L : \E j \in DOMAIN N :
           /\ N[j].id = L[k].id /\ Rank(N[j].stage) >= Rank(L[k].stage)
           /\ L[k].result => N[j].result
    BY <2>3, <2>4 DEF Advances
  <2> QED BY <2>2, <2>5 DEF StageAdvances
<1> QED
  BY <1>1, RowsHold, KeptHolds, TakingHolds, OrderHolds, PTL DEF Spec, StagesOnlyAdvance

---------------------------------------------------------------------------
(* The activity list: an event finds the item of its call by the ids it     *)
(* carries, and only the limit or another run's start drops one.            *)

\* The lists of the items left after each place are the ones the definition reads as.
LEMMA OthersDefined ==
    ASSUME NEW list \in Seq(Item), NEW item, NEW f, f = Others(list, item)
    PROVE  f = [n \in 0..Len(list) |->
                  IF n = 0 THEN <<>>
                  ELSE IF Names(list[n], item.req, item.id) THEN f[n - 1]
                  ELSE Append(f[n - 1], list[n])]
<1> DEFINE Body(g, n) == IF n = 0 THEN <<>>
                         ELSE IF Names(list[n], item.req, item.id) THEN g[n - 1]
                         ELSE Append(g[n - 1], list[n])
<1>1. PICK N, A, base : N = Len(list) /\ A = Seq(Item) /\ base = <<>>
  OBVIOUS
<1>2. N \in Nat /\ base \in A /\ \A n \in 1..N : list[n] \in Item
  BY <1>1, LenProperties, ElementOfSeq, EmptySeq
<1>3. PICK step : step = [p \in A \X (1..N) |->
                            IF Names(list[p[2]], item.req, item.id) THEN p[1]
                            ELSE Append(p[1], list[p[2]])]
  OBVIOUS
<1>4. step \in [A \X (1..N) -> A]
  <2>1. \A p \in A \X (1..N) :
           (IF Names(list[p[2]], item.req, item.id) THEN p[1] ELSE Append(p[1], list[p[2]])) \in A
    BY <1>1, <1>2, AppendProperties
  <2>2. QED
    BY <1>3, <2>1
<1>5. PICK g : Carries(g, A, base, step, N)
  <2>1. N \in Nat /\ base \in A
    BY <1>2
  <2>2. QED
    BY <1>4, <2>1, Carried
<1>6. ASSUME NEW n \in 0..N PROVE g[n] = Body(g, n)
  <2>1. CASE n = 0
    BY <1>1, <1>5, <2>1 DEF Carries
  <2>2. CASE n # 0
    <3>1. n \in 1..N /\ n - 1 \in 0..N
      BY <1>2, <2>2
    <3>2. PICK p : p = <<g[n - 1], n>>
      OBVIOUS
    <3>3. p \in A \X (1..N) /\ p[1] = g[n - 1] /\ p[2] = n
      BY <1>5, <3>1, <3>2 DEF Carries
    <3>4. g[n] = step[p]
      BY <1>5, <3>1, <3>2 DEF Carries
    <3>5. step[p] = IF Names(list[p[2]], item.req, item.id) THEN p[1] ELSE Append(p[1], list[p[2]])
      BY <1>3, <3>3
    <3>6. QED
      BY <2>2, <3>3, <3>4, <3>5
  <2>3. QED
    BY <2>1, <2>2
<1>7. g = [n \in 0..Len(list) |-> Body(g, n)]
  <2> HIDE DEF Body
  <2>1. DOMAIN g = 0..N /\ g = [n \in DOMAIN g |-> g[n]]
    BY <1>5 DEF Carries
  <2>2. QED
    BY <1>1, <1>6, <2>1
<1>8. f = CHOOSE h : h = [n \in 0..Len(list) |-> Body(h, n)]
  BY DEF Others
<1>9. f = [n \in 0..Len(list) |-> Body(f, n)]
  <2> HIDE DEF Body
  <2>1. \E h : h = [n \in 0..Len(list) |-> Body(h, n)]
    BY <1>7
  <2>2. QED
    BY <1>8, <2>1
<1>10. QED
  BY <1>9

\* What is left of the first n items of a list: those about something else, each
\* once, from places of their own.
Left(rest, list, item, n) ==
    /\ rest \in Seq(Item)
    /\ \A k \in 1..n : ~Names(list[k], item.req, item.id) => \E i \in 1..Len(rest) : rest[i] = list[k]
    /\ \E at \in [1..Len(rest) -> 1..n] : \A i \in 1..Len(rest) :
          /\ rest[i] = list[at[i]] /\ ~Names(list[at[i]], item.req, item.id)
          /\ \A j \in 1..Len(rest) : at[i] = at[j] => i = j

\* Others leaves exactly the entries of other requests and tools.
LEMMA OthersLeft ==
    ASSUME NEW list \in Seq(Item), NEW item
    PROVE  Left(Others(list, item)[Len(list)], list, item, Len(list))
<1>1. PICK f : f = Others(list, item)
  OBVIOUS
<1>2. f = [n \in 0..Len(list) |->
             IF n = 0 THEN <<>>
             ELSE IF Names(list[n], item.req, item.id) THEN f[n - 1]
             ELSE Append(f[n - 1], list[n])]
  BY <1>1, OthersDefined
<1>3. Len(list) \in Nat
  BY LenProperties
<1>4. f[0] = <<>> /\ \A n \in 1..Len(list) :
         f[n] = IF Names(list[n], item.req, item.id) THEN f[n - 1] ELSE Append(f[n - 1], list[n])
  <2>1. 0 \in 0..Len(list) /\ \A n \in 1..Len(list) : n \in 0..Len(list) /\ n # 0
    BY <1>3
  <2>2. QED
    BY <1>2, <2>1
<1> DEFINE S == {n \in 0..Len(list) : Left(f[n], list, item, n)}
<1>5. 0 \in S
  <2>1. PICK rest, at : rest = f[0] /\ at = [i \in 1..0 |-> i]
    OBVIOUS
  <2>2. rest \in Seq(Item) /\ Len(rest) = 0 /\ 1..0 = {}
    BY <1>4, <2>1, EmptySeq
  <2>3. at \in [1..Len(rest) -> 1..0]
    BY <2>1, <2>2
  <2>4. Left(rest, list, item, 0)
    BY <2>2, <2>3 DEF Left
  <2>5. QED
    BY <1>3, <2>1, <2>4
<1>6. ASSUME NEW m \in 0..(Len(list) - 1), m \in S PROVE m + 1 \in S
  <2>1. /\ m + 1 \in 1..Len(list) /\ m \in Nat /\ (m + 1) - 1 = m
        /\ list[m + 1] \in Item /\ Left(f[m], list, item, m)
    BY <1>3, <1>6, ElementOfSeq
  <2>2. PICK rest, new, x : rest = f[m] /\ new = f[m + 1] /\ x = list[m + 1]
    OBVIOUS
  <2>3. new = IF Names(x, item.req, item.id) THEN rest ELSE Append(rest, x)
    BY <1>4, <2>1, <2>2
  <2>4. /\ rest \in Seq(Item) /\ Len(rest) \in Nat
        /\ \A k \in 1..m : ~Names(list[k], item.req, item.id) =>
              \E i \in 1..Len(rest) : rest[i] = list[k]
    BY <2>1, <2>2, LenProperties DEF Left
  <2>5. PICK at \in [1..Len(rest) -> 1..m] : \A i \in 1..Len(rest) :
           /\ rest[i] = list[at[i]] /\ ~Names(list[at[i]], item.req, item.id)
           /\ \A j \in 1..Len(rest) : at[i] = at[j] => i = j
    BY <2>1, <2>2 DEF Left
  <2>6. CASE Names(x, item.req, item.id)
    <3>1. \A k \in 1..(m + 1) : k \in 1..m \/ k = m + 1
      BY <2>1
    <3>2. at \in [1..Len(rest) -> 1..(m + 1)]
      BY <2>1, <2>5
    <3>3. Left(rest, list, item, m + 1)
      BY <2>2, <2>4, <2>5, <2>6, <3>1, <3>2 DEF Left
    <3>4. new = rest
      BY <2>3, <2>6
    <3>5. Left(f[m + 1], list, item, m + 1) /\ m + 1 \in 0..Len(list)
      BY <1>3, <2>1, <2>2, <3>3, <3>4
    <3>6. QED
      BY <3>5
  <2>7. CASE ~Names(x, item.req, item.id)
    <3>1. /\ new \in Seq(Item) /\ Len(new) = Len(rest) + 1 /\ new[Len(rest) + 1] = x
          /\ \A i \in 1..Len(rest) : new[i] = rest[i]
      BY <2>1, <2>2, <2>3, <2>4, <2>7, AppendProperties
    <3>2. PICK to : to = [i \in 1..Len(new) |-> IF i = Len(rest) + 1 THEN m + 1 ELSE at[i]]
      OBVIOUS
    <3>3. \A i \in 1..Len(new) : i = Len(rest) + 1 \/ i \in 1..Len(rest)
      BY <2>4, <3>1
    <3>4. \A i \in 1..Len(rest) : i # Len(rest) + 1 /\ i \in 1..Len(new) /\ at[i] \in 1..m /\ at[i] # m + 1
      BY <2>1, <2>4, <2>5, <3>1
    <3>5. to \in [1..Len(new) -> 1..(m + 1)]
      BY <2>1, <3>2, <3>3, <3>4
    <3>6. ASSUME NEW i \in 1..Len(new)
          PROVE  /\ new[i] = list[to[i]] /\ ~Names(list[to[i]], item.req, item.id)
                 /\ \A j \in 1..Len(new) : to[i] = to[j] => i = j
      <4>1. CASE i = Len(rest) + 1
        <5>1. to[i] = m + 1
          BY <3>2, <4>1
        <5>2. \A j \in 1..Len(rest) : to[j] # m + 1
          BY <3>2, <3>4
        <5>3. QED
          BY <2>2, <2>7, <3>1, <3>3, <4>1, <5>1, <5>2
      <4>2. CASE i \in 1..Len(rest)
        <5>1. to[i] = at[i] /\ at[i] # m + 1
          BY <3>2, <3>4, <4>2
        <5>2. \A j \in 1..Len(rest) : to[j] = at[j]
          BY <3>2, <3>4
        <5>3. \A j \in 1..Len(new) : j = Len(rest) + 1 => to[j] = m + 1
          BY <3>2
        <5>4. QED
          BY <2>5, <3>1, <3>3, <4>2, <5>1, <5>2, <5>3
      <4>3. QED
        BY <3>3, <4>1, <4>2
    <3>7. ASSUME NEW k \in 1..(m + 1), ~Names(list[k], item.req, item.id)
          PROVE  \E i \in 1..Len(new) : new[i] = list[k]
      <4>1. CASE k = m + 1
        <5>1. Len(rest) + 1 \in 1..Len(new)
          BY <2>4, <3>1
        <5>2. QED
          BY <2>2, <3>1, <4>1, <5>1
      <4>2. CASE k \in 1..m
        <5>1. PICK i \in 1..Len(rest) : rest[i] = list[k]
          BY <2>4, <3>7, <4>2
        <5>2. QED
          BY <3>1, <3>4, <5>1
      <4>3. QED
        BY <2>1, <4>1, <4>2
    <3>8. Left(new, list, item, m + 1)
      BY <3>1, <3>5, <3>6, <3>7 DEF Left
    <3>9. QED
      BY <1>3, <2>1, <2>2, <3>8
  <2>8. QED
    BY <2>6, <2>7
<1>7. 0..Len(list) \subseteq S
  <2> HIDE DEF S
  <2>1. QED
    BY <1>3, <1>5, <1>6, BoundedInduction
<1>8. Len(list) \in S
  BY <1>3, <1>7
<1>9. QED
  BY <1>1, <1>8

\* The list with the item in front: what is about something else follows it, each
\* once, and either all of it or as much as the limit leaves room for.
Fronted(N, list, item) ==
    /\ N \in Seq(Item) /\ Len(N) \in 1..Limit /\ N[1] = item
    /\ \E at \in [2..Len(N) -> 1..Len(list)] : \A i \in 2..Len(N) :
          /\ N[i] = list[at[i]] /\ ~Names(list[at[i]], item.req, item.id)
          /\ \A j \in 2..Len(N) : at[i] = at[j] => i = j
    /\ \/ \A k \in 1..Len(list) : ~Names(list[k], item.req, item.id) =>
             \E i \in 2..Len(N) : N[i] = list[k]
       \/ \E at \in [1..Limit -> 1..Len(list)] : \A i \in 1..Limit :
             /\ ~Names(list[at[i]], item.req, item.id)
             /\ \A j \in 1..Limit : at[i] = at[j] => i = j

\* Front moves the item to the front and drops nothing else, or fills the list.
LEMMA FrontList ==
    ASSUME RecordAssumption, NEW list \in Seq(Item), NEW item \in Item, NEW N, N = Front(list, item)
    PROVE  Fronted(N, list, item)
<1>1. PICK rest, full, n : /\ rest = Others(list, item)[Len(list)]
                           /\ full = <<item>> \o rest
                           /\ n = IF Len(rest) < Limit THEN Len(rest) + 1 ELSE Limit
  OBVIOUS
<1>2. N = SubSeq(full, 1, n)
  BY <1>1 DEF Front
<1>3. /\ rest \in Seq(Item)
      /\ \A k \in 1..Len(list) : ~Names(list[k], item.req, item.id) =>
            \E i \in 1..Len(rest) : rest[i] = list[k]
      /\ \E at \in [1..Len(rest) -> 1..Len(list)] : \A i \in 1..Len(rest) :
            /\ rest[i] = list[at[i]] /\ ~Names(list[at[i]], item.req, item.id)
            /\ \A j \in 1..Len(rest) : at[i] = at[j] => i = j
  <2>1. Left(rest, list, item, Len(list))
    BY <1>1, OthersLeft
  <2>2. QED
    BY <2>1 DEF Left
<1>4. PICK at \in [1..Len(rest) -> 1..Len(list)] : \A i \in 1..Len(rest) :
         /\ rest[i] = list[at[i]] /\ ~Names(list[at[i]], item.req, item.id)
         /\ \A j \in 1..Len(rest) : at[i] = at[j] => i = j
  BY <1>3
<1>5. Limit \in Nat \ {0} /\ Len(rest) \in Nat
  BY <1>3, LenProperties DEF RecordAssumption
<1>6. /\ full \in Seq(Item) /\ Len(full) = Len(rest) + 1 /\ full[1] = item
      /\ \A i \in 2..Len(full) : full[i] = rest[i - 1]
  <2>1. PICK one : one = <<item>>
    OBVIOUS
  <2>2. one \in Seq(Item) /\ Len(one) = 1 /\ one[1] = item
    BY <2>1
  <2>3. /\ one \o rest \in Seq(Item) /\ Len(one \o rest) = 1 + Len(rest)
        /\ \A i \in 1..(1 + Len(rest)) :
              (one \o rest)[i] = IF i <= 1 THEN one[i] ELSE rest[i - 1]
    BY SMTT(20), <1>3, <2>2, ConcatProperties
  <2>4. QED
    BY <1>1, <1>5, <2>1, <2>2, <2>3
<1>7. n \in 1..Len(full) /\ n \in 1..Limit
  BY <1>1, <1>5, <1>6
<1>8. /\ N \in Seq(Item) /\ Len(N) = n
      /\ \A i \in 1..n : N[i] = full[i]
  BY <1>2, <1>6, <1>7
<1>9. N[1] = item /\ \A i \in 2..n : N[i] = rest[i - 1] /\ i - 1 \in 1..Len(rest)
  BY <1>5, <1>6, <1>7, <1>8
<1>10. \E to \in [2..Len(N) -> 1..Len(list)] : \A i \in 2..Len(N) :
          /\ N[i] = list[to[i]] /\ ~Names(list[to[i]], item.req, item.id)
          /\ \A j \in 2..Len(N) : to[i] = to[j] => i = j
  <2>1. PICK to : to = [i \in 2..Len(N) |-> at[i - 1]]
    OBVIOUS
  <2>2. to \in [2..Len(N) -> 1..Len(list)]
    BY <1>4, <1>8, <1>9, <2>1
  <2>3. ASSUME NEW i \in 2..Len(N)
        PROVE  /\ N[i] = list[to[i]] /\ ~Names(list[to[i]], item.req, item.id)
               /\ \A j \in 2..Len(N) : to[i] = to[j] => i = j
    <3>1. N[i] = rest[i - 1] /\ i - 1 \in 1..Len(rest) /\ to[i] = at[i - 1]
      BY <1>8, <1>9, <2>1
    <3>2. ASSUME NEW j \in 2..Len(N), to[i] = to[j] PROVE i = j
      <4>1. j - 1 \in 1..Len(rest) /\ to[j] = at[j - 1]
        BY <1>8, <1>9, <2>1
      <4>2. i - 1 = j - 1
        BY <1>4, <3>1, <3>2, <4>1
      <4>3. QED
        BY <1>7, <1>8, <4>2
    <3>3. QED
      BY <1>4, <3>1, <3>2
  <2>4. QED
    BY <2>2, <2>3
<1>11. CASE Len(rest) < Limit
  <2>1. ASSUME NEW k \in 1..Len(list), ~Names(list[k], item.req, item.id)
        PROVE  \E i \in 2..Len(N) : N[i] = list[k]
    <3>1. PICK j \in 1..Len(rest) : rest[j] = list[k]
      BY <1>3, <2>1
    <3>2. j + 1 \in 2..n /\ (j + 1) - 1 = j
      BY <1>1, <1>5, <1>11
    <3>3. QED
      BY <1>8, <1>9, <3>1, <3>2
  <2>2. QED
    BY <1>7, <1>8, <1>9, <1>10, <2>1 DEF Fronted
<1>12. CASE ~(Len(rest) < Limit)
  <2>1. PICK to : to = [i \in 1..Limit |-> at[i]]
    OBVIOUS
  <2>2. \A i \in 1..Limit : i \in 1..Len(rest)
    BY <1>5, <1>12
  <2>3. to \in [1..Limit -> 1..Len(list)] /\ \A i \in 1..Limit :
           /\ ~Names(list[to[i]], item.req, item.id)
           /\ \A j \in 1..Limit : to[i] = to[j] => i = j
    BY <1>4, <2>1, <2>2
  <2>4. QED
    BY <1>7, <1>8, <1>9, <1>10, <2>3 DEF Fronted
<1>13. QED
  BY <1>11, <1>12

\* An item about a call whose last event is t: an id it has is the call's.
About(i, c, t) ==
    /\ i.req \in {c, NoRequest} /\ i.id \in {Id[c], NoRequest}
    /\ i.status = t /\ t \in Topics \ {"none"}
    /\ i.req = NoRequest => t = "completed"
    /\ i.id = NoRequest => OfApproval(t)

\* A list that shows of each call on it the event s has for it, in one item.
Showing(L, s) ==
    /\ L \in Seq(Item) /\ Len(L) <= Limit
    /\ \A k \in 1..Len(L) : \E c \in Calls : About(L[k], c, s[c])
    /\ \A j, k \in 1..Len(L), c \in Calls : RefersTo(L[j], c) /\ RefersTo(L[k], c) => j = k

Known(s) == {c \in Calls : s[c] # "none"}
ShowsAll(L, s) == \A c \in Known(s) : \E k \in 1..Len(L) : RefersTo(L[k], c)

\* An item about a call refers to it, and to no other.
LEMMA AboutOne ==
    ASSUME RecordAssumption, NEW i, NEW c \in Calls, NEW t, About(i, c, t)
    PROVE  RefersTo(i, c) /\ \A d \in Calls : RefersTo(i, d) => d = c
<1>1. i.req = c \/ i.id = Id[c]
  BY DEF About, OfApproval
<1>2. ASSUME NEW d \in Calls, RefersTo(i, d) PROVE d = c
  <2>1. d # NoRequest /\ Id[d] # NoRequest /\ (Id[d] = Id[c] => d = c)
    BY DEF RecordAssumption
  <2>2. QED
    BY <1>2, <2>1 DEF RefersTo, About
<1>3. QED
  BY <1>1, <1>2 DEF RefersTo

\* What an event carries finds the items that refer to its call: where an id is
\* missing, the event carries the other one.
LEMMA NamesOne ==
    ASSUME RecordAssumption, NEW s \in [Calls -> Topics], NEW c \in Calls, NEW t \in Follows(s[c]),
           NEW i, NEW d \in Calls, About(i, d, s[d])
    PROVE  Names(i, RequestOf(c, t), CallOf(c, t)) <=> RefersTo(i, c)
<1>1. s[c] \in Topics /\ c # NoRequest /\ Id[c] # NoRequest
  BY DEF RecordAssumption
<1>2. s[c] # "completed" /\ (t = "completed" => ~OfApproval(s[c]))
  BY <1>1 DEF Follows, Topics, OfApproval
<1>3. RefersTo(i, c) => d = c
  BY AboutOne
<1>4. CASE t = "completed"
  <2>1. Names(i, RequestOf(c, t), CallOf(c, t)) <=> i.id = Id[c]
    BY <1>1, <1>4 DEF Names, RequestOf, CallOf, OfApproval
  <2>2. RefersTo(i, c) => i.id = Id[c]
    BY <1>2, <1>3, <1>4 DEF About
  <2>3. QED
    BY <2>1, <2>2 DEF RefersTo
<1>5. CASE OfApproval(t)
  <2>1. Names(i, RequestOf(c, t), CallOf(c, t)) <=> i.req = c
    BY <1>1, <1>5 DEF Names, RequestOf, CallOf, OfApproval
  <2>2. RefersTo(i, c) => i.req = c
    BY <1>2, <1>3 DEF About
  <2>3. QED
    BY <2>1, <2>2 DEF RefersTo
<1>6. CASE t # "completed" /\ ~OfApproval(t)
  BY <1>1, <1>6 DEF Names, RequestOf, CallOf, RefersTo
<1>7. QED
  BY <1>4, <1>5, <1>6

\* N has x in its place k, and the rest of L.
ReplacedAt(N, L, k, x) ==
    /\ N \in Seq(Item) /\ Len(N) = Len(L) /\ k \in 1..Len(L) /\ N[k] = x
    /\ \A j \in 1..Len(L) : j # k => N[j] = L[j]

\* An event puts its item in the place of the one it finds, or in front.
LEMMA AppliedCases ==
    ASSUME RecordAssumption, NEW s \in [Calls -> Topics], NEW L, Showing(L, s),
           NEW c \in Calls, NEW t \in Follows(s[c]), NEW N, N = Applied(L, c, t)
    PROVE  \E x \in Item : About(x, c, t) /\
              \/ \E k \in 1..Len(L) : RefersTo(L[k], c) /\ ReplacedAt(N, L, k, x)
              \/ \E F, y : /\ Fronted(F, L, y) /\ ReplacedAt(N, F, 1, x)
                           /\ \A k \in 1..Len(L) :
                                 Names(L[k], y.req, y.id) <=> RefersTo(L[k], c)
<1>1. /\ L \in Seq(Item) /\ Len(L) \in Nat /\ DOMAIN L = 1..Len(L)
      /\ \A k \in 1..Len(L) : L[k] \in Item
  BY LenProperties, ElementOfSeq DEF Showing
<1>2. /\ t \in Topics \ {"none"} /\ s[c] \in Topics /\ s[c] # "completed"
      /\ t = "completed" => s[c] = "finished"
  BY DEF Follows, Topics
<1>3. PICK req, id : req = RequestOf(c, t) /\ id = CallOf(c, t)
  OBVIOUS
<1>4. \A k \in 1..Len(L) : Names(L[k], req, id) <=> RefersTo(L[k], c)
  BY <1>3, NamesOne DEF Showing
<1>5. /\ req \in Calls \cup {NoRequest} /\ id \in {Id[d] : d \in Calls} \cup {NoRequest}
      /\ c # NoRequest /\ Id[c] # NoRequest
      /\ Id[c] \in {Id[d] : d \in Calls} \cup {NoRequest} /\ c \in Calls \cup {NoRequest}
      /\ req = IF t = "completed" THEN NoRequest ELSE c
      /\ id = IF OfApproval(t) THEN NoRequest ELSE Id[c]
  BY <1>3 DEF RecordAssumption, RequestOf, CallOf
<1>6. CASE t = "requested"
  <2>1. PICK x : x = [req |-> c, id |-> Id[c], status |-> t]
    OBVIOUS
  <2>2. x \in Item /\ x.req = c /\ x.id = Id[c] /\ x.status = t
    BY <1>2, <1>5, <2>1 DEF Item
  <2>3. About(x, c, t)
    BY <1>2, <1>5, <2>2 DEF About
  <2>4. N = Front(L, x)
    BY <1>6, <2>1 DEF Applied
  <2>5. Fronted(N, L, x)
    BY <1>1, <2>2, <2>4, FrontList
  <2>6. x.req = req /\ x.id = id
    BY <1>5, <1>6, <2>2 DEF OfApproval
  <2>7. ReplacedAt(N, N, 1, x)
    BY <2>5, LenProperties DEF Fronted, ReplacedAt
  <2>8. QED
    BY <1>4, <2>2, <2>3, <2>5, <2>6, <2>7
<1>7. CASE t # "requested" /\ \E k \in 1..Len(L) : Names(L[k], req, id)
  <2>1. PICK k \in 1..Len(L) : Names(L[k], req, id)
    BY <1>7
  <2>2. FindOrCreate(L, c, t) = L
    BY <1>1, <1>3, <1>7 DEF FindOrCreate
  <2>3. \A j \in 1..Len(L) : Names(L[j], req, id) => j = k
    BY <1>4, <2>1 DEF Showing
  <2>4. /\ k \in DOMAIN L /\ Names(L[k], req, id)
        /\ \A j \in 1..(k - 1) : ~Names(L[j], req, id)
    BY <1>1, <2>1, <2>3
  <2>5. Place(L, c, t) = k
    BY <1>1, <1>3, <2>3, <2>4 DEF Place
  <2>6. PICK x : x = [req |-> IF t = "completed" THEN L[k].req ELSE c,
                      id |-> IF OfApproval(t) THEN L[k].id ELSE Id[c], status |-> t]
    OBVIOUS
  <2>7. N = [L EXCEPT ![k] = x]
    BY <1>7, <2>2, <2>5, <2>6 DEF Applied
  <2>8. PICK d \in Calls : About(L[k], d, s[d])
    BY DEF Showing
  <2>9. d = c /\ RefersTo(L[k], c)
    BY <1>4, <2>1, <2>8, AboutOne
  <2>10. L[k].req = c /\ L[k].id \in {Id[c], NoRequest}
    BY <1>2, <2>8, <2>9 DEF About
  <2>11. L[k].id \in {Id[e] : e \in Calls} \cup {NoRequest}
    BY <2>10
  <2>12. x.req = c /\ x.id \in {Id[c], NoRequest} /\ x.status = t /\ (~OfApproval(t) => x.id = Id[c])
    BY <2>6, <2>10
  <2>13. x \in Item
    BY <1>2, <1>5, <2>6, <2>10, <2>11 DEF Item
  <2>14. About(x, c, t)
    BY <1>2, <1>5, <2>12 DEF About
  <2>15. ReplacedAt(N, L, k, x)
    BY <1>1, <2>7, <2>13, ExceptSeq DEF ReplacedAt
  <2>16. QED
    BY <2>9, <2>13, <2>14, <2>15
<1>8. CASE t # "requested" /\ ~\E k \in 1..Len(L) : Names(L[k], req, id)
  <2>1. PICK y : y = [req |-> req, id |-> id, status |-> "requested"]
    OBVIOUS
  <2>2. y \in Item /\ y.req = req /\ y.id = id
    BY <1>5, <2>1 DEF Item, Topics
  <2>3. PICK F : F = Front(L, y)
    OBVIOUS
  <2>4. FindOrCreate(L, c, t) = F
    BY <1>1, <1>3, <1>8, <2>1, <2>3 DEF FindOrCreate
  <2>5. Fronted(F, L, y)
    BY <1>1, <2>2, <2>3, FrontList
  <2>6. F \in Seq(Item) /\ Len(F) \in Nat /\ DOMAIN F = 1..Len(F) /\ 1 \in 1..Len(F) /\ F[1] = y
    BY <2>5, LenProperties DEF Fronted
  <2>7. Names(F[1], req, id)
    BY <1>5, <2>2, <2>6 DEF Names, OfApproval
  <2>8. \A j \in 2..Len(F) : ~Names(F[j], req, id)
    BY <2>2, <2>5 DEF Fronted
  <2>9. Place(F, c, t) = 1
    <3>1. \A k \in DOMAIN F : k = 1 \/ k \in 2..Len(F)
      BY <2>6
    <3>2. \A k \in DOMAIN F : /\ Names(F[k], req, id)
                              /\ \A j \in 1..(k - 1) : ~Names(F[j], req, id)
                              => k = 1
      BY <2>8, <3>1
    <3>3. 1 \in DOMAIN F /\ \A j \in 1..(1 - 1) : ~Names(F[j], req, id)
      BY <2>6
    <3>4. QED
      BY <1>3, <2>7, <3>2, <3>3 DEF Place
  <2>10. PICK x : x = [req |-> IF t = "completed" THEN y.req ELSE c,
                       id |-> IF OfApproval(t) THEN y.id ELSE Id[c], status |-> t]
    OBVIOUS
  <2>11. N = [F EXCEPT ![1] = x]
    BY <1>8, <2>4, <2>6, <2>9, <2>10 DEF Applied
  <2>12. x.req = req /\ x.id = id /\ x.status = t
    BY <1>5, <2>2, <2>10
  <2>13. x \in Item
    <3>1. x = [req |-> req, id |-> id, status |-> t]
      BY <1>5, <2>2, <2>10
    <3>2. QED
      BY <1>2, <1>5, <3>1 DEF Item
  <2>14. About(x, c, t)
    BY <1>2, <1>5, <2>12 DEF About
  <2>15. ReplacedAt(N, F, 1, x)
    BY <2>6, <2>11, <2>13, ExceptSeq DEF ReplacedAt
  <2>16. QED
    BY <1>4, <2>2, <2>5, <2>13, <2>14, <2>15
<1>9. QED
  BY <1>6, <1>7, <1>8

\* The list stays one that shows the last events when it takes in the next one of
\* a call.
LEMMA ShowingApplied ==
    ASSUME RecordAssumption, NEW s \in [Calls -> Topics], NEW L, Showing(L, s),
           NEW c \in Calls, NEW t \in Follows(s[c]), NEW N, N = Applied(L, c, t),
           NEW r, r = [s EXCEPT ![c] = t]
    PROVE  Showing(N, r)
<1>1. r[c] = t /\ \A d \in Calls : d # c => r[d] = s[d]
  OBVIOUS
<1>2. PICK x \in Item : About(x, c, t) /\
         \/ \E k \in 1..Len(L) : RefersTo(L[k], c) /\ ReplacedAt(N, L, k, x)
         \/ \E F, y : /\ Fronted(F, L, y) /\ ReplacedAt(N, F, 1, x)
                      /\ \A k \in 1..Len(L) : Names(L[k], y.req, y.id) <=> RefersTo(L[k], c)
  BY AppliedCases
<1>3. RefersTo(x, c) /\ \A d \in Calls : RefersTo(x, d) => d = c
  BY <1>2, AboutOne
<1>4. ASSUME NEW k \in 1..Len(L), ~RefersTo(L[k], c)
      PROVE  \E d \in Calls : d # c /\ About(L[k], d, r[d])
  <2>1. PICK d \in Calls : About(L[k], d, s[d])
    BY DEF Showing
  <2>2. RefersTo(L[k], d)
    BY <2>1, AboutOne
  <2>3. QED
    BY <1>1, <1>4, <2>1, <2>2
<1>5. CASE \E k \in 1..Len(L) : RefersTo(L[k], c) /\ ReplacedAt(N, L, k, x)
  <2>1. PICK k \in 1..Len(L) : RefersTo(L[k], c) /\ ReplacedAt(N, L, k, x)
    BY <1>5
  <2>2. /\ N \in Seq(Item) /\ Len(N) = Len(L) /\ N[k] = x
        /\ \A j \in 1..Len(L) : j # k => N[j] = L[j] /\ ~RefersTo(L[j], c)
    BY <2>1 DEF ReplacedAt, Showing
  <2>3. \A j \in 1..Len(N) : \E d \in Calls : About(N[j], d, r[d])
    BY <1>1, <1>2, <1>4, <2>2
  <2>4. ASSUME NEW i \in 1..Len(N), NEW j \in 1..Len(N), NEW d \in Calls,
               RefersTo(N[i], d), RefersTo(N[j], d)
        PROVE  i = j
    BY <1>3, <2>2, <2>4 DEF Showing
  <2>5. QED
    BY <2>2, <2>3, <2>4 DEF Showing
<1>6. CASE \E F, y : /\ Fronted(F, L, y) /\ ReplacedAt(N, F, 1, x)
                     /\ \A k \in 1..Len(L) : Names(L[k], y.req, y.id) <=> RefersTo(L[k], c)
  <2>1. PICK F, y : /\ Fronted(F, L, y) /\ ReplacedAt(N, F, 1, x)
                    /\ \A k \in 1..Len(L) : Names(L[k], y.req, y.id) <=> RefersTo(L[k], c)
    BY <1>6
  <2>2. PICK at \in [2..Len(F) -> 1..Len(L)] : \A i \in 2..Len(F) :
           /\ F[i] = L[at[i]] /\ ~Names(L[at[i]], y.req, y.id)
           /\ \A j \in 2..Len(F) : at[i] = at[j] => i = j
    BY <2>1 DEF Fronted
  <2>3. /\ N \in Seq(Item) /\ Len(N) = Len(F) /\ Len(F) \in 1..Limit /\ N[1] = x
        /\ \A i \in 2..Len(F) : N[i] = F[i]
    BY <2>1 DEF Fronted, ReplacedAt
  <2>4. \A i \in 1..Len(N) : i = 1 \/ i \in 2..Len(F)
    BY <2>3
  <2>5. \A i \in 2..Len(F) : N[i] = L[at[i]] /\ at[i] \in 1..Len(L) /\ ~RefersTo(N[i], c)
    BY <2>1, <2>2, <2>3
  <2>6. ASSUME NEW j \in 1..Len(N) PROVE \E d \in Calls : About(N[j], d, r[d])
    <3>1. CASE j = 1
      BY <1>1, <1>2, <2>3, <3>1
    <3>2. CASE j \in 2..Len(F)
      <4>1. PICK k \in 1..Len(L) : N[j] = L[k] /\ ~RefersTo(L[k], c)
        BY <2>5, <3>2
      <4>2. QED
        BY <1>4, <4>1
    <3>3. QED
      BY <2>4, <3>1, <3>2
  <2>7. ASSUME NEW i \in 1..Len(N), NEW j \in 1..Len(N), NEW d \in Calls,
               RefersTo(N[i], d), RefersTo(N[j], d)
        PROVE  i = j
    <3>1. CASE d = c
      BY <2>4, <2>5, <2>7, <3>1
    <3>2. CASE d # c
      <4>1. i \in 2..Len(F) /\ j \in 2..Len(F)
        BY <1>3, <2>3, <2>4, <2>7, <3>2
      <4>2. at[i] = at[j]
        BY SMTT(20), <2>5, <2>7, <4>1 DEF Showing
      <4>3. QED
        BY <2>2, <4>1, <4>2
    <3>3. QED
      BY <3>1, <3>2
  <2>8. Len(N) <= Limit
    BY <2>3, RecordAssumption DEF RecordAssumption
  <2>9. QED
    BY <2>3, <2>6, <2>7, <2>8 DEF Showing
<1>7. QED
  BY <1>2, <1>5, <1>6

\* r knows of c and of the calls s knows of.
Grown(s, c, r) ==
    /\ Known(r) = Known(s) \cup {c} /\ IsFiniteSet(Known(r))
    /\ Cardinality(Known(s)) \in Nat /\ Cardinality(Known(r)) \in Nat
    /\ Cardinality(Known(s)) <= Cardinality(Known(r))
    /\ Cardinality(Known(r) \ {c}) = Cardinality(Known(r)) - 1

\* Of calls there are finitely many, and an event only adds to those that are known.
LEMMA KnownGrows ==
    ASSUME RecordAssumption, NEW s \in [Calls -> Topics], NEW c \in Calls,
           NEW t \in Topics \ {"none"}, NEW r, r = [s EXCEPT ![c] = t]
    PROVE  Grown(s, c, r)
<1>1. Known(r) = Known(s) \cup {c}
  BY DEF Known
<1>2. IsFiniteSet(Known(r))
  <2>1. Known(r) \in SUBSET Calls /\ IsFiniteSet(Calls)
    BY DEF Known, RecordAssumption
  <2>2. QED
    BY <2>1, FS_Subset
<1>3. IsFiniteSet(Known(s)) /\ Cardinality(Known(s)) <= Cardinality(Known(r))
  <2>1. Known(s) \in SUBSET Known(r)
    BY <1>1
  <2>2. QED
    BY <1>2, <2>1, FS_Subset
<1>4. Cardinality(Known(s)) \in Nat /\ Cardinality(Known(r)) \in Nat
  BY <1>2, <1>3, FS_CardinalityType
<1>5. Cardinality(Known(r) \ {c}) = Cardinality(Known(r)) - 1
  <2>1. c \in Known(r)
    BY <1>1
  <2>2. QED
    BY <1>2, <2>1, FS_RemoveElement
<1>6. QED
  BY <1>1, <1>2, <1>3, <1>4, <1>5 DEF Grown

\* Where the limit has room for all known calls, an event drops none of them:
\* those that stay and fill the limit would be calls other than the event's.
LEMMA ShowsAllApplied ==
    ASSUME RecordAssumption, NEW s \in [Calls -> Topics], NEW L, Showing(L, s),
           NEW c \in Calls, NEW t \in Follows(s[c]), NEW N, N = Applied(L, c, t),
           NEW r, r = [s EXCEPT ![c] = t],
           ShowsAll(L, s), Cardinality(Known(r)) <= Limit
    PROVE  ShowsAll(N, r)
<1>1. t \in Topics \ {"none"}
  BY DEF Follows, Topics
<1>2. /\ Known(r) = Known(s) \cup {c} /\ IsFiniteSet(Known(r))
      /\ Cardinality(Known(r)) \in Nat
      /\ Cardinality(Known(r) \ {c}) = Cardinality(Known(r)) - 1
  <2>1. Grown(s, c, r)
    BY <1>1, KnownGrows
  <2>2. QED
    BY <2>1 DEF Grown
<1>3. PICK x \in Item : About(x, c, t) /\
         \/ \E k \in 1..Len(L) : RefersTo(L[k], c) /\ ReplacedAt(N, L, k, x)
         \/ \E F, y : /\ Fronted(F, L, y) /\ ReplacedAt(N, F, 1, x)
                      /\ \A k \in 1..Len(L) : Names(L[k], y.req, y.id) <=> RefersTo(L[k], c)
  BY AppliedCases
<1>4. RefersTo(x, c)
  BY <1>3, AboutOne
<1>5. \A k \in 1..Len(L) : \E d \in Known(s) : RefersTo(L[k], d) /\ \A e \in Calls : RefersTo(L[k], e) => e = d
  <2>1. TAKE k \in 1..Len(L)
  <2>2. PICK d \in Calls : About(L[k], d, s[d])
    BY DEF Showing
  <2>3. d \in Known(s)
    BY <2>2 DEF About, Known
  <2>4. QED
    BY <2>2, <2>3, AboutOne
<1>6. \A d \in Known(r) \ {c} : d \in Calls /\ \E k \in 1..Len(L) : RefersTo(L[k], d) /\ ~RefersTo(L[k], c)
  BY <1>2, <1>5 DEF ShowsAll, Known
<1>7. CASE \E k \in 1..Len(L) : RefersTo(L[k], c) /\ ReplacedAt(N, L, k, x)
  <2>1. PICK k \in 1..Len(L) : RefersTo(L[k], c) /\ ReplacedAt(N, L, k, x)
    BY <1>7
  <2>2. /\ Len(N) = Len(L) /\ N[k] = x
        /\ \A j \in 1..Len(L) : j # k => N[j] = L[j]
    BY <2>1 DEF ReplacedAt
  <2>3. ASSUME NEW d \in Known(r) PROVE \E j \in 1..Len(N) : RefersTo(N[j], d)
    <3>1. CASE d = c
      BY <1>4, <2>1, <2>2, <3>1
    <3>2. CASE d # c
      <4>1. PICK j \in 1..Len(L) : RefersTo(L[j], d) /\ ~RefersTo(L[j], c)
        BY <1>6, <3>2
      <4>2. QED
        BY <2>1, <2>2, <4>1
    <3>3. QED
      BY <3>1, <3>2
  <2>4. QED
    BY <2>3 DEF ShowsAll
<1>8. CASE \E F, y : /\ Fronted(F, L, y) /\ ReplacedAt(N, F, 1, x)
                     /\ \A k \in 1..Len(L) : Names(L[k], y.req, y.id) <=> RefersTo(L[k], c)
  <2>1. PICK F, y : /\ Fronted(F, L, y) /\ ReplacedAt(N, F, 1, x)
                    /\ \A k \in 1..Len(L) : Names(L[k], y.req, y.id) <=> RefersTo(L[k], c)
    BY <1>8
  <2>2. /\ Len(N) = Len(F) /\ 1 \in 1..Len(F) /\ Len(F) \in Nat /\ N[1] = x
        /\ \A i \in 2..Len(F) : N[i] = F[i] /\ i \in 1..Len(N)
    BY <2>1 DEF Fronted, ReplacedAt
  <2>3. CASE \A k \in 1..Len(L) : ~Names(L[k], y.req, y.id) => \E i \in 2..Len(F) : F[i] = L[k]
    <3>1. ASSUME NEW d \in Known(r) PROVE \E k \in 1..Len(N) : RefersTo(N[k], d)
      <4>1. CASE d = c
        BY <1>4, <2>2, <4>1
      <4>2. CASE d # c
        <5>1. PICK k \in 1..Len(L) : RefersTo(L[k], d) /\ ~RefersTo(L[k], c)
          BY <1>6, <4>2
        <5>2. PICK i \in 2..Len(F) : F[i] = L[k]
          BY <2>1, <2>3, <5>1
        <5>3. QED
          BY <2>2, <5>1, <5>2
      <4>3. QED
        BY <4>1, <4>2
    <3>2. QED
      BY <3>1 DEF ShowsAll
  <2>4. CASE \E at \in [1..Limit -> 1..Len(L)] : \A i \in 1..Limit :
                /\ ~Names(L[at[i]], y.req, y.id)
                /\ \A j \in 1..Limit : at[i] = at[j] => i = j
    <3>1. PICK at \in [1..Limit -> 1..Len(L)] : \A i \in 1..Limit :
             /\ ~Names(L[at[i]], y.req, y.id)
             /\ \A j \in 1..Limit : at[i] = at[j] => i = j
      BY <2>4
    <3>2. PICK of : of = [i \in 1..Limit |-> CHOOSE d \in Known(s) : RefersTo(L[at[i]], d)]
      OBVIOUS
    <3>3. ASSUME NEW i \in 1..Limit
          PROVE  /\ of[i] \in Known(r) \ {c} /\ of[i] \in Calls /\ RefersTo(L[at[i]], of[i])
                 /\ at[i] \in 1..Len(L)
      <4>1. PICK k \in 1..Len(L) : k = at[i]
        BY <3>1
      <4>2. \E d \in Known(s) : RefersTo(L[k], d)
        BY <1>5
      <4>3. of[i] = CHOOSE d \in Known(s) : RefersTo(L[k], d)
        BY <3>2, <4>1
      <4>4. of[i] \in Known(s) /\ RefersTo(L[k], of[i])
        BY <4>2, <4>3
      <4>5. of[i] # c
        BY <2>1, <3>1, <4>1, <4>4
      <4>6. QED
        BY <1>2, <4>1, <4>4, <4>5 DEF Known
    <3>4. ASSUME NEW i \in 1..Limit, NEW j \in 1..Limit, of[i] = of[j] PROVE i = j
      <4>1. PICK k, m, d : k = at[i] /\ m = at[j] /\ d = of[i]
        OBVIOUS
      <4>2. /\ k \in 1..Len(L) /\ m \in 1..Len(L) /\ d \in Calls
            /\ RefersTo(L[k], d) /\ RefersTo(L[m], d)
        BY <3>3, <3>4, <4>1
      <4>3. k = m
        BY <4>2 DEF Showing
      <4>4. QED
        BY <3>1, <4>1, <4>3
    <3>5. PICK S, T : S = 1..Limit /\ T = Known(r) \ {c}
      OBVIOUS
    <3>6. of \in Injection(S, T)
      <4>1. of = [i \in S |-> of[i]]
        BY <3>2, <3>5
      <4>2. \A i \in S : of[i] \in T
        BY <3>3, <3>5
      <4>3. of \in [S -> T]
        BY <4>1, <4>2
      <4>4. QED
        BY <3>4, <3>5, <4>3 DEF Injection, IsInjective
    <3>7. Limit \in Nat \ {0} /\ Cardinality(S) = Limit
      <4>1. Limit \in Nat \ {0}
        BY DEF RecordAssumption
      <4>2. Cardinality(1..Limit) = Limit
        BY <4>1, FS_Interval
      <4>3. QED
        BY <3>5, <4>1, <4>2
    <3>8. IsFiniteSet(T) /\ Cardinality(T) = Cardinality(Known(r)) - 1
      <4>1. T \in SUBSET Known(r)
        BY <3>5
      <4>2. QED
        BY <1>2, <3>5, <4>1, FS_Subset
    <3>9. Cardinality(S) <= Cardinality(T)
      BY <3>6, <3>8, FS_Injection
    <3>10. PICK n : n = Cardinality(Known(r))
      OBVIOUS
    <3>11. n \in Nat /\ n <= Limit /\ Limit <= n - 1
      BY <1>2, <3>7, <3>8, <3>9, <3>10
    <3>12. QED
      BY <3>7, <3>11
  <2>5. QED
    BY <2>1, <2>3, <2>4 DEF Fronted
<1>9. QED
  BY <1>3, <1>7, <1>8

\* What the list has taken in of each call: all that is published, but for an event
\* whose handler is still to run or was cancelled.
Watched ==
    /\ \A c \in Calls : "activity" \in todo[c] => topic[c] \in Follows(seen[c])
    /\ \A c \in Calls : "activity" \notin todo[c] /\ ~Cancelled => seen[c] = topic[c]
    /\ surviving \subseteq Calls
    /\ \A c \in surviving : /\ topic[c] \in {"started", "finished"} /\ Cancelled
                            /\ topic[c] = "started" => seen[c] = "started"

Activity ==
    /\ seen \in [Calls -> Topics] /\ starts \in 0..MaxStarts
    /\ Showing(items, seen)
    /\ starts = 0 /\ Cardinality(Known(seen)) <= Limit => ShowsAll(items, seen)

\* At first nothing is shown and nothing is known.
LEMMA ActivityInit == RecordAssumption /\ Init => Watched /\ Activity
<1> SUFFICES ASSUME RecordAssumption, Init PROVE Watched /\ Activity
  OBVIOUS
<1>1. items \in Seq(Item) /\ Len(items) = 0
  BY EmptySeq DEF Init
<1>2. Limit \in Nat /\ MaxStarts \in Nat /\ 0 \in 0..MaxStarts /\ 0 <= Limit
  BY DEF RecordAssumption
<1>3. Showing(items, seen)
  <2>1. 1..Len(items) = {} /\ Len(items) <= Limit
    BY <1>1, <1>2
  <2>2. QED
    BY <1>1, <2>1 DEF Showing
<1>4. ShowsAll(items, seen)
  BY DEF Init, ShowsAll, Known
<1>5. Watched
  BY DEF Init, Watched
<1>6. seen \in [Calls -> Topics]
  BY DEF Init, Topics
<1>7. starts \in 0..MaxStarts
  BY <1>2 DEF Init
<1>8. QED
  BY <1>3, <1>4, <1>5, <1>6, <1>7 DEF Activity

\* The calls stay watched: an event is published when the list has the one before
\* it, also by a call that outlives its run's cancellation.
LEMMA WatchedNext ==
    ASSUME RecordAssumption, Rows, seen \in [Calls -> Topics], Watched, [Next]_vars
    PROVE  Watched'
<1>1. ASSUME UNCHANGED <<todo, topic, seen, surviving>>, Cancelled' <=> Cancelled PROVE Watched'
  BY <1>1 DEF Watched
<1>2. ASSUME NEW c \in Calls, NEW t \in Topics, Publish(c, t) PROVE Watched'
  <2>1. /\ \A d \in Calls : d # c => topic'[d] = topic[d] /\ todo'[d] = todo[d]
        /\ topic'[c] = t /\ "activity" \in todo'[c] /\ todo[c] = {}
        /\ UNCHANGED <<phase, seen, surviving>> /\ t \in Follows(topic[c]) /\ Turn(c, t)
        /\ topic[c] \in Topics
    <3>1. /\ topic \in [Calls -> Topics] /\ todo \in [Calls -> SUBSET {"activity", "get", "update"}]
          /\ topic' = [topic EXCEPT ![c] = t] /\ todo' = [todo EXCEPT ![c] = Handlers(t)]
      BY <1>2 DEF Publish, Rows, RecordTypes
    <3>2. "activity" \in Handlers(t)
      BY DEF Handlers
    <3>3. /\ todo[c] = {} /\ t \in Follows(topic[c]) /\ Turn(c, t)
          /\ UNCHANGED <<phase, seen, surviving>>
      BY <1>2 DEF Publish, MayFollow, Quiet, activity
    <3>4. QED
      BY <3>1, <3>2, <3>3
  <2>2. CASE Cancelled
    <3>1. c \in surviving /\ t = "finished"
      BY <2>1, <2>2 DEF Turn, Cancelled
    <3>2. topic[c] = "started" /\ seen[c] = "started"
      BY <2>1, <3>1 DEF Watched, Follows
    <3>3. t \in Follows(seen[c])
      BY <2>1, <3>2
    <3>4. QED
      BY <2>1, <2>2, <3>1, <3>3 DEF Watched, Cancelled
  <2>3. CASE ~Cancelled
    <3>1. seen[c] = topic[c] /\ surviving = {}
      BY <2>1, <2>3 DEF Watched
    <3>2. QED
      BY <2>1, <2>3, <3>1 DEF Watched, Cancelled
  <2>4. QED
    BY <2>2, <2>3
<1>3. CASE ExecuteBatch \/ TakeResults \/ (\E s \in Outcomes : Finish(s))
  <2>1. ~Cancelled /\ ~Cancelled' /\ UNCHANGED <<bus, seen>>
    BY <1>3 DEF ExecuteBatch, TakeResults, Finish, Cancelled, activity
  <2>2. QED
    BY <1>1, <2>1 DEF bus
<1>4. CASE Cancel
  <2>1. /\ ~Cancelled /\ Cancelled' /\ UNCHANGED <<topic, seen>>
        /\ surviving' = {c \in Calls : InTool(c)} /\ \A c \in Calls : todo'[c] = {}
    BY <1>4 DEF Cancel, Cancelled, activity
  <2>2. \A c \in surviving' : c \in Calls /\ topic[c] = "started" /\ todo[c] = {}
    BY <2>1 DEF InTool, Published, Quiet
  <2>3. \A c \in surviving' : seen[c] = "started"
    BY <2>1, <2>2 DEF Watched
  <2>4. QED
    BY <2>1, <2>2, <2>3 DEF Watched
<1>5. CASE Abort
  <2>1. Cancelled /\ Cancelled' /\ UNCHANGED <<bus, seen>>
    BY <1>5 DEF Abort, Cancelled, activity
  <2>2. QED
    BY <1>1, <2>1 DEF bus
<1>6. ASSUME NEW c \in Calls, RecordActivity(c) PROVE Watched'
  <2>1. /\ "activity" \in todo[c] /\ UNCHANGED <<phase, topic, surviving>>
        /\ seen'[c] = topic[c] /\ "activity" \notin todo'[c]
        /\ \A d \in Calls : d # c => seen'[d] = seen[d] /\ todo'[d] = todo[d]
    BY <1>6 DEF RecordActivity, Rows, RecordTypes
  <2>2. QED
    BY <2>1 DEF Watched, Cancelled
<1>7. ASSUME NEW c \in Calls, GetRun(c) \/ UpdateReferences(c) PROVE Watched'
  <2>1. /\ UNCHANGED <<phase, topic, surviving, seen>>
        /\ \A d \in Calls : "activity" \in todo'[d] <=> "activity" \in todo[d]
    <3>1. todo \in [Calls -> SUBSET {"activity", "get", "update"}]
      BY DEF Rows, RecordTypes
    <3>2. CASE GetRun(c)
      BY <3>1, <3>2 DEF GetRun, activity
    <3>3. CASE UpdateReferences(c)
      BY <3>1, <3>3 DEF UpdateReferences, activity
    <3>4. QED
      BY <1>7, <3>2, <3>3
  <2>2. QED
    BY <2>1 DEF Watched, Cancelled
<1>8. CASE \/ \E row \in late : Land(row)
           \/ UpdateChecklist \/ \E running \in BOOLEAN : UpdateVerification(running)
           \/ OtherRunStarts \/ UNCHANGED vars
  <2>1. UNCHANGED <<phase, bus, seen>>
    BY <1>8 DEF Land, UpdateChecklist, UpdateVerification, Edit, OtherRunStarts, vars, activity
  <2>2. QED
    BY <1>1, <2>1 DEF bus, Cancelled
<1>9. QED
  BY <1>2, <1>3, <1>4, <1>5, <1>6, <1>7, <1>8 DEF Next

\* The list stays what it is, is emptied, or takes in the event that follows.
LEMMA ActivityNext ==
    ASSUME RecordAssumption, Rows, Watched, Activity, [Next]_vars
    PROVE  Activity'
<1>1. ASSUME UNCHANGED <<items, seen, starts>> PROVE Activity'
  BY <1>1 DEF Activity
<1>2. ASSUME NEW c \in Calls, RecordActivity(c) PROVE Activity'
  <2>1. PICK s, L, N, r, t : s = seen /\ L = items /\ N = items' /\ r = seen' /\ t = topic[c]
    OBVIOUS
  <2>2. /\ N = Applied(L, c, t) /\ r = [s EXCEPT ![c] = t] /\ t \in Topics
        /\ starts' = starts /\ t \in Follows(s[c])
    BY <1>2, <2>1 DEF RecordActivity, Watched, Rows, RecordTypes
  <2>3. s \in [Calls -> Topics] /\ Showing(L, s)
        /\ (starts = 0 /\ Cardinality(Known(s)) <= Limit => ShowsAll(L, s))
    BY <2>1 DEF Activity
  <2>4. Showing(N, r)
    BY <2>2, <2>3, ShowingApplied
  <2>5. r \in [Calls -> Topics]
    BY <2>2, <2>3
  <2>6. ASSUME starts = 0, Cardinality(Known(r)) <= Limit PROVE ShowsAll(N, r)
    <3>1. t \in Topics \ {"none"}
      BY <2>2, <2>3 DEF Follows, Topics
    <3>2. Grown(s, c, r)
      BY <2>2, <2>3, <3>1, KnownGrows
    <3>3. Cardinality(Known(s)) <= Limit
      <4>1. PICK m, n : m = Cardinality(Known(s)) /\ n = Cardinality(Known(r))
        OBVIOUS
      <4>2. m \in Nat /\ n \in Nat /\ m <= n /\ n <= Limit /\ Limit \in Nat
        BY <2>6, <3>2, <4>1 DEF Grown, RecordAssumption
      <4>3. QED
        BY <4>1, <4>2
    <3>4. QED
      BY <2>2, <2>3, <2>6, <3>3, ShowsAllApplied
  <2>7. QED
    BY <2>1, <2>2, <2>4, <2>5, <2>6 DEF Activity
<1>3. CASE OtherRunStarts
  <2>1. items' \in Seq(Item) /\ Len(items') = 0 /\ seen' = seen
    BY <1>3, EmptySeq DEF OtherRunStarts
  <2>2. starts' \in 0..MaxStarts /\ starts' # 0
    BY <1>3 DEF OtherRunStarts, Activity, RecordAssumption
  <2>3. Showing(items', seen')
    <3>1. 1..Len(items') = {} /\ Len(items') <= Limit
      BY <2>1 DEF RecordAssumption
    <3>2. QED
      BY <2>1, <3>1 DEF Showing
  <2>4. QED
    BY <2>1, <2>2, <2>3 DEF Activity
<1>4. CASE \/ \E c \in Calls, t \in Topics : Publish(c, t)
           \/ ExecuteBatch \/ TakeResults \/ (\E s \in Outcomes : Finish(s)) \/ Cancel \/ Abort
  BY <1>1, <1>4 DEF Publish, ExecuteBatch, TakeResults, Finish, Cancel, Abort, activity
<1>5. CASE \/ \E row \in late : Land(row)
           \/ \E c \in Calls : GetRun(c) \/ UpdateReferences(c)
           \/ UpdateChecklist \/ (\E running \in BOOLEAN : UpdateVerification(running))
           \/ UNCHANGED vars
  BY <1>1, <1>5 DEF Land, GetRun, UpdateReferences, UpdateChecklist, UpdateVerification, Edit,
                    activity, vars
<1>6. QED
  BY <1>2, <1>3, <1>4, <1>5 DEF Next

\* The list shows what it has taken in, in every state.
LEMMA ActivityHolds == Spec => [](Watched /\ Activity)
<1>1. Init => Watched /\ Activity
  BY ActivityInit, RecordAssumption
<1>2. Rows /\ Watched /\ Activity /\ [Next]_vars => (Watched /\ Activity)'
  <2>1. SUFFICES ASSUME Rows, Watched, Activity, [Next]_vars PROVE Watched' /\ Activity'
    OBVIOUS
  <2>2. seen \in [Calls -> Topics]
    BY <2>1 DEF Activity
  <2>3. QED
    BY <2>1, <2>2, WatchedNext, ActivityNext, RecordAssumption
<1>3. QED
  BY <1>1, <1>2, RowsHold, PTL DEF Spec

\* The activity list has each call once, with the last event it has taken in, and
\* has all calls while they fit and no other run starts.
THEOREM ActivityFaithful == Spec => []ActivityIsFaithful
<1>1. Activity => ActivityIsFaithful
  <2>1. SUFFICES ASSUME Activity PROVE ActivityIsFaithful
    OBVIOUS
  <2>2. PICK L, s : L = items /\ s = seen
    OBVIOUS
  <2>3. /\ Showing(L, s) /\ DOMAIN L = 1..Len(L) /\ Len(L) <= Limit
        /\ starts = 0 /\ Cardinality(Known(s)) <= Limit => ShowsAll(L, s)
    BY <2>1, <2>2, LenProperties DEF Activity, Showing
  <2>4. ASSUME NEW j \in 1..Len(L), NEW k \in 1..Len(L), j # k
        PROVE  L[j].id # L[k].id \/ (L[j].id = NoRequest /\ L[j].req # L[k].req)
    <3>1. SUFFICES ASSUME L[j].id = L[k].id
                   PROVE  L[j].id = NoRequest /\ L[j].req # L[k].req
      OBVIOUS
    <3>2. PICK c \in Calls : About(L[j], c, s[c])
      BY <2>3 DEF Showing
    <3>3. RefersTo(L[j], c) /\ ~RefersTo(L[k], c)
      BY <2>3, <2>4, <3>2, AboutOne, RecordAssumption DEF Showing
    <3>4. L[j].id # Id[c]
      BY <3>1, <3>3 DEF RefersTo
    <3>5. L[j].id = NoRequest /\ L[j].req = c
      BY <3>2, <3>3, <3>4 DEF About, RefersTo
    <3>6. QED
      BY <3>3, <3>5 DEF RefersTo
  <2>5. ASSUME NEW k \in 1..Len(L), NEW c \in Calls, RefersTo(L[k], c)
        PROVE  L[k].status = s[c]
    <3>1. PICK d \in Calls : About(L[k], d, s[d])
      BY <2>3 DEF Showing
    <3>2. d = c
      BY <2>5, <3>1, AboutOne, RecordAssumption
    <3>3. QED
      BY <3>1, <3>2 DEF About
  <2>6. starts = 0 /\ Cardinality({c \in Calls : s[c] # "none"}) <= Limit =>
           \A c \in {d \in Calls : s[d] # "none"} : \E k \in DOMAIN L : RefersTo(L[k], c)
    BY <2>3 DEF ShowsAll, Known
  <2>7. QED
    BY <2>2, <2>3, <2>4, <2>5, <2>6 DEF ActivityIsFaithful
<1>2. QED
  BY <1>1, ActivityHolds, PTL

\* Clients' edits stay within their bound, and handlers hold records.
EditTypes == edits \in [Edits -> 0..MaxEdits]
HeldTypes == held \in [Calls -> Record]

\* The edits of clients stay within their bound.
LEMMA EditsBounded == Spec => []EditTypes
<1>1. Init => EditTypes
  BY RecordAssumption DEF Init, NoEdit, RecordAssumption, EditTypes
<1>2. EditTypes /\ [Next]_vars => EditTypes'
  <2> SUFFICES ASSUME EditTypes, [Next]_vars PROVE EditTypes'
    OBVIOUS
  <2>1. ASSUME NEW e \in Edits, Edit(e) PROVE EditTypes'
    <3>1. /\ "checklist" \in Edits /\ "verification" \in Edits
          /\ \A f \in Edits : f = "checklist" \/ f = "verification"
      BY DEF Edits
    <3>2. MaxEdits \in Nat /\ edits["checklist"] \in 0..MaxEdits /\ edits["verification"] \in 0..MaxEdits
      BY <3>1, RecordAssumption DEF RecordAssumption, EditTypes
    <3>3. edits[e] + 1 \in 0..MaxEdits
      <4>1. edits["checklist"] + edits["verification"] < MaxEdits
        BY <2>1 DEF Edit
      <4>2. edits["checklist"] + 1 \in 0..MaxEdits /\ edits["verification"] + 1 \in 0..MaxEdits
        BY <3>2, <4>1
      <4>3. QED
        BY <3>1, <4>2
    <3>4. edits' = [edits EXCEPT ![e] = edits[e] + 1]
      BY <2>1 DEF Edit
    <3>5. QED
      BY <3>3, <3>4 DEF EditTypes
  <2>2. CASE UpdateChecklist \/ \E running \in BOOLEAN : UpdateVerification(running)
    BY <2>1, <2>2 DEF UpdateChecklist, UpdateVerification, Edits
  <2>3. CASE UNCHANGED edits
    BY <2>3 DEF EditTypes
  <2>4. QED
    BY <2>2, <2>3 DEF Next, Publish, ExecuteBatch, TakeResults, Finish, Cancel, Abort, Land,
                            RecordActivity, GetRun, UpdateReferences, OtherRunStarts, vars
<1>3. QED
  BY <1>1, <1>2, PTL DEF Spec

\* What handlers hold between their steps are records.
LEMMA HeldAreRecords == Spec => []HeldTypes
<1>1. Init => HeldTypes
  BY FreshRow DEF Init, HeldTypes, Row
<1>2. Rows /\ HeldTypes /\ [Next]_vars => HeldTypes'
  <2> SUFFICES ASSUME Rows, HeldTypes, [Next]_vars PROVE HeldTypes'
    OBVIOUS
  <2>1. record \in Record /\ Fresh \in Record
    BY FreshRow DEF Rows, Row
  <2>2. CASE Cancel
    BY <2>1, <2>2 DEF Cancel, HeldTypes
  <2>3. ASSUME NEW c \in Calls, GetRun(c) \/ UpdateReferences(c) PROVE HeldTypes'
    <3>1. held' = [held EXCEPT ![c] = record] \/ held' = [held EXCEPT ![c] = Fresh]
      BY <2>3 DEF GetRun, UpdateReferences
    <3>2. QED
      BY <2>1, <3>1 DEF HeldTypes
  <2>4. CASE UNCHANGED held
    BY <2>4 DEF HeldTypes
  <2>5. QED
    BY <2>2, <2>3, <2>4 DEF Next, Publish, ExecuteBatch, TakeResults, Finish, Abort, Land,
        RecordActivity, UpdateChecklist, UpdateVerification, Edit, OtherRunStarts, vars, bus
<1>3. QED
  BY <1>1, <1>2, RowsHold, PTL DEF Spec

\* The state has its types, the record's and the list's fields included.
THEOREM RecordTypeCorrect == Spec => []TypeOK
<1>1. Rows /\ Watched /\ Activity /\ EditTypes /\ HeldTypes => TypeOK
  <2>1. SUFFICES ASSUME Rows, Watched, Activity, EditTypes, HeldTypes PROVE TypeOK
    OBVIOUS
  <2>2. mode \in Modes /\ phase \in Phases /\ topic \in [Calls -> Topics]
        /\ todo \in [Calls -> SUBSET {"activity", "get", "update"}]
    BY <2>1 DEF Rows, RecordTypes
  <2>3. record \in Record /\ late \subseteq Record
    BY <2>1 DEF Rows, Row
  <2>4. seen \in [Calls -> Topics] /\ starts \in 0..MaxStarts /\ items \in Seq(Item)
    BY <2>1 DEF Activity, Showing
  <2>5. surviving \subseteq Calls
    BY <2>1 DEF Watched
  <2>6. QED
    BY <2>1, <2>2, <2>3, <2>4, <2>5 DEF TypeOK, EditTypes, HeldTypes
<1>2. QED
  BY <1>1, RowsHold, ActivityHolds, EditsBounded, HeldAreRecords, PTL
================================================================================

----------------------------- MODULE ContextWindow -----------------------------
(***************************************************************************)
(* What of a conversation and of the tool registry a model is sent:        *)
(* context_window.ContextWindowPolicy, over the log the run loop writes.   *)
(*                                                                         *)
(* A text is its length.  The calls of an assistant message are a length   *)
(* as they are and a length with their arguments summarised, which may be  *)
(* the longer one; where they are cut they are all cut.                    *)
(***************************************************************************)
EXTENDS Integers, Sequences

CONSTANTS
    MaxMessages, MaxChars, MaxMessage, \* of the history, and of one message
    MaxTools, MaxSpec, MaxCatalog,     \* of the tool catalog, and of one tool
    MaxOutput,          \* max_tool_output_chars
    Marker, OutputMark, \* lengths of the two truncation markers
    Texts,              \* lengths of what users and models write
    CallTexts,          \* lengths of the calls of one message: <<as they are, summarised>>
    Outputs,            \* lengths of what tools return
    Catalogs,           \* tool registries: the length of each specification
    MaxBatch, MaxLog    \* bounds: calls in a message, messages in the log

\* What load_settings lets pass, with its minimum of 256 as one above the markers.
Accepted ==
    /\ MaxMessages >= 4
    /\ Marker < MaxMessage /\ MaxMessage <= MaxChars
    /\ OutputMark < MaxOutput
    /\ MaxTools >= 1
    /\ Marker < MaxSpec /\ MaxSpec <= MaxCatalog

ASSUME ContextAssumption ==
    /\ {MaxMessages, MaxChars, MaxMessage, MaxTools, MaxSpec, MaxCatalog, MaxOutput,
        Marker, OutputMark, MaxLog} \subseteq Nat
    /\ Accepted
    /\ Texts \subseteq Nat /\ Outputs \subseteq Nat /\ CallTexts \subseteq Nat \X Nat
    /\ Catalogs \subseteq Seq(Nat)
    /\ MaxBatch \in Nat \ {0}

VARIABLES
    log,     \* the messages of a conversation
    owed,    \* results the run in progress still owes the last assistant message
    catalog  \* the registered tools

vars == <<log, owed, catalog>>

---------------------------------------------------------------------------
(* Messages.  at: the place in the log; of: the place of the message whose   *)
(* call a result answers.                                                  *)

Message(role, content, calls, of) ==
    [at |-> Len(log) + 1, role |-> role, content |-> content,
     calls |-> calls[1], summary |-> calls[2], of |-> of]

NoCalls == <<0, 0>>

Least(a, b) == IF a <= b THEN a ELSE b
Greatest(a, b) == IF a >= b THEN a ELSE b

Chars(messages) ==
    LET chars[n \in 0..Len(messages)] ==
          IF n = 0 THEN 0 ELSE chars[n - 1] + messages[n].content + messages[n].calls
    IN chars[Len(messages)]

---------------------------------------------------------------------------
(* ContextWindowPolicy *)

\* A cut text has exactly the limit's length, marker included, where there is
\* room for the marker.
Truncated(content, limit) == IF content <= limit THEN content ELSE limit

\* Calls that take more than half of the limit are summarised; the text gets
\* what they leave.
BoundMessage(m, limit) ==
    LET calls == IF m.calls > limit \div 2 THEN m.summary ELSE m.calls
    IN [m EXCEPT !.calls = calls, !.content = Truncated(m.content, Greatest(0, limit - calls))]

BoundEach(turn, limit) == [i \in DOMAIN turn |-> BoundMessage(turn[i], limit)]

\* A turn starts with a user's message.
AddToTurns(turns, m) ==
    IF m.role = "user" \/ turns = <<>>
    THEN Append(turns, <<m>>)
    ELSE [turns EXCEPT ![Len(turns)] = Append(@, m)]

Turns(history) ==
    LET turns[n \in 0..Len(history)] ==
          IF n = 0 THEN <<>> ELSE AddToTurns(turns[n - 1], history[n])
    IN turns[Len(history)]

AnchoredSlip(turn, room) ==
    IF Len(turn) > room THEN SubSeq(turn, Len(turn) - room + 1, Len(turn)) ELSE turn

\* A latest turn with too many messages is cut to the user's: a partial tool
\* exchange would be refused.
Anchored(turn, room) == IF Len(turn) > room THEN <<turn[1]>> ELSE turn

FitLatestSlip(turn, limit, room) == BoundEach(turn, limit)

\* The latest turn is cut, cut again by its overflow, and at last to the user's
\* message.
FitLatest(turn, limit, room) ==
    LET first == BoundEach(turn, limit)
        overflow == (Chars(first) - room + Len(turn) - 1) \div Len(turn)
        second == BoundEach(turn, Greatest(1, limit - overflow))
    IN CASE Chars(first) <= room  -> first
         [] Chars(first) > room /\ Chars(second) <= room -> second
         [] OTHER -> <<BoundMessage(turn[1], room)>>

BoundLatest(turn, room) ==
    FitLatest(turn, Least(MaxMessage, Greatest(1, room \div Len(turn))), room)

\* One turn, from the latest backwards: an earlier turn is taken whole, each
\* message cut on its own, or not at all, and nothing before it then.
TakeTurn(acc, turn) ==
    LET latest == acc.kept = <<>>
        bounded == IF latest THEN BoundLatest(Anchored(turn, acc.messages), acc.chars)
                             ELSE BoundEach(turn, MaxMessage)
        fits == acc.messages > 0 /\ acc.chars > 0
                /\ (latest \/ (Len(turn) <= acc.messages /\ Chars(bounded) <= acc.chars))
    IN IF acc.open /\ fits
       THEN [kept |-> bounded \o acc.kept,
             messages |-> acc.messages - Len(bounded),
             chars |-> acc.chars - Least(Chars(bounded), acc.chars),
             open |-> TRUE]
       ELSE [acc EXCEPT !.open = FALSE]

Untaken == [kept |-> <<>>, messages |-> MaxMessages, chars |-> MaxChars, open |-> TRUE]

TakeTurns(turns) ==
    LET taken[n \in 0..Len(turns)] ==
          IF n = 0 THEN Untaken ELSE TakeTurn(taken[n - 1], turns[Len(turns) - n + 1])
    IN taken[Len(turns)]

BoundHistory(history) == TakeTurns(Turns(history)).kept

\* Tools that are too long, or do not fit any more, are passed over.
TakeTool(acc, spec) ==
    IF spec <= MaxSpec /\ acc.used + spec <= MaxCatalog /\ Len(acc.selected) < MaxTools
    THEN [selected |-> Append(acc.selected, spec), used |-> acc.used + spec]
    ELSE acc

BoundTools(specs) ==
    LET taken[n \in 0..Len(specs)] ==
          IF n = 0 THEN [selected |-> <<>>, used |-> 0] ELSE TakeTool(taken[n - 1], specs[n])
    IN taken[Len(specs)].selected

ToolOutput(length) == IF length <= MaxOutput THEN length ELSE MaxOutput

---------------------------------------------------------------------------
(* The log, as the run loop writes it *)

Init == log = <<>> /\ owed = 0 /\ catalog \in Catalogs

Write(m) == Len(log) < MaxLog /\ log' = Append(log, m) /\ UNCHANGED catalog

\* A run begins, whatever the one before it has left unanswered.
UserSends(n) == Write(Message("user", n, NoCalls, 0)) /\ owed' = 0

ModelAnswers(n, calls) ==
    /\ log # <<>> /\ owed = 0
    /\ log[Len(log)].role = "user" \/ log[Len(log)].role = "tool"
    /\ Write(Message("assistant", n, calls, 0))
    /\ IF calls = NoCalls THEN owed' = 0 ELSE owed' \in 1..MaxBatch

LastAssistant == CHOOSE i \in DOMAIN log :
    log[i].role = "assistant" /\ \A j \in (i + 1)..Len(log) : log[j].role # "assistant"

ResultArrives(n) ==
    /\ owed > 0
    /\ Write(Message("tool", ToolOutput(n), NoCalls, LastAssistant))
    /\ owed' = owed - 1

Next ==
    \/ \E n \in Texts : UserSends(n)
    \/ \E n \in Texts \cup {0}, calls \in CallTexts \cup {NoCalls} : ModelAnswers(n, calls)
    \/ \E n \in Outputs : ResultArrives(n)

Spec == Init /\ [][Next]_vars

---------------------------------------------------------------------------
(* Properties *)

Sent == BoundHistory(log)

Total(lengths) ==
    LET total[n \in 0..Len(lengths)] == IF n = 0 THEN 0 ELSE total[n - 1] + lengths[n]
    IN total[Len(lengths)]

\* What a model is sent fits the budgets: messages and characters of the
\* history, tools and characters of the catalog, whatever the turns and their
\* calls weigh (ContextWindowPolicy.bound_history, bound_tools).
BudgetsHold ==
    LET sent == Sent  tools == BoundTools(catalog)
        used == Total(tools)
    IN /\ Len(sent) <= MaxMessages /\ Chars(sent) <= MaxChars
       /\ Len(tools) <= MaxTools /\ used <= MaxCatalog
       /\ \A i \in DOMAIN tools : tools[i] <= MaxSpec
       \* and a tool is left out for a reason
       /\ Len(tools) < MaxTools => \A i \in DOMAIN catalog :
            catalog[i] <= MaxSpec /\ catalog[i] <= MaxCatalog - used =>
                \E j \in DOMAIN tools : tools[j] = catalog[i]

\* A tool exchange is sent whole or not at all: each result follows the message
\* that called for it, and a message is sent with all results the log has for
\* it.  What is sent is in the log's order, no text is longer than it was, and
\* the user's last message is there.
ExchangesStayWhole ==
    LET sent == Sent
        has(at) == \E i \in DOMAIN sent : sent[i].at = at
    IN /\ \A i \in DOMAIN sent :
            /\ \A j \in 1..(i - 1) : sent[j].at < sent[i].at
            /\ sent[i].role = log[sent[i].at].role
            /\ sent[i].content <= log[sent[i].at].content
            /\ sent[i].role = "tool" => has(sent[i].of)
            /\ \A k \in DOMAIN log : log[k].of = sent[i].at => has(k)
       /\ \A k \in DOMAIN log :
            log[k].role = "user" /\ (\A j \in (k + 1)..Len(log) : log[j].role # "user") => has(k)
===============================================================================

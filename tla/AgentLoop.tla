------------------------------ MODULE AgentLoop ------------------------------
(***************************************************************************)
(* MCPAgent._agentic_loop: the turns in which a model asks for tools until *)
(* it gives a final result, with its continuation of truncated answers,    *)
(* its compaction of the conversation, and what it reports of the files it *)
(* wrote.                                                                  *)
(*                                                                         *)
(* The text of messages is abstracted to what the loop depends on: the     *)
(* role, where the text comes from, and which files it mentions.  How long *)
(* a text is, is any: the model's answer may be truncated at any turn, and *)
(* the conversation may be found too large before any turn.                *)
(***************************************************************************)
EXTENDS Naturals, FiniteSets, Sequences, SequencesExt

CONSTANTS
  Files,            \* paths the agent may write
  Gears,            \* "none": no servers; "bare": servers without tools; "tools"
  Answers,          \* the sequences of JSON blocks an answer may parse to
  MaxTurns,         \* max_turns
  MaxContinuations, \* max_continuation_rounds
  MaxInvalid,       \* invalid answers tolerated: 2
  MaxWrites,        \* max_write_calls_per_turn
  MaxManifest,      \* _MAX_MANIFEST_ENTRIES: 500
  SummaryRoom       \* how many file names fit into a compact summary

ASSUME LoopAssumption ==
  /\ Gears \subseteq {"none", "bare", "tools"}
  /\ {MaxTurns, MaxContinuations, MaxInvalid, MaxWrites,
      MaxManifest, SummaryRoom} \subseteq Nat
  /\ \A answer \in Answers :
       /\ answer \in Seq([kind : {"tools", "final", "both", "other"}, files : Seq(Files)])
       /\ answer # <<>>

(* A block is a batch of tool calls, of which only the writes of files are  *)
(* kept, a final result with the artifacts it names, both, or neither.      *)
Block(kind, files) == [kind |-> kind, files |-> files]

VARIABLES
  at,         \* where the loop is
  gear,       \* what the agent was given, one of Gears
  turn,
  messages,   \* the conversation
  fragments,  \* truncation_fragments: the turns whose text they hold
  nudge,      \* nudge_fragment: the turn it holds, or none
  joined,     \* the turns whose text is parsed
  invalid,    \* invalid_json_count
  wrapUpSent,
  written,    \* written_files
  scratch,    \* the files the scratchpad lists as written
  usage,      \* accumulated_usage, in answers
  result      \* the TaskResult

talk == <<messages, wrapUpSent>>
cuts == <<fragments, nudge, joined>>
notes == <<written, scratch>>
loopVars == <<at, gear, turn, talk, cuts, invalid, notes, usage, result>>

(* The outputs verifiers tell apart: nothing, a few characters, a text with *)
(* an error indicator, and anything else.  A final result is one that was   *)
(* parsed from a whole answer, or from what there is of a cut one.          *)
Outputs == {"empty", "short", "alarming", "good"}
Origins == {"none", "whole", "cut"}
Result == [output : Outputs, error : BOOLEAN, artifacts : SUBSET Files,
           manifest : Seq(Files), usage : Nat, final : Origins]
NoResult == [output |-> "empty", error |-> FALSE, artifacts |-> {}, manifest |-> <<>>,
             usage |-> 0, final |-> "none"]

User(tags, files) == [role |-> "user", tags |-> tags, files |-> files]
Assistant(tags, files) == [role |-> "assistant", tags |-> tags, files |-> files]

Fresh ==
  /\ turn = 0 /\ messages = <<User({"task"}, {})>> /\ wrapUpSent = FALSE
  /\ fragments = <<>> /\ nudge = <<>> /\ joined = <<>>
  /\ invalid = 0 /\ written = <<>> /\ scratch = <<>> /\ usage = 0
  /\ result = NoResult

(* The same, of the next state: execute() starts a loop of its own.         *)
Renewed ==
  /\ turn' = 0 /\ messages' = <<User({"task"}, {})>> /\ wrapUpSent' = FALSE
  /\ fragments' = <<>> /\ nudge' = <<>> /\ joined' = <<>>
  /\ invalid' = 0 /\ written' = <<>> /\ scratch' = <<>> /\ usage' = 0
  /\ result' = NoResult

-----------------------------------------------------------------------------
(* The conversation *)

(* Consecutive messages of one role become one.                             *)
Merge(a, b) == [a EXCEPT !.tags = @ \cup b.tags, !.files = @ \cup b.files]
Alternating(ms) ==
  LET fixed[n \in 0 .. Len(ms)] ==
        IF n = 0 THEN <<>>
        ELSE IF n > 1 /\ Last(fixed[n - 1]).role = ms[n].role
        THEN Append(Front(fixed[n - 1]), Merge(Last(fixed[n - 1]), ms[n]))
        ELSE Append(fixed[n - 1], ms[n])
  IN  fixed[Len(ms)]

(* What to_compact_summary keeps: its sections, files first, cut to size.   *)
CompactSummary == {scratch[i] : i \in 1 .. Min({SummaryRoom, Len(scratch)})}

(* Without entries: the files the middle messages report as written.        *)
FallbackSummary(ms) ==
  UNION {ms[i].files : i \in {j \in 2 .. Len(ms) - 2 : "results" \in ms[j].tags}}

Summary(ms) == IF scratch # <<>> THEN CompactSummary ELSE FallbackSummary(ms)

(* The last two messages, which a cut may leave without their later text.   *)
Retained(ms, cut) ==
  LET last == SubSeq(ms, Len(ms) - 1, Len(ms))
  IN  IF cut THEN [i \in 1 .. 2 |-> [last[i] EXCEPT !.files = {}]] ELSE last

Bridge(ms) ==
  IF ms[Len(ms) - 1].role = "user" THEN Assistant({"summary"}, Summary(ms))
                                   ELSE User({"summary"}, Summary(ms))

(* A slip: the task prompt is not kept. *)
CompactedToLast(ms, cut) ==
  IF Len(ms) <= 4 THEN ms ELSE Alternating(<<Bridge(ms)>> \o Retained(ms, cut))

(* _compact_messages: the task, a summary, and the last two messages.       *)
Compacted(ms, cut) ==
  IF Len(ms) <= 4 THEN ms ELSE Alternating(<<ms[1], Bridge(ms)>> \o Retained(ms, cut))

WrapUpTurn == (MaxTurns * 8) \div 10

Reminded ==
  IF ~wrapUpSent /\ turn >= WrapUpTurn /\ gear # "none"
  THEN messages' = Append(messages, User({"wrap_up"}, {})) /\ wrapUpSent' = TRUE
  ELSE UNCHANGED <<messages, wrapUpSent>>

(* The start of a turn: the reminder, and the compaction of what is by then *)
(* too large (the scratchpad is flushed first, which changes nothing here). *)
Remind ==
  /\ at = "turn" /\ turn < MaxTurns
  /\ Reminded
  /\ at' = "size"
  /\ UNCHANGED <<gear, turn, cuts, invalid, notes, usage, result>>

Measure ==
  /\ at = "size"
  /\ messages' \in {messages, Compacted(messages, FALSE), Compacted(messages, TRUE)}
  /\ at' = "prompt"
  /\ UNCHANGED <<gear, turn, wrapUpSent, cuts, invalid, notes, usage, result>>

-----------------------------------------------------------------------------
(* The ends of the loop *)

Return(r) == at' = "returned" /\ result' = r

ErrorResult == [NoResult EXCEPT !.error = TRUE, !.usage = usage]

MaxTurnsReached ==
  /\ at = "turn" /\ turn = MaxTurns
  /\ Return(ErrorResult)
  /\ UNCHANGED <<gear, turn, talk, cuts, invalid, notes, usage>>

GenerationFails ==
  /\ at = "prompt"
  /\ Return(ErrorResult)
  /\ UNCHANGED <<gear, turn, talk, cuts, invalid, notes, usage>>

-----------------------------------------------------------------------------
(* A truncated answer *)

TruncatedAnswer == at = "prompt" /\ usage' = usage + 1

Say(reply, next) == messages' = messages \o <<Assistant({reply}, {}), User({next}, {})>>
NextTurn == turn' = turn + 1 /\ at' = "turn"

(* The first truncation is answered by a nudge to use the tools.            *)
Nudge ==
  /\ TruncatedAnswer
  /\ Len(fragments) < MaxContinuations
  /\ gear = "tools" /\ fragments = <<>> /\ nudge = <<>>
  /\ nudge' = <<turn>>
  /\ Say("reply", "nudge") /\ NextTurn
  /\ UNCHANGED <<gear, wrapUpSent, fragments, joined, invalid, notes, result>>

(* The later ones are collected, after the stashed one.                     *)
Continue ==
  /\ TruncatedAnswer
  /\ Len(fragments) < MaxContinuations
  /\ ~(gear = "tools" /\ fragments = <<>> /\ nudge = <<>>)
  /\ fragments' = fragments \o nudge \o <<turn>> /\ nudge' = <<>>
  /\ Say("reply", "continue") /\ NextTurn
  /\ UNCHANGED <<gear, wrapUpSent, joined, invalid, notes, result>>

(* The final result that may be found in a cut text, closed by a guess: it  *)
(* is returned as it is, without the files written so far.                  *)
Repaired ==
  {[NoResult EXCEPT !.final = "cut", !.output = o, !.artifacts = files, !.usage = usage + 1] :
     o \in Outputs, files \in SUBSET Files}

(* Too many: what there is, is parsed or repaired, or returned as an error. *)
TooManyContinuations ==
  /\ TruncatedAnswer
  /\ Len(fragments) >= MaxContinuations
  /\ joined' = Append(fragments, turn) /\ fragments' = <<>>
  /\ \/ \E r \in Repaired : Return(r)
     \/ Return([ErrorResult EXCEPT !.output = "good", !.usage = usage'])
     \/ at' = "raised" /\ UNCHANGED result
  /\ UNCHANGED <<gear, turn, talk, nudge, invalid, notes>>

-----------------------------------------------------------------------------
(* A complete answer *)

(* A slip: the fragments stay after they were joined. *)
CompleteKeepingFragments ==
  /\ at = "prompt"
  /\ usage' = usage + 1
  /\ joined' = Append(fragments, turn) /\ nudge' = <<>>
  /\ at' = "parse"
  /\ UNCHANGED <<gear, turn, fragments, talk, invalid, notes, result>>

Complete ==
  /\ at = "prompt"
  /\ usage' = usage + 1
  /\ joined' = Append(fragments, turn) /\ fragments' = <<>> /\ nudge' = <<>>
  /\ at' = "parse"
  /\ UNCHANGED <<gear, turn, talk, invalid, notes, result>>

(* No JSON, even after a repair.  The count is never reset.                 *)
InvalidAnswer ==
  /\ at = "parse"
  /\ invalid' = invalid + 1
  /\ IF invalid' > MaxInvalid
     THEN /\ \E o \in Outputs : Return([NoResult EXCEPT !.output = o, !.usage = usage])
          /\ UNCHANGED <<turn, messages>>
     ELSE Say("reply", "try_again") /\ NextTurn /\ UNCHANGED result
  /\ UNCHANGED <<gear, wrapUpSent, cuts, notes, usage>>

(* JSON of another shape (an array, a string where an object is expected):  *)
(* an exception leaves the loop.                                            *)
MalformedAnswer ==
  /\ at = "parse"
  /\ at' = "raised"
  /\ UNCHANGED <<gear, turn, talk, cuts, invalid, notes, usage, result>>

(* _execute_tool_calls carries out the first writes of a block and defers   *)
(* the others; a session that dies is replaced by _call_tool_with_retry.    *)
Carried(block) == SubSeq(block.files, 1, Min({MaxWrites, Len(block.files)}))

IsToolBlock(block) == block.kind \in {"tools", "both"} /\ gear # "none"
IsFinal(block) == block.kind \in {"final", "both"} /\ ~IsToolBlock(block)
UsesTools(answer) == \E i \in DOMAIN answer : IsToolBlock(answer[i])
Finals(answer) == SelectSeq(answer, IsFinal)

(* What the tool blocks leave, one after the other.                         *)
OfTools(answer, Left(_)) ==
  FlattenSeq([i \in DOMAIN answer |-> IF IsToolBlock(answer[i]) THEN Left(answer[i]) ELSE <<>>])

Writes(answer) == OfTools(answer, Carried)

(* A slip: one entry for each batch. *)
NotedOnce(answer) == OfTools(answer, LAMBDA block : SubSeq(block.files, 1, 1))

Noted(answer) == OfTools(answer, LAMBDA block : block.files)

(* One pair of messages for each batch of tool calls, each with the whole   *)
(* answer.                                                                  *)
Mentioned(answer) == UNION {ToSet(answer[i].files) : i \in DOMAIN answer}
Reported(answer) ==
  OfTools(answer, LAMBDA block : <<Assistant({"reply"}, Mentioned(answer)),
                                   User({"results"}, ToSet(Carried(block)))>>)

(* _build_file_manifest stops at the first path it has seen before, and    *)
(* when the manifest is full.                                              *)
Manifest(files) ==
  LET listed == {n \in 0 .. Len(files) : n <= MaxManifest /\ IsInjective(SubSeq(files, 1, n))}
  IN  SubSeq(files, 1, Max(listed))

BackfilledLast(answer) == ToSet(Writes(answer))   \* a slip: this turn's files only
Backfilled(answer) == ToSet(written \o Writes(answer))

(* record_file_write, for each of the files. *)
RecordWrites(files) == scratch' = scratch \o files

(* Tools are run first, whatever else the answer holds; then the last final *)
(* result counts; with neither, the first block is taken for one.           *)
UseTools(answer) ==
  /\ written' = written \o Writes(answer)
  /\ RecordWrites(Noted(answer))
  /\ messages' = messages \o Reported(answer)

Finish(answer, block) ==
  \E o \in Outputs :
    Return([output |-> o, error |-> FALSE, final |-> "whole",
            artifacts |-> ToSet(block.files) \cup Backfilled(answer),
            manifest |-> Manifest(written'), usage |-> usage])

Answer ==
  /\ at = "parse"
  /\ \E answer \in Answers :
       /\ UseTools(answer)
       /\ CASE Finals(answer) # <<>> ->
                 Finish(answer, Last(Finals(answer))) /\ UNCHANGED turn
            [] Finals(answer) = <<>> /\ UsesTools(answer) ->
                 NextTurn /\ UNCHANGED result
            [] OTHER ->
                 /\ \E o \in Outputs :
                      Return([NoResult EXCEPT !.output = o, !.usage = usage,
                              !.artifacts = IF answer[1].kind = "other"
                                            THEN ToSet(answer[1].files) ELSE {}])
                 /\ UNCHANGED turn
  /\ UNCHANGED <<gear, wrapUpSent, cuts, invalid, usage>>

LoopStep ==
  \/ Remind \/ Measure \/ MaxTurnsReached \/ GenerationFails
  \/ Nudge \/ Continue \/ TooManyContinuations
  \/ Complete \/ InvalidAnswer \/ MalformedAnswer \/ Answer

-----------------------------------------------------------------------------
LoopTypeOK ==
  /\ at \in {"off", "turn", "size", "prompt", "parse", "returned", "raised"}
            \cup {"call", "verify"}   \* outside the loop
  /\ gear \in Gears /\ turn \in 0 .. MaxTurns
  /\ \A i \in DOMAIN messages : messages[i].role \in {"user", "assistant"}
  /\ wrapUpSent \in BOOLEAN
  /\ {fragments, nudge, joined} \subseteq Seq(Nat)
  /\ {written, scratch} \subseteq Seq(Files)
  /\ invalid \in Nat /\ usage \in Nat /\ result \in Result

(* Whatever was reminded, nudged, compacted and merged, the model is asked  *)
(* about the task: the first message is the user's and holds the task, the  *)
(* last is the user's, and two neighbours have one role only where the      *)
(* reminder follows the user's message (mcp_agent.py:304-327, 541-628).     *)
Conversation ==
  at = "prompt" =>
    /\ messages[1].role = "user" /\ "task" \in messages[1].tags
    /\ Last(messages).role = "user"
    /\ \A i \in 1 .. Len(messages) - 1 :
         messages[i].role = messages[i + 1].role => "wrap_up" \in messages[i + 1].tags

(* No file is forgotten: as long as the scratchpad's list fits into the     *)
(* summary, every file the agent has written is mentioned to the model,     *)
(* however often the conversation was compacted (mcp_agent.py:485-504).     *)
Remembered ==
  (at = "prompt" /\ Len(scratch) <= SummaryRoom) =>
    ToSet(written) \subseteq UNION {messages[i].files : i \in DOMAIN messages}

(* What is parsed is one answer: the text of the current turn, after the    *)
(* texts of the turns just before it, each once and in order; and what is   *)
(* pending are the last turns (mcp_agent.py:376-435).                       *)
LastTurns(s, t) == \A i \in DOMAIN s : s[i] = t - Len(s) + i
Joined ==
  /\ at = "parse" => LastTurns(joined, turn)
  /\ at = "turn" => LastTurns(fragments \o nudge, turn - 1)

(* An agent that gave its final result in a whole answer shows a verifier   *)
(* every file it wrote in any of its turns, among the artifacts; and the    *)
(* manifest, unless it is full, lists them all if no file was written twice *)
(* (mcp_agent.py:509-517, 787-843).                                         *)
FilesShown ==
  result.final = "whole" =>
    /\ ToSet(written) \subseteq result.artifacts
    /\ ToSet(result.manifest) \subseteq ToSet(written) /\ IsInjective(result.manifest)
    /\ IsInjective(written) /\ Len(written) <= MaxManifest => result.manifest = written
=============================================================================

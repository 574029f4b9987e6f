------------------------------ MODULE Helper ------------------------------
(***************************************************************************)
(* The dialogue of git with one invocation of the remote helper: lines on  *)
(* the helper's standard input, answers on its standard output, which is   *)
(* buffered.  git waits for the answer to each request before it sends the *)
(* next one; a push or fetch request is a batch of lines that a blank line *)
(* ends.  What a batch does to the remote is CloakSync's business.         *)
(***************************************************************************)
EXTENDS Naturals, Sequences, SequencesExt

CONSTANTS
    Dialogues,   \* what git may want: each a sequence of requests, see Ask
    Disturbances \* subset of {"dies", "oversized", "fails"}: git dies, a line is
                 \* too long for the scanner, the engine reports an error

VARIABLES
    requests, \* what git has not finished sending; the first may be half sent
    git,      \* "send", "wait" for an answer, "end", or "gone"
    pipe,     \* lines on their way to the helper
    open,     \* git holds its end of the pipe
    helper,   \* "main", "batch", "run" or "exited"
    batch,    \* the lines of the batch the helper collects or runs
    options,  \* the options in force
    buffered, \* answers in the helper's buffer
    flushed,  \* answers on their way to git
    ran       \* history: the batches that were run

helperVars == <<requests, git, pipe, open, helper, batch, options, buffered, flushed, ran>>

\* The lines of the requests git makes.
Ask(kind) == <<[kind |-> kind]>>
AskOption(name, value) == <<[kind |-> "option", name |-> name, value |-> value]>>
AskBatch(kind, refs) ==
    [i \in 1..Len(refs) |-> [kind |-> kind, ref |-> refs[i]]] \o Ask("blank")

\* A request is one line, or a batch of lines of one kind and a blank line.
IsRequest(r) ==
    \/ Len(r) = 1 /\ r[1].kind \in {"capabilities", "option", "list", "blank"}
    \/ /\ Len(r) > 1 /\ r[1].kind \in {"fetch", "push"}
       /\ \A i \in 1..(Len(r) - 1) : r[i].kind = r[1].kind
       /\ r[Len(r)].kind = "blank"

Lines == UNION {UNION {Range(d[j]) : j \in DOMAIN d} : d \in Dialogues}

ASSUME DialogueAssumption ==
    \A d \in Dialogues :
        d \in Seq(Seq(Lines)) \ {<<>>} /\ \A j \in DOMAIN d : IsRequest(d[j])

Exit == helper' = "exited"

\* Everything the helper has answered so far reaches git.
Answer == flushed' = flushed + buffered + 1 /\ buffered' = 0

-----------------------------------------------------------------------------
(* git *)

\* git writes the next line of its request; after the last one it waits, unless
\* that was the blank line that ends the dialogue.
GitWrites ==
    LET request == Head(requests)
    IN  /\ git = "send" /\ requests # <<>>
        /\ \/ pipe' = Append(pipe, Head(request))
           \/ "oversized" \in Disturbances /\ pipe' = Append(pipe, [kind |-> "oversized"])
        /\ requests' = IF Len(request) = 1 THEN Tail(requests)
                       ELSE <<Tail(request)>> \o Tail(requests)
        /\ git' = CASE Len(request) > 1 -> "send"
                    [] Len(request) = 1 /\ Len(requests) > 1 -> "wait"
                    [] OTHER -> "end"
        /\ UNCHANGED <<open, helper, batch, options, buffered, flushed, ran>>

\* git has read the answer.
GitReads ==
    /\ git = "wait" /\ flushed > 0
    /\ flushed' = flushed - 1
    /\ git' = "send"
    /\ UNCHANGED <<requests, pipe, open, helper, batch, options, buffered, ran>>

\* git waits for a helper that has exited.
GitGivesUp ==
    /\ git \in {"send", "wait"} /\ helper = "exited" /\ flushed = 0
    /\ git' = "gone" /\ open' = FALSE
    /\ UNCHANGED <<requests, pipe, helper, batch, options, buffered, flushed, ran>>

GitDies ==
    /\ "dies" \in Disturbances
    /\ git \in {"send", "wait"}
    /\ git' = "gone" /\ open' = FALSE
    /\ UNCHANGED <<requests, pipe, helper, batch, options, buffered, flushed, ran>>

-----------------------------------------------------------------------------
(* The helper *)

NextIs(kinds) == pipe # <<>> /\ Head(pipe).kind \in kinds
AtEnd == pipe = <<>> /\ ~open
EngineFails == "fails" \in Disturbances

\* The options after one more was set; "unsupported" is an answer, too.
WithOption(line) ==
    IF line.name \notin {"verbosity", "progress", "dry-run", "force"} THEN options
    ELSE IF line.value THEN options \cup {line.name} ELSE options \ {line.name}

\* Mutant of SetOption: the answer stays in the buffer.
SetOptionUnflushed ==
    /\ helper = "main" /\ NextIs({"option"})
    /\ options' = WithOption(Head(pipe))
    /\ pipe' = Tail(pipe)
    /\ buffered' = buffered + 1
    /\ UNCHANGED <<requests, git, open, helper, batch, flushed, ran>>

\* option: what is set stays in force for the batches that follow.
SetOption ==
    /\ helper = "main" /\ NextIs({"option"})
    /\ options' = WithOption(Head(pipe))
    /\ pipe' = Tail(pipe)
    /\ Answer
    /\ UNCHANGED <<requests, git, open, helper, batch, ran>>

\* emitCapabilities and handleList; list opens the session, which may fail.
AnswerLine ==
    /\ helper = "main" /\ NextIs({"capabilities", "list"})
    /\ pipe' = Tail(pipe)
    /\ \/ Answer /\ UNCHANGED helper
       \/ /\ EngineFails /\ NextIs({"list"})
          /\ Exit
          /\ flushed' = flushed + buffered /\ buffered' = 0
    /\ UNCHANGED <<requests, git, open, batch, options, ran>>

\* The first line of a batch.
BeginBatch ==
    /\ helper = "main" /\ NextIs({"fetch", "push"})
    /\ helper' = "batch" /\ batch' = <<Head(pipe)>>
    /\ pipe' = Tail(pipe)
    /\ UNCHANGED <<requests, git, open, options, buffered, flushed, ran>>

\* A blank line, the end of input, or anything that is no command.
LeaveMain ==
    /\ helper = "main"
    /\ AtEnd \/ NextIs({"blank", "oversized"})
    /\ Exit
    /\ flushed' = flushed + buffered /\ buffered' = 0
    /\ UNCHANGED <<requests, git, pipe, open, batch, options, ran>>

\* collectBatch takes lines of one kind.
CollectLine ==
    /\ helper = "batch" /\ NextIs({batch[1].kind})
    /\ batch' = Append(batch, Head(pipe)) /\ pipe' = Tail(pipe)
    /\ UNCHANGED <<requests, git, open, helper, options, buffered, flushed, ran>>

\* Mutant of EndsBatch: the scanner's error is not looked at.
EndsBatchUnchecked == AtEnd \/ NextIs({"blank", "oversized"})

\* A blank line ends the batch, and so does the end of input.
EndsBatch == AtEnd \/ NextIs({"blank"})

EndBatch ==
    /\ helper = "batch" /\ EndsBatch
    /\ helper' = "run" /\ pipe' = IF pipe = <<>> THEN pipe ELSE Tail(pipe)
    /\ UNCHANGED <<requests, git, open, batch, options, buffered, flushed, ran>>

\* Any other line, or one that cannot be read, ends the session before anything
\* is applied.
AbortBatch ==
    /\ helper = "batch" /\ pipe # <<>>
    /\ ~EndsBatch /\ ~NextIs({batch[1].kind})
    /\ Exit
    /\ flushed' = flushed + buffered /\ buffered' = 0
    /\ UNCHANGED <<requests, git, pipe, open, batch, options, ran>>

\* runBatch: fetchBatch or pushBatch, then their report.
RunBatch ==
    /\ helper = "run"
    /\ \/ /\ ran' = Append(ran, [lines |-> batch, options |-> options])
          /\ Answer
          /\ helper' = "main"
       \/ /\ EngineFails /\ Exit
          /\ flushed' = flushed + buffered /\ buffered' = 0
          /\ UNCHANGED ran
    /\ batch' = <<>>
    /\ UNCHANGED <<requests, git, pipe, open, options>>

-----------------------------------------------------------------------------

HelperInit ==
    /\ requests \in Dialogues
    /\ git = "send" /\ pipe = <<>> /\ open = TRUE
    /\ helper = "main" /\ batch = <<>> /\ options = {}
    /\ buffered = 0 /\ flushed = 0
    /\ ran = <<>>

HelperStep ==
    \/ SetOption \/ AnswerLine \/ BeginBatch \/ LeaveMain
    \/ CollectLine \/ EndBatch \/ AbortBatch \/ RunBatch

HelperNext == GitWrites \/ GitReads \/ GitGivesUp \/ GitDies \/ HelperStep

HelperSpec == HelperInit /\ [][HelperNext]_helperVars

-----------------------------------------------------------------------------
(* Properties *)

\* collectBatch (helper.go:143-151): a batch that was cut off is never "partially
\* executed" while git lives.  Only when git itself is gone may the part of a batch
\* that arrived be run.
WholeBatches ==
    \A i \in 1..Len(ran) :
        open => \E d \in Dialogues : \E j \in 1..Len(d) :
                    Front(d[j]) = ran[i].lines

\* Main, runBatch and option flush every answer: git never waits for an answer that
\* sits in the helper's buffer while the helper waits for git.
AlwaysAnswered == []<>(git # "wait")

=============================================================================

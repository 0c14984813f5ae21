----------------------------- MODULE Conversation -----------------------------
(***************************************************************************)
(* A conversation that a program holds with an LLM through a command-line  *)
(* client (chia/models/claude.py, codex.py, copilot.py, antigravity.py     *)
(* with resume_session=True; copilot.py does what codex.py does).          *)
(*                                                                         *)
(* The client keeps the transcript in a file of the machine it runs on,    *)
(* and every prompt may run on another machine.  So the object of the      *)
(* driver carries the transcript: the worker that gets a copy of the       *)
(* object pastes it into the file before each attempt and reads the file   *)
(* back after a successful one, and get() puts what was read on the object *)
(* of the driver.  Attempts fail and are repeated, a worker dies and Ray   *)
(* runs the task again elsewhere, machines are set up afresh.              *)
(*                                                                         *)
(* The driver gets the answer of a prompt before it sends the next one, as *)
(* the examples of the repository do.                                      *)
(***************************************************************************)
EXTENDS Naturals, Sequences

CONSTANTS
  Clis,        \* the clients: "claude", "codex" (and copilot), "agy"
  Workers,     \* machines with a client
  MaxPrompts,  \* bound: prompts the driver sends
  Retries,     \* attempts of one prompt
  MaxCrashes,  \* bound: deaths of a worker
  MaxIds       \* bound: sessions that come to be

ASSUME ClisAssumption == Clis \subseteq {"claude", "codex", "agy"}
ASSUME TalkBounds ==
  /\ MaxPrompts \in Nat /\ MaxCrashes \in Nat
  /\ Retries \in Nat \ {0} /\ MaxIds \in Nat \ {0}

VARIABLES
  cli,      \* the client of this conversation
  driver,   \* the session fields of the driver's object
  disk,     \* the session files of each machine
  prompt,   \* the prompt under way
  sent,     \* the number of prompts sent; they are numbered from 1
  minted,   \* the number of sessions that came to be
  crashes

talkVars == <<cli, driver, disk, prompt, sent, minted, crashes>>

Ids == 1 .. MaxIds

\* A turn of a transcript: the question, and whether its answer follows.
Turns == [msg : 1 .. MaxPrompts, answered : BOOLEAN]

History == Seq(Turns)

\* agy writes new turns to a side file of its database first.
NoFile == [main |-> << >>, side |-> << >>]

Whole(file) == file.main \o file.side

\* begun: _call_counter > 0, which only claude asks for.  id: the session to
\* resume, 0 for none.  held: the transcript carried along, empty for None.
Sessions == [begun : BOOLEAN, id : 0 .. MaxIds, held : History]

\* claude's session has its name before it exists.
Fresh == [begun |-> FALSE, id |-> IF cli = "claude" THEN 1 ELSE 0, held |-> << >>]

\* self: the worker's copy of the object.  target: the session of the last run.
Prompts ==
  [phase   : {"idle", "restore", "run", "capture", "reply", "bare", "failed", "raised"},
   at      : Workers, attempt : Nat, self : Sessions, target : 0 .. MaxIds]

TalkTypeOK ==
  /\ cli     \in Clis
  /\ driver  \in Sessions
  /\ disk    \in [Workers -> [Ids -> [main : History, side : History]]]
  /\ prompt  \in Prompts
  /\ sent    \in 0 .. MaxPrompts
  /\ minted  \in 0 .. MaxIds
  /\ crashes \in 0 .. MaxCrashes

TalkInit ==
  /\ cli \in Clis
  /\ driver = Fresh
  /\ disk = [w \in Workers |-> [i \in Ids |-> NoFile]]
  /\ \E w \in Workers :
       prompt = [phase |-> "idle", at |-> w, attempt |-> 0, self |-> Fresh, target |-> 0]
  /\ sent = 0
  /\ minted = IF cli = "claude" THEN 1 ELSE 0
  /\ crashes = 0

-----------------------------------------------------------------------------
(* The driver sends a prompt: a worker gets a copy of the object.          *)

Dispatched(w) == [phase |-> "restore", at |-> w, attempt |-> 0, self |-> driver, target |-> 0]

Send(w) ==
  /\ prompt.phase = "idle"
  /\ sent < MaxPrompts
  /\ sent' = sent + 1
  /\ prompt' = Dispatched(w)
  /\ UNCHANGED <<cli, driver, disk, minted, crashes>>

\* The worker dies, and Ray runs the task again with the same arguments.
WorkerDies(w) ==
  /\ prompt.phase \in {"restore", "run", "capture", "reply", "bare"}
  /\ crashes < MaxCrashes
  /\ crashes' = crashes + 1
  /\ prompt' = Dispatched(w)
  /\ UNCHANGED <<cli, driver, disk, sent, minted>>

\* A machine, or the container on it, is set up afresh.
SetUpAfresh(w) ==
  /\ ~(prompt.at = w /\ prompt.phase \in {"restore", "run", "capture"})
  /\ disk' = [disk EXCEPT ![w] = [i \in Ids |-> NoFile]]
  /\ UNCHANGED <<cli, driver, prompt, sent, minted, crashes>>

-----------------------------------------------------------------------------
(* An attempt on the worker: restore, run, capture.                        *)

Begin(s) == IF cli = "claude" THEN [s EXCEPT !.begun = TRUE] ELSE s

\* Mutant of Pasted: a file that is there already is left alone.
PastedIfMissing(s, file) == IF Whole(file) = << >> THEN [NoFile EXCEPT !.main = s.held] ELSE file

\* The file of a session after the carried transcript was pasted over it.
Pasted(s, file) == [NoFile EXCEPT !.main = s.held]

\* _restore_transcript, _restore_session_state: at the start of every attempt.
Restore ==
  /\ prompt.phase = "restore"
  /\ IF prompt.self.held = << >>
     THEN /\ prompt' = [prompt EXCEPT !.phase = "run"]
          /\ UNCHANGED disk
     ELSE /\ prompt' = [prompt EXCEPT !.phase = "run", !.self = Begin(@)]
          /\ disk' = [disk EXCEPT ![prompt.at][prompt.self.id] = Pasted(prompt.self, @)]
  /\ UNCHANGED <<cli, driver, sent, minted, crashes>>

Found(w, s) == s.id # 0 /\ Whole(disk[w][s.id]) # << >>

\* What the client refuses: to resume a session that is not there, and
\* (claude) to create one that is.
Refused(w, s) ==
  \/ cli = "claude" /\ s.begun # Found(w, s)
  \/ cli = "codex"  /\ s.id # 0 /\ ~Found(w, s)

\* The session a run works on.  agy starts a new one for a missing one.
Target(w, s) == IF s.id = 0 \/ (cli = "agy" /\ ~Found(w, s)) THEN minted + 1 ELSE s.id

\* The client appends a turn to the file of its session.
Extended(file, turn) ==
  IF cli = "agy" THEN [file EXCEPT !.side = Append(@, turn)]
                 ELSE [file EXCEPT !.main = Append(@, turn)]

Written(w, i, turn) == [disk EXCEPT ![w][i] = Extended(@, turn)]

Mint(i) == minted' = IF i > minted THEN i ELSE minted

\* codex: the worker's object takes the name of the session from the output.
Named(s, i) == IF cli = "codex" THEN [s EXCEPT !.id = i] ELSE s

\* _run_claude, _run_codex, _run_antigravity, when the model answers.
Answers ==
  LET s == prompt.self
      i == Target(prompt.at, s)
  IN
  /\ prompt.phase = "run"
  /\ ~Refused(prompt.at, s)
  /\ i \in Ids
  /\ disk' = Written(prompt.at, i, [msg |-> sent, answered |-> TRUE])
  /\ Mint(i)
  /\ prompt' = [prompt EXCEPT !.phase = "capture", !.self = Named(Begin(s), i), !.target = i]
  /\ UNCHANGED <<cli, driver, sent, crashes>>

\* The except clauses of prompt and the next round of its loop.  "again": an
\* unknown error, a server error, a timeout; "once": too long an answer;
\* "never": a usage limit, authentication, billing, an invalid request.
AfterError(kind, s) ==
  [prompt EXCEPT
     !.self = s,
     !.attempt = @ + 1,
     !.phase = IF kind = "never" \/ (kind = "once" /\ prompt.attempt > 0) THEN "raised"
               ELSE IF prompt.attempt + 1 < Retries THEN "restore" ELSE "failed"]

Kinds == {"again", "once", "never"}

\* A run that is refused.
IsRefused(kind) ==
  /\ prompt.phase = "run"
  /\ Refused(prompt.at, prompt.self)
  /\ prompt' = AfterError(kind, Begin(prompt.self))
  /\ UNCHANGED <<cli, driver, disk, sent, minted, crashes>>

\* A run that ends with an error or is killed by the timeout (kind "again",
\* nothing named).  It may have written the question to its session, with a
\* reply that nobody is given, and named the session in its output.
Fails(kind, written, named) ==
  LET s == prompt.self
      i == Target(prompt.at, s)
  IN
  /\ prompt.phase = "run"
  /\ ~Refused(prompt.at, s)
  /\ i \in Ids
  /\ IF written THEN disk' = Written(prompt.at, i, [msg |-> sent, answered |-> FALSE])
                ELSE UNCHANGED disk
  /\ IF written \/ named THEN Mint(i) ELSE UNCHANGED minted
  /\ prompt' = AfterError(kind, IF named THEN Named(Begin(s), i) ELSE Begin(s))
  /\ UNCHANGED <<cli, driver, sent, crashes>>

\* The client cannot be started at all; copilot gives up for good when the
\* prompt is too long for a command line.
DoesNotStart(kind) ==
  /\ prompt.phase = "run"
  /\ kind # "once"
  /\ prompt' = AfterError(kind, prompt.self)
  /\ UNCHANGED <<cli, driver, disk, sent, minted, crashes>>

\* agy's side file is folded in; the other clients have none.
Fold(file) == [NoFile EXCEPT !.main = Whole(file)]

Folded == [disk EXCEPT ![prompt.at][prompt.target] = Fold(@)]

\* _capture_transcript, _capture_session_state.
Capture ==
  /\ prompt.phase = "capture"
  /\ disk' = Folded
  /\ prompt' = [prompt EXCEPT !.phase = "reply", !.self.id = prompt.target,
                             !.self.held = Whole(disk[prompt.at][prompt.target])]
  /\ UNCHANGED <<cli, driver, sent, minted, crashes>>

\* The file is not there, or (codex, copilot) none that is there opens: the
\* answer comes without a transcript.  agy may not name its session either.
CaptureMisses ==
  /\ prompt.phase = "capture"
  /\ \E id \in {prompt.target} \cup (IF cli = "agy" THEN {0} ELSE {}) :
       prompt' = [prompt EXCEPT !.phase = "bare", !.self.id = id]
  /\ UNCHANGED <<cli, driver, disk, sent, minted, crashes>>

\* agy's checkpoint fails: the main file is carried without the side file.
CheckpointFails ==
  LET main == disk[prompt.at][prompt.target].main IN
  /\ prompt.phase = "capture"
  /\ cli = "agy" /\ main # << >>
  /\ prompt' = [prompt EXCEPT !.phase = "bare", !.self.id = prompt.target, !.self.held = main]
  /\ UNCHANGED <<cli, driver, disk, sent, minted, crashes>>

\* claude, agy: the file is there and does not open.  The prompt that was
\* answered is sent again.
CaptureRaises ==
  /\ prompt.phase = "capture"
  /\ cli # "codex"
  /\ disk' \in {disk, Folded}
  /\ prompt' = AfterError("again", [prompt.self EXCEPT !.id = prompt.target])
  /\ UNCHANGED <<cli, driver, sent, minted, crashes>>

-----------------------------------------------------------------------------
(* get() runs the callback on the driver's object.                         *)

Adopted(s) ==
  [driver EXCEPT !.id   = IF s.id # 0 THEN s.id ELSE @,
                 !.held = IF s.held # << >> THEN s.held ELSE @]

\* _sync_transcript, _sync_session.  The reply of a prompt that failed holds
\* nothing, but for codex; one that raised gives no reply.
Synced ==
  CASE prompt.phase = "raised" -> driver
    [] prompt.phase = "failed" /\ cli # "codex" -> Begin(driver)
    [] OTHER -> Begin(Adopted(prompt.self))

Get ==
  /\ prompt.phase \in {"reply", "bare", "failed", "raised"}
  /\ driver' = Synced
  /\ prompt' = [prompt EXCEPT !.phase = "idle"]
  /\ UNCHANGED <<cli, disk, sent, minted, crashes>>

-----------------------------------------------------------------------------
TalkNext ==
  \/ \E w \in Workers : Send(w) \/ WorkerDies(w) \/ SetUpAfresh(w)
  \/ Restore \/ Answers \/ Capture \/ CaptureMisses \/ CheckpointFails \/ CaptureRaises \/ Get
  \/ \E kind \in Kinds :
       IsRefused(kind) \/ DoesNotStart(kind) \/ \E written, named \in BOOLEAN : Fails(kind, written, named)

TalkSpec == TalkInit /\ [][TalkNext]_talkVars

-----------------------------------------------------------------------------
(* Properties.                                                             *)

\* A transcript grows by one turn.  What the first one held before its first
\* answer, failed attempts among it, is left open.
Grows(old, new, turn) ==
  /\ new # << >> /\ new[Len(new)] = turn
  /\ old # << >> => new = Append(old, turn)

\* When the driver gets an answer and its transcript, what it holds grows by
\* exactly that turn, and it never changes otherwise: from the first answer
\* on, no answered turn is lost or doubled and no failed attempt leaves a
\* trace, whichever machine runs the next prompt and whatever lies on its disk
\* (claude.py:714-718: "the resumed session always reflects the conversation
\* we hold").  An answer whose transcript could not be read back is missing
\* from the conversation; the turns before it are not.
EachAnswerOnce ==
  [][IF prompt.phase = "reply" /\ prompt'.phase = "idle"
     THEN Grows(driver.held, driver'.held, [msg |-> sent, answered |-> TRUE])
     ELSE \/ driver'.held = driver.held
          \/ prompt.phase = "bare" /\ driver.held = << >>]_talkVars

=============================================================================

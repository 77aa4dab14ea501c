------------------------------- MODULE AppTimers -------------------------------
(***************************************************************************)
(* What main.rs keeps by the clock besides the auto-lock: the threads that  *)
(* take a copied password off the clipboard again, and the log of failed    *)
(* attempts to open a Shell.                                                *)
(*                                                                         *)
(* copy_to_clipboard_with_autoclear starts one thread for each copy; it     *)
(* sleeps, reads the clipboard, compares, and clears, with nothing to keep  *)
(* others off the clipboard in between.  Both live in the process only.     *)
(*                                                                         *)
(* Abstractions.  Time passes in ticks, for all sleepers and all entries of *)
(* the log at once; what is older than anyone looks at stays at the bound.  *)
(* A thread that is due may still be late.  Access to the clipboard may     *)
(* fail.  MaxFailures bounds the attempts that fail in one run of the       *)
(* program.                                                                *)
(***************************************************************************)
EXTENDS Naturals, Sequences

CONSTANTS
  Texts,        (* what can be copied                                       *)
  Empty,        (* the text that set_text(String::new()) leaves             *)
  Slots,        (* the clearing threads that there can be at once           *)
  User,         (* somebody else who copies, in any program                 *)
  Nobody,       (* there is no such thread; nobody's text                   *)
  Delay,        (* CLIPBOARD_CLEAR_DELAY, in ticks                          *)
  Window,       (* ATTEMPT_RECENT_WINDOW, in ticks                          *)
  MaxFailures   (* bound                                                    *)

Threads == [at : {"sleep", "clear"}, left : 0..Delay, stale : BOOLEAN, text : Texts]

ASSUME TimersAssumption ==
  /\ Delay \in Nat \ {0} /\ Window \in Nat /\ MaxFailures \in Nat
  /\ Empty \notin Texts
  /\ User \notin Slots /\ Nobody \notin Slots \union {User}
  /\ Nobody \notin Threads

VARIABLES
  running,    (* the program runs                                           *)
  clipboard,  (* what is on it                                              *)
  owner,      (* history: who put it there: a thread's copy, User, Nobody   *)
  threads,    (* threads[s]: the text it was given, what it does next, the  *)
              (* rest of its sleep; stale is history: something was copied  *)
              (* after it had read the clipboard                            *)
  missed,     (* history: since the program's last copy, a thread could not *)
              (* do its work                                                *)
  failures,   (* history: ages of all failed attempts of this run           *)
  recent,     (* AttemptLog.recent, as ages                                 *)
  total       (* AttemptLog.total_failed                                    *)

clipboardVars == <<clipboard, owner, threads, missed>>
logVars == <<failures, recent, total>>
vars == <<running, clipboardVars, logVars>>

Init ==
  /\ running = TRUE
  /\ clipboard = Empty /\ owner = Nobody
  /\ threads = [s \in Slots |-> Nobody]
  /\ missed = FALSE
  /\ failures = <<>> /\ recent = <<>> /\ total = 0

-----------------------------------------------------------------------------
(* The clipboard *)

At(s, step) == threads[s] # Nobody /\ threads[s].at = step

\* Writing the clipboard outdates what threads have read.
Outdated ==
  [s \in Slots |-> IF At(s, "clear") THEN [threads[s] EXCEPT !.stale = TRUE] ELSE threads[s]]

Ends(s) == [threads EXCEPT ![s] = Nobody]

\* Mutant: the sleep is left out.
MutCopyToClipboard(s, text) ==
  /\ running
  /\ threads[s] = Nobody
  /\ clipboard' = text
  /\ owner' = s
  /\ threads' = Outdated
  /\ missed' = FALSE
  /\ UNCHANGED <<running, logVars>>

\* Mutant: the sleep is longer than the delay.
MutDelay(s, text) ==
  /\ running
  /\ threads[s] = Nobody
  /\ clipboard' = text
  /\ owner' = s
  /\ threads' = [Outdated EXCEPT ![s] =
                   [at |-> "sleep", left |-> Delay + 1, stale |-> FALSE, text |-> text]]
  /\ missed' = FALSE
  /\ UNCHANGED <<running, logVars>>

\* copy_to_clipboard_with_autoclear, when it can write the clipboard.
CopyToClipboard(s, text) ==
  /\ running
  /\ threads[s] = Nobody
  /\ clipboard' = text
  /\ owner' = s
  /\ threads' = [Outdated EXCEPT ![s] =
                   [at |-> "sleep", left |-> Delay, stale |-> FALSE, text |-> text]]
  /\ missed' = FALSE
  /\ UNCHANGED <<running, logVars>>

\* A copy in any program, this one's text fields included; it may be the same text.
UserCopies(text) ==
  /\ clipboard' = text
  /\ owner' = User
  /\ threads' = Outdated
  /\ UNCHANGED <<running, missed, logVars>>

\* Mutant: the text is not compared.
MutRead(s) ==
  /\ At(s, "sleep") /\ threads[s].left = 0
  /\ threads' = [threads EXCEPT ![s].at = "clear"]
  /\ UNCHANGED <<running, clipboard, owner, missed, logVars>>

\* get_text and the comparison.
Read(s) ==
  /\ At(s, "sleep") /\ threads[s].left = 0
  /\ threads' = IF clipboard = threads[s].text
                THEN [threads EXCEPT ![s].at = "clear"]
                ELSE Ends(s)
  /\ UNCHANGED <<running, clipboard, owner, missed, logVars>>

\* Mutant: the clipboard is given back what it held.
MutClear(s) ==
  /\ At(s, "clear")
  /\ threads' = Ends(s)
  /\ UNCHANGED <<running, clipboard, owner, missed, logVars>>

\* set_text(String::new()).
Clear(s) ==
  /\ At(s, "clear")
  /\ clipboard' = Empty
  /\ owner' = Nobody
  /\ threads' = [u \in Slots |-> IF u = s THEN Nobody ELSE Outdated[u]]
  /\ UNCHANGED <<running, missed, logVars>>

\* Clipboard::new, get_text or set_text fails: the thread ends, without a word.
GivesUp(s) ==
  /\ At(s, "clear") \/ (At(s, "sleep") /\ threads[s].left = 0)
  /\ threads' = Ends(s)
  /\ missed' = TRUE
  /\ UNCHANGED <<running, clipboard, owner, logVars>>

-----------------------------------------------------------------------------
(* The log of failed attempts *)

\* Mutant: an entry leaves one tick too early.
MutPruned(ages) ==
  IF \E i \in DOMAIN ages : ages[i] < Window
  THEN LET first == CHOOSE i \in DOMAIN ages :
                      ages[i] < Window /\ \A j \in 1..i-1 : ages[j] >= Window
       IN  SubSeq(ages, first, Len(ages))
  ELSE <<>>

\* AttemptLog::prune: from the front, up to the first that is not too old.
Pruned(ages) ==
  IF \E i \in DOMAIN ages : ages[i] <= Window
  THEN LET first == CHOOSE i \in DOMAIN ages :
                      ages[i] <= Window /\ \A j \in 1..i-1 : ages[j] > Window
       IN  SubSeq(ages, first, Len(ages))
  ELSE <<>>

\* open_shell with a wrong password; other errors are not counted.
RecordFailure ==
  /\ running
  /\ Len(failures) < MaxFailures
  /\ failures' = Append(failures, 0)
  /\ recent' = Pruned(Append(recent, 0))
  /\ total' = total + 1
  /\ UNCHANGED <<running, clipboardVars>>

\* AttemptLog::recent_count, for the System view.
RecentCount ==
  /\ running
  /\ recent' = Pruned(recent)
  /\ UNCHANGED <<running, clipboardVars, failures, total>>

-----------------------------------------------------------------------------
(* Time and the process *)

Older(ages) == [i \in DOMAIN ages |-> IF ages[i] <= Window THEN ages[i] + 1 ELSE ages[i]]

Waits(s) == At(s, "sleep") /\ threads[s].left > 0

Tick ==
  /\ threads' = [s \in Slots |->
                   IF Waits(s) THEN [threads[s] EXCEPT !.left = @ - 1] ELSE threads[s]]
  /\ failures' = Older(failures)
  /\ recent' = Older(recent)
  /\ UNCHANGED <<running, clipboard, owner, missed, total>>

\* The process ends, by lock-and-exit or a crash, and its threads with it.
Quit ==
  /\ running
  /\ running' = FALSE
  /\ threads' = [s \in Slots |-> Nobody]
  /\ missed' = TRUE
  /\ failures' = <<>> /\ recent' = <<>> /\ total' = 0
  /\ UNCHANGED <<clipboard, owner>>

Start ==
  /\ ~running
  /\ running' = TRUE
  /\ UNCHANGED <<clipboardVars, logVars>>

Wakes(s) == Read(s) \/ Clear(s) \/ GivesUp(s)

Next ==
  \/ \E s \in Slots, text \in Texts : CopyToClipboard(s, text)
  \/ \E text \in Texts : UserCopies(text)
  \/ \E s \in Slots : Wakes(s)
  \/ RecordFailure \/ RecentCount
  \/ Tick \/ Quit \/ Start

Spec == Init /\ [][Next]_vars

\* Time passes, and a thread whose sleep is over runs.
FairSpec == Spec /\ WF_vars(Tick) /\ \A s \in Slots : WF_vars(Wakes(s))

-----------------------------------------------------------------------------
(* Properties *)

\* The types of the variables.
TypeOK ==
  /\ running \in BOOLEAN
  /\ clipboard \in Texts \union {Empty}
  /\ owner \in Slots \union {User, Nobody}
  /\ threads \in [Slots -> Threads \union {Nobody}]
  /\ missed \in BOOLEAN
  /\ failures \in Seq(0..Window + 1)
  /\ recent \in Seq(0..Window + 1)
  /\ total \in Nat

\* A password that the program put on the clipboard has a thread that will take it
\* off, unless one gave up or the program ended: no order of copies, by the
\* program or by others, of this text or of another, leaves it there.
SomeoneClears ==
  owner \in Slots /\ ~missed =>
    \E s \in Slots : threads[s] # Nobody /\ threads[s].text = clipboard

Takes(s) == At(s, "clear") /\ threads'[s] = Nobody /\ clipboard' = Empty

\* The comment says that a clear never clobbers what was copied since.  It takes off
\* another's text only when that is the same text, or was copied between the
\* thread's reading and its clearing.
ClobbersOnlySame ==
  [][\A s \in Slots : Takes(s) /\ clipboard # Empty =>
       clipboard = threads[s].text \/ threads[s].stale]_vars

\* What the program copied is in the end cleared or replaced, unless a thread could
\* not do its work or the program ended.
SecretsLeave == \A s \in Slots : owner = s ~> owner # s \/ missed

\* The log holds every failure of the last five minutes, and as pruned for the view
\* no others: a suffix of the failures of this run, cut at the age of Window.
RecentIsExact ==
  /\ \E k \in 0..Len(failures) :
       /\ Pruned(recent) = SubSeq(failures, k + 1, Len(failures))
       /\ \A i \in DOMAIN failures : failures[i] <= Window <=> i > k
  /\ total = Len(failures)

-----------------------------------------------------------------------------
(* The inductive invariant *)

\* A thread that is about to clear has read its own text: unless something was
\* copied since, that is what is on the clipboard.
ReadIsTrue == \A s \in Slots : At(s, "clear") /\ ~threads[s].stale => clipboard = threads[s].text

OwnedIsText == owner \in Slots => clipboard \in Texts

\* What the log has dropped was too old, and stays so: failures are in order of age.
DroppedIsOld ==
  \E k \in 0..Len(failures) :
    /\ recent = SubSeq(failures, k + 1, Len(failures))
    /\ \A i \in 1..k : failures[i] > Window

Ordered == \A i, j \in DOMAIN failures : i < j => failures[i] >= failures[j]

IInv ==
  /\ TypeOK /\ SomeoneClears /\ ReadIsTrue /\ OwnedIsText
  /\ DroppedIsOld /\ Ordered /\ total = Len(failures)

=============================================================================

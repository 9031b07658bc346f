---------------------------- MODULE FileCaseStore ----------------------------
(***************************************************************************)
(* FileCaseStore of packages/agent/src/store.ts, the store of every        *)
(* deployment without Redis: one JSON file per case in one directory.      *)
(* writeFile opens a file with truncation and then writes it, readFile     *)
(* takes the file's size and then reads that much, and nothing orders the  *)
(* two or survives a process that stops between them; listForOwner reads   *)
(* one file after the other.                                               *)
(*                                                                         *)
(* Orchestrator models the store as a register with atomic reads and       *)
(* writes; this module says when a file is one.  A version of a record is  *)
(* written as Length[v] units, and a content parses if it is all of one    *)
(* version and no more.                                                    *)
(***************************************************************************)
EXTENDS Naturals, Sequences

CONSTANTS
  Client,      \* requests that use the store
  Case, Owner,
  OwnerOf,     \* [Case -> its owner]
  Version,     \* versions of a case's record
  Length,      \* [Version -> how long its JSON is]
  NotFound,    \* what get throws (CaseNotFoundError), and that there is no file
  Overlap,     \* what may run beside a save: "nothing", "gets", or "saves" too
  Crashes      \* may the process stop half way?

ASSUME FileAssumption ==
  /\ OwnerOf \in [Case -> Owner]
  /\ Length \in [Version -> Nat \ {0}]
  /\ NotFound \notin Case \cup Version \cup Seq(Version)
  /\ Overlap \in {"nothing", "gets", "saves"}
  /\ Crashes \in BOOLEAN

VARIABLES
  file,        \* [Case -> its content, a sequence of units each naming its version]
  call,        \* [Client -> Call]
  latest,      \* [Case -> the version saved last] (history)
  interrupted  \* the cases a save of which was cut short (history)

vars == <<file, call, latest, interrupted>>

\* What a client does.  case and size: the file it has open; version: what it
\* saves, or what its last get returned; left and found: the files that a listing
\* has before it, and the cases that it has found for owner; failed: it threw;
\* disturbed: the get or listing met a save (history).
Call == [ step : {"idle", "writing", "reading", "listing"}, case : Case \cup {NotFound},
          size : Nat, version : Version \cup {NotFound},
          owner : Owner \cup {NotFound}, left : SUBSET Case, found : SUBSET Case,
          failed : BOOLEAN, disturbed : BOOLEAN ]

Idle == [step |-> "idle", case |-> NotFound, size |-> 0, version |-> NotFound,
         owner |-> NotFound, left |-> {}, found |-> {}, failed |-> FALSE, disturbed |-> FALSE]

TypeOK ==
  /\ file \in [Case -> Seq(Version) \cup {NotFound}]
  /\ call \in [Client -> Call]
  /\ latest \in [Case -> Version \cup {NotFound}]
  /\ interrupted \subseteq Case

Text(v) == [i \in 1 .. Length[v] |-> v]

\* JSON.parse: a part of a record, or one followed by the rest of a longer one,
\* is not JSON.
Parse(content) ==
  IF \E v \in Version : content = Text(v)
  THEN CHOOSE v \in Version : content = Text(v)
  ELSE NotFound

\* Writing at the start of a file leaves what is beyond the text written.
Overwrite(content, text) ==
  text \o SubSeq(content, Len(text) + 1, Len(content))

\* Variant: one unit too few.
FirstUnitsShort(content, n) == SubSeq(content, 1, n - 1)

\* The first n units of a content.
FirstUnits(content, n) == SubSeq(content, 1, IF n < Len(content) THEN n ELSE Len(content))

\* What readFile returns of a file whose size it has taken: to the end if the
\* size was 0.
Contents(case, size) == IF size = 0 THEN file[case] ELSE FirstUnits(file[case], size)

Exists(case) == file[case] # NotFound

Saving(case) == { c \in Client : call[c].step = "writing" /\ call[c].case = case }

Reads(c) == call[c].step \in {"reading", "listing"}

Init ==
  /\ file = [case \in Case |-> NotFound]
  /\ call = [c \in Client |-> Idle]
  /\ latest = [case \in Case |-> NotFound]
  /\ interrupted = {}

-----------------------------------------------------------------------------
MaySave(case) ==
  CASE Overlap = "saves" -> TRUE
    [] Overlap = "gets"  -> Saving(case) = {}
    [] OTHER             -> \A c \in Client : call[c].step = "idle"

MayRead == Overlap = "nothing" => \A c \in Client : call[c].step = "idle"

\* create makes the file; a transition saves once its get has found the case.
Saves(c, case) ==
  /\ call[c].step = "idle" /\ MaySave(case)
  /\ Exists(case) => call[c].case = case /\ call[c].version # NotFound

\* A listing meets every save, a get the saves of its case.
Disturbed(case) ==
  { c \in Client : \/ call[c].step = "listing"
                   \/ call[c].step = "reading" /\ call[c].case = case }

\* The client c saves v; the content of the file as it is opened.
Opens(c, case, content) ==
  \E v \in Version :
    /\ Saves(c, case)
    /\ file' = [file EXCEPT ![case] = content]
    /\ call' = [d \in Client |->
                  IF d = c THEN [Idle EXCEPT !.step = "writing", !.case = case, !.version = v]
                  ELSE [call[d] EXCEPT !.disturbed = @ \/ d \in Disturbed(case)]]
    /\ UNCHANGED <<latest, interrupted>>

\* Variant: the file is not truncated.
SaveOpenKeeping(c, case) == Opens(c, case, IF Exists(case) THEN file[case] ELSE << >>)

\* create and save: writeFile opens the file, which empties it ...
SaveOpen(c, case) == Opens(c, case, << >>)

\* ... and then writes the text: one write, as a record is far below the size
\* writeFile splits at.
SaveWrite(c) ==
  LET case == call[c].case
  IN /\ call[c].step = "writing"
     /\ file' = [file EXCEPT ![case] = Overwrite(@, Text(call[c].version))]
     /\ latest' = [latest EXCEPT ![case] = call[c].version]
     /\ call' = [call EXCEPT ![c] = Idle]
     /\ UNCHANGED interrupted

\* get: readFile opens the file and takes its size ...
GetOpen(c, case) ==
  /\ call[c].step = "idle" /\ MayRead
  /\ call' = [call EXCEPT ![c] =
       IF Exists(case)
       THEN [Idle EXCEPT !.step = "reading", !.case = case, !.size = Len(file[case]),
                         !.disturbed = Saving(case) # {}]
       ELSE Idle]
  /\ UNCHANGED <<file, latest, interrupted>>

\* ... and reads as much and parses it; any error is a CaseNotFoundError.
GetRead(c) ==
  /\ call[c].step = "reading"
  /\ call' = [call EXCEPT ![c].step = "idle",
                          ![c].version = Parse(Contents(call[c].case, call[c].size))]
  /\ UNCHANGED <<file, latest, interrupted>>

-----------------------------------------------------------------------------
\* listForOwner: readdir ...
ListStart(c) ==
  \E owner \in Owner :
    /\ call[c].step = "idle" /\ MayRead
    /\ call' = [call EXCEPT ![c] =
         [Idle EXCEPT !.step = "listing", !.owner = owner,
                      !.left = { case \in Case : Exists(case) },
                      !.disturbed = \E case \in Case : Saving(case) # {}]]
    /\ UNCHANGED <<file, latest, interrupted>>

\* ... then readFile of each file, in the directory's order ...
ListOpen(c) ==
  /\ call[c].step = "listing" /\ call[c].case = NotFound
  /\ \E case \in call[c].left :
       call' = [call EXCEPT ![c].case = case, ![c].size = Len(file[case]),
                            ![c].left = @ \ {case}]
  /\ UNCHANGED <<file, latest, interrupted>>

\* Variant: whose case it is does not matter.
OwnsAny(c) == TRUE

Owns(c) == OwnerOf[call[c].case] = call[c].owner

FoundWith(c) ==
  IF Owns(c) THEN call[c].found \cup {call[c].case} ELSE call[c].found

\* ... which is parsed outside any try: one file that is not a record ends the
\* listing, whoever's it is.
ListRead(c) ==
  /\ call[c].step = "listing" /\ call[c].case # NotFound
  /\ call' = [call EXCEPT ![c] =
       IF Parse(Contents(call[c].case, call[c].size)) = NotFound
       THEN [Idle EXCEPT !.failed = TRUE]
       ELSE [@ EXCEPT !.case = NotFound, !.size = 0, !.found = FoundWith(c)]]
  /\ UNCHANGED <<file, latest, interrupted>>

ListEnd(c) ==
  /\ call[c].step = "listing" /\ call[c].case = NotFound /\ call[c].left = {}
  /\ call' = [call EXCEPT ![c].step = "idle"]
  /\ UNCHANGED <<file, latest, interrupted>>

\* The process stops: its calls end, the files stay as they are.
Crash ==
  /\ Crashes
  /\ call' = [c \in Client |-> Idle]
  /\ interrupted' = interrupted \cup { case \in Case : Saving(case) # {} }
  /\ UNCHANGED <<file, latest>>

Next ==
  \/ \E c \in Client, case \in Case : SaveOpen(c, case) \/ GetOpen(c, case)
  \/ \E c \in Client : SaveWrite(c) \/ GetRead(c)
  \/ \E c \in Client : ListStart(c) \/ ListOpen(c) \/ ListRead(c) \/ ListEnd(c)
  \/ Crash

Spec == Init /\ [][Next]_vars

-----------------------------------------------------------------------------
Settled(case) == latest[case] # NotFound /\ Saving(case) = {}

Holds(case) == Exists(case) /\ Parse(file[case]) = latest[case]

\* With no save of a case under way, and none cut short, its file holds the
\* version saved last, whole.
SettledIsLatest ==
  \A case \in Case \ interrupted : Settled(case) => Holds(case)

\* store.ts: InMemoryCaseStore is "not durable across restarts - see
\* FileCaseStore", which store.test.ts calls "durability, not just in-memory".
DurableAcrossRestarts == \A case \in Case : Settled(case) => Holds(case)

\* A get that no save overlapped returns the version saved last.  One that a
\* save overlapped may report a case that exists as not found.
UndisturbedGetIsLatest ==
  [][\A c \in Client :
       GetRead(c) /\ ~call[c].disturbed /\ call[c].case \notin interrupted
         => call'[c].version = latest[call[c].case]]_vars

\* A get finds the version saved last, or nothing: never an older version, and
\* never a mixture of two, whatever overlaps it and wherever the process stops.
FoundIsLatest ==
  [][\A c \in Client :
       GetRead(c) => call'[c].version \in {NotFound, latest[call[c].case]}]_vars

\* A listing that no save overlapped, of any case, and that meets no file that
\* was cut short, returns exactly the cases of its owner.
UndisturbedListIsComplete ==
  [][\A c \in Client :
       /\ ListRead(c) \/ ListEnd(c)
       /\ call'[c].step = "idle"
       /\ ~call[c].disturbed /\ interrupted = {}
       => /\ ~call'[c].failed
          /\ call'[c].found = { case \in Case : OwnerOf[case] = call[c].owner
                                                /\ latest[case] # NotFound }]_vars
==============================================================================

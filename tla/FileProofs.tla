------------------------------ MODULE FileProofs ------------------------------
(***************************************************************************)
(* Proofs about FileCaseStore: for any cases, clients and versions, a file *)
(* is the register that Orchestrator takes a store to be, and a listing is *)
(* complete, as long as saves of a case do not overlap, and for what no    *)
(* save overlapped or cut short; and whatever overlaps, a get that finds a *)
(* case finds the version saved last.                                      *)
(***************************************************************************)
EXTENDS FileCaseStore, SequenceTheorems, TLAPS

\* The part that each step of a client plays.  The files that a listing has
\* found are its owner's that are neither ahead of it nor open.
Found(c) ==
  { case \in Case : /\ OwnerOf[case] = call[c].owner /\ Exists(case)
                    /\ case \notin call[c].left /\ case # call[c].case }

SaveOK(c) ==
  call[c].step = "writing" => call[c].case \in Case /\ call[c].version \in Version

GetOK(c) ==
  call[c].step = "reading" =>
    /\ call[c].case \in Case
    /\ ~call[c].disturbed => /\ Saving(call[c].case) = {} /\ Exists(call[c].case)
                             /\ call[c].size = Len(file[call[c].case])

ListOK(c) ==
  call[c].step = "listing" =>
    /\ ~call[c].failed
    /\ \A case \in call[c].left : Exists(case)
    /\ call[c].case # NotFound => Exists(call[c].case) /\ call[c].case \notin call[c].left
    /\ ~call[c].disturbed =>
         /\ \A case \in Case : Saving(case) = {}
         /\ call[c].case # NotFound => call[c].size = Len(file[call[c].case])
         /\ call[c].found = Found(c)

ClientOK(c) == SaveOK(c) /\ GetOK(c) /\ ListOK(c)

\* A file that is being saved is empty until it is whole.
FileOK(case) ==
  /\ \A c, d \in Saving(case) : c = d
  /\ Saving(case) # {} => file[case] = << >>
  /\ Exists(case) /\ Saving(case) = {} /\ case \notin interrupted =>
       latest[case] # NotFound /\ file[case] = Text(latest[case])
  /\ latest[case] # NotFound => Exists(case)

\* The inductive invariant, if saves of a case do not overlap.
FileInv == /\ TypeOK
           /\ \A c \in Client : ClientOK(c)
           /\ \A case \in Case : FileOK(case)

-----------------------------------------------------------------------------
(* Contents and what they parse to.                                        *)

\* The text of a version is a content.
LEMMA TextType ==
  ASSUME NEW v \in Version
  PROVE  Text(v) \in Seq(Version) /\ Len(Text(v)) = Length[v] /\ Text(v)[1] = v
<1>1. Length[v] \in Nat \ {0}
  BY FileAssumption
<1> QED
  BY <1>1 DEF Text

\* What a content is put before does not change how it starts.
LEMMA StartsWith ==
  ASSUME NEW S, NEW s \in Seq(S), NEW t \in Seq(S), s # << >>
  PROVE  s \o t \in Seq(S) /\ (s \o t)[1] = s[1]
<1>1. Len(s) \in Nat /\ Len(t) \in Nat /\ Len(s) # 0
  BY EmptySeq
<1> QED
  BY <1>1

\* The whole text of a version parses to that version.
LEMMA ParseText ==
  ASSUME NEW v \in Version
  PROVE  Parse(Text(v)) = v
<1>1. \A w \in Version : Text(v) = Text(w) => v = w
  BY TextType
<1> QED
  BY <1>1 DEF Parse

\* A file that has not changed since its size was taken is read to its end.
LEMMA ReadsWhole ==
  ASSUME NEW case, file[case] \in Seq(Version)
  PROVE  Contents(case, Len(file[case])) = file[case]
<1>1. SubSeq(file[case], 1, Len(file[case])) = file[case]
  BY SubSeqFull
<1> QED
  BY <1>1 DEF Contents, FirstUnits

\* Writing to an empty file makes the text its content.
LEMMA WritesWhole ==
  ASSUME NEW v \in Version
  PROVE  Overwrite(<< >>, Text(v)) = Text(v)
<1>1. Text(v) \in Seq(Version) /\ Len(Text(v)) \in Nat
  BY TextType
<1>2. SubSeq(<< >>, Len(Text(v)) + 1, 0) = << >>
  BY <1>1
<1> QED
  BY <1>1, <1>2, ConcatEmptySeq DEF Overwrite

-----------------------------------------------------------------------------
(* The steps.                                                              *)

\* Who is saving is told by the steps and the cases of the clients.
LEMMA SavingSame ==
  ASSUME \A c \in Client : \/ call'[c].step = call[c].step /\ call'[c].case = call[c].case
                           \/ call[c].step # "writing" /\ call'[c].step # "writing"
  PROVE  \A case \in Case : Saving(case)' = Saving(case)
BY DEF Saving

\* A step of a client that touches no file.
LEMMA ReaderKeeps ==
  ASSUME FileInv, NEW c \in Client, NEW new \in Call, new.step # "writing",
         call[c].step # "writing", call' = [call EXCEPT ![c] = new],
         UNCHANGED <<file, latest, interrupted>>, ClientOK(c)'
  PROVE  FileInv'
<1>1. call' \in [Client -> Call] /\ call'[c] = new
  BY DEF FileInv, TypeOK
<1>2. \A d \in Client \ {c} : call'[d] = call[d]
  BY DEF FileInv, TypeOK
<1>3. \A case \in Case : Saving(case)' = Saving(case)
  BY <1>1, <1>2, SavingSame
<1>4. ASSUME NEW d \in Client \ {c} PROVE ClientOK(d)'
  <2>1. ClientOK(d) /\ call'[d] = call[d]
    BY <1>2 DEF FileInv
  <2> QED
    BY <1>3, <2>1 DEF ClientOK, SaveOK, GetOK, ListOK, Found, Exists
<1>5. \A case \in Case : FileOK(case)'
  BY <1>3 DEF FileInv, FileOK, Exists
<1>6. TypeOK'
  BY <1>1 DEF FileInv, TypeOK
<1> QED
  BY <1>4, <1>5, <1>6 DEF FileInv

\* Opening for a get takes the size of a file that stays as it is, or will tell.
LEMMA GetOpenKeeps ==
  ASSUME FileInv, NEW c \in Client, NEW case \in Case, GetOpen(c, case)
  PROVE  FileInv'
<1> PICK size, disturbed : size = Len(file[case]) /\ disturbed = (Saving(case) # {})
  OBVIOUS
<1> DEFINE opened == [Idle EXCEPT !.step = "reading", !.case = case, !.size = size,
                                  !.disturbed = disturbed]
           new == IF Exists(case) THEN opened ELSE Idle
<1>1. /\ call[c].step = "idle" /\ call' = [call EXCEPT ![c] = new]
      /\ UNCHANGED <<file, latest, interrupted>>
  BY DEF GetOpen
<1>2. file[case] \in Seq(Version) \cup {NotFound} /\ call \in [Client -> Call]
  BY DEF FileInv, TypeOK
<1>3. Exists(case) => size \in Nat
  BY <1>2 DEF Exists
<1>4. disturbed \in BOOLEAN
  OBVIOUS
<1>5. Idle \in Call /\ Idle.step = "idle"
  BY DEF Idle, Call
<1>6. Exists(case) => opened \in Call
  BY <1>3, <1>4 DEF Idle, Call
<1>7. /\ opened.step = "reading" /\ opened.case = case /\ opened.size = size
      /\ opened.disturbed = disturbed
  BY DEF Idle
<1> HIDE DEF opened
<1>8. /\ new \in Call /\ new.step # "writing" /\ new.step # "listing"
      /\ new.step = "reading" => /\ Exists(case) /\ new.case = case /\ new.size = size
                                 /\ new.disturbed = disturbed
  BY <1>5, <1>6, <1>7
<1> HIDE DEF new
<1>9. call'[c] = new /\ \A d \in Client \ {c} : call'[d] = call[d]
  BY <1>1, <1>2
<1>10. Saving(case)' = Saving(case)
  BY <1>1, <1>8, <1>9, SavingSame
<1>11. ClientOK(c)'
  BY <1>1, <1>8, <1>9, <1>10 DEF ClientOK, SaveOK, GetOK, ListOK, Exists
<1> QED
  BY <1>1, <1>8, <1>11, ReaderKeeps

\* Reading ends a get.
LEMMA GetReadKeeps ==
  ASSUME FileInv, NEW c \in Client, GetRead(c)
  PROVE  FileInv'
<1> DEFINE version == Parse(Contents(call[c].case, call[c].size))
           new == [call[c] EXCEPT !.step = "idle", !.version = version]
<1>1. /\ call[c].step = "reading" /\ call \in [Client -> Call] /\ call[c] \in Call
      /\ UNCHANGED <<file, latest, interrupted>>
  BY DEF GetRead, FileInv, TypeOK
<1>2. version \in Version \cup {NotFound}
  BY DEF Parse
<1> HIDE DEF version
<1>3. call' = [call EXCEPT ![c] = new]
  BY <1>1 DEF GetRead, version, Call
<1>4. new \in Call /\ new.step = "idle"
  BY <1>1, <1>2 DEF Call
<1> HIDE DEF new
<1>5. ClientOK(c)'
  BY <1>1, <1>3, <1>4 DEF ClientOK, SaveOK, GetOK, ListOK
<1> QED
  BY <1>1, <1>3, <1>4, <1>5, ReaderKeeps

\* readdir: everything that exists is ahead.
LEMMA ListStartKeeps ==
  ASSUME FileInv, NEW c \in Client, ListStart(c)
  PROVE  FileInv'
<1> PICK owner \in Owner :
       /\ call[c].step = "idle"
       /\ call' = [call EXCEPT ![c] =
            [Idle EXCEPT !.step = "listing", !.owner = owner,
                         !.left = { case \in Case : Exists(case) },
                         !.disturbed = \E case \in Case : Saving(case) # {}]]
       /\ UNCHANGED <<file, latest, interrupted>>
  BY DEF ListStart
<1> DEFINE left == { case \in Case : Exists(case) }
           disturbed == \E case \in Case : Saving(case) # {}
           new == [Idle EXCEPT !.step = "listing", !.owner = owner, !.left = left,
                               !.disturbed = disturbed]
<1>1. call' = [call EXCEPT ![c] = new] /\ call \in [Client -> Call]
  BY DEF FileInv, TypeOK
<1>2. left \subseteq Case /\ disturbed \in BOOLEAN
  OBVIOUS
<1>3. /\ \A case \in left : Exists(case)
      /\ ~disturbed => \A case \in Case : Saving(case) = {}
      /\ \A case \in Case : Exists(case) => case \in left
  OBVIOUS
<1> HIDE DEF left, disturbed
<1>4. /\ new \in Call /\ new.step = "listing" /\ new.case = NotFound /\ new.left = left
      /\ new.found = {} /\ new.disturbed = disturbed
  BY <1>2 DEF Idle, Call
<1>5. ~new.failed /\ new.owner = owner
  BY DEF Idle
<1> HIDE DEF new
<1>6. call'[c] = new /\ \A d \in Client \ {c} : call'[d] = call[d]
  BY <1>1
<1>7. \A case \in Case : Saving(case)' = Saving(case)
  BY <1>4, <1>6, SavingSame
<1>8. ListOK(c)'
  <2>1. \A case \in left : Exists(case)'
    BY <1>3 DEF Exists
  <2>2. new.case = NotFound /\ disturbed = new.disturbed
    BY <1>4
  <2>3. ~disturbed => Found(c)' = {}
    BY <1>3, <1>4, <1>6 DEF Found, Exists
  <2>4. ~disturbed => \A case \in Case : Saving(case)' = {}
    BY <1>3, <1>7
  <2> QED
    BY <1>4, <1>5, <1>6, <2>1, <2>2, <2>3, <2>4 DEF ListOK
<1>9. ClientOK(c)'
  BY <1>4, <1>6, <1>8 DEF ClientOK, SaveOK, GetOK
<1> QED
  BY <1>1, <1>4, <1>9, ReaderKeeps

\* The next file of a listing is one of those ahead.
LEMMA ListOpenKeeps ==
  ASSUME FileInv, NEW c \in Client, ListOpen(c)
  PROVE  FileInv'
<1>1. /\ call[c].step = "listing" /\ call[c].case = NotFound
      /\ call \in [Client -> Call] /\ call[c] \in Call /\ ListOK(c)
      /\ UNCHANGED <<file, latest, interrupted>>
  BY DEF ListOpen, FileInv, TypeOK, ClientOK
<1> PICK case \in call[c].left :
       call' = [call EXCEPT ![c].case = case, ![c].size = Len(file[case]),
                            ![c].left = @ \ {case}]
  BY DEF ListOpen
<1>2. case \in Case /\ Exists(case) /\ case # NotFound
  BY <1>1, FileAssumption DEF Call, ListOK
<1> PICK size : size = Len(file[case])
  OBVIOUS
<1>3. size \in Nat
  BY <1>2 DEF FileInv, TypeOK, Exists
<1> PICK left : left = call[c].left \ {case}
  OBVIOUS
<1> DEFINE new == [[[call[c] EXCEPT !.case = case] EXCEPT !.size = size] EXCEPT !.left = left]
<1>4. call' = [call EXCEPT ![c] = new]
  BY <1>1 DEF Call
<1>5. /\ new \in Call /\ new.step = "listing" /\ new.case = case /\ new.size = size
      /\ new.left = left /\ new.found = call[c].found /\ new.owner = call[c].owner
      /\ new.failed = call[c].failed /\ new.disturbed = call[c].disturbed
  BY <1>1, <1>2, <1>3 DEF Call
<1> HIDE DEF new
<1>6. call'[c] = new /\ \A d \in Client \ {c} : call'[d] = call[d]
  BY <1>1, <1>4
<1>7. \A f \in Case : Saving(f)' = Saving(f)
  BY <1>1, <1>5, <1>6, SavingSame
<1>8. Found(c)' = Found(c)
  BY <1>1, <1>2, <1>5, <1>6, FileAssumption DEF Found, Exists
<1>9. ListOK(c)'
  BY <1>1, <1>2, <1>5, <1>6, <1>7, <1>8 DEF ListOK, Exists
<1>10. ClientOK(c)'
  BY <1>5, <1>6, <1>9 DEF ClientOK, SaveOK, GetOK
<1> QED
  BY <1>1, <1>4, <1>5, <1>10, ReaderKeeps

\* An undisturbed listing reads each file whole, and it is a record.
LEMMA ListReadsRecord ==
  ASSUME FileInv, NEW c \in Client, ListRead(c), ~call[c].disturbed, interrupted = {}
  PROVE  Parse(Contents(call[c].case, call[c].size)) # NotFound
<1> DEFINE case == call[c].case
<1>1. /\ case \in Case /\ Exists(case) /\ Saving(case) = {}
      /\ call[c].size = Len(file[case])
  BY DEF ListRead, FileInv, TypeOK, ClientOK, ListOK, Call
<1>2. file[case] \in Seq(Version)
  BY <1>1 DEF FileInv, TypeOK, Exists
<1>3. latest[case] \in Version /\ file[case] = Text(latest[case])
  BY <1>1 DEF FileInv, TypeOK, FileOK
<1>4. Contents(case, call[c].size) = Text(latest[case])
  BY <1>1, <1>2, <1>3, ReadsWhole
<1> QED
  BY <1>3, <1>4, ParseText, FileAssumption

\* A file read is found if its owner is the one asked for.
LEMMA ListReadKeeps ==
  ASSUME FileInv, NEW c \in Client, ListRead(c)
  PROVE  FileInv'
<1> PICK found : found = FoundWith(c)
  OBVIOUS
<1> DEFINE read == [[[call[c] EXCEPT !.case = NotFound] EXCEPT !.size = 0] EXCEPT !.found = found]
           threw == [Idle EXCEPT !.failed = TRUE]
           new == IF Parse(Contents(call[c].case, call[c].size)) = NotFound THEN threw ELSE read
<1>1. /\ call[c].step = "listing" /\ call[c].case # NotFound /\ call[c].case \in Case
      /\ call \in [Client -> Call] /\ call[c] \in Call /\ ListOK(c)
      /\ UNCHANGED <<file, latest, interrupted>>
  BY DEF ListRead, FileInv, TypeOK, ClientOK, Call
<1>2. call' = [call EXCEPT ![c] = new]
  <2>1. CASE Parse(Contents(call[c].case, call[c].size)) = NotFound
    BY <2>1 DEF ListRead
  <2>2. CASE Parse(Contents(call[c].case, call[c].size)) # NotFound
    <3>1. call' = [call EXCEPT ![c] =
                     [call[c] EXCEPT !.case = NotFound, !.size = 0, !.found = found]]
      BY <2>2 DEF ListRead
    <3>2. [call[c] EXCEPT !.case = NotFound, !.size = 0, !.found = found] = read
      BY <1>1 DEF Call
    <3> QED
      BY <2>2, <3>1, <3>2
  <2> QED
    BY <2>1, <2>2
<1>3. found \in SUBSET Case
  BY <1>1 DEF Call, FoundWith
<1>4. ~call[c].disturbed => found = Found(c) \cup { f \in {call[c].case} : Owns(c) }
  BY <1>1 DEF ListOK, FoundWith
<1>5. /\ read \in Call /\ read.step = "listing" /\ read.case = NotFound
      /\ read.left = call[c].left /\ read.found = found /\ read.owner = call[c].owner
      /\ read.failed = call[c].failed /\ read.disturbed = call[c].disturbed
  BY <1>1, <1>3 DEF Call
<1>6. threw \in Call /\ threw.step = "idle"
  BY DEF Call, Idle
<1> HIDE DEF read, threw
<1>7. new \in Call /\ new.step \in {"idle", "listing"} /\ (new = threw \/ new = read)
  BY <1>5, <1>6
<1> HIDE DEF new
<1>8. call'[c] = new /\ \A d \in Client \ {c} : call'[d] = call[d]
  BY <1>1, <1>2
<1>9. \A f \in Case : Saving(f)' = Saving(f)
  BY <1>1, <1>7, <1>8, SavingSame
<1>10. ASSUME new = read PROVE ListOK(c)'
  <2>1. ~call[c].disturbed => found = Found(c)'
    BY <1>1, <1>4, <1>5, <1>8, <1>10, FileAssumption DEF Found, Exists, Owns, ListOK
  <2> QED
    BY <1>1, <1>5, <1>8, <1>9, <1>10, <2>1 DEF ListOK, Exists
<1>11. ClientOK(c)'
  BY <1>5, <1>6, <1>7, <1>8, <1>10 DEF ClientOK, SaveOK, GetOK, ListOK
<1> QED
  BY <1>1, <1>2, <1>7, <1>11, ReaderKeeps

\* The end of a listing leaves its client idle.
LEMMA ListEndKeeps ==
  ASSUME FileInv, NEW c \in Client, ListEnd(c)
  PROVE  FileInv'
<1> DEFINE new == [call[c] EXCEPT !.step = "idle"]
<1>1. /\ call[c].step = "listing" /\ call \in [Client -> Call] /\ call[c] \in Call
      /\ UNCHANGED <<file, latest, interrupted>>
  BY DEF ListEnd, FileInv, TypeOK
<1>2. call' = [call EXCEPT ![c] = new]
  BY <1>1 DEF ListEnd
<1>3. new \in Call /\ new.step = "idle"
  BY <1>1 DEF Call
<1> HIDE DEF new
<1>4. ClientOK(c)'
  BY <1>1, <1>2, <1>3 DEF ClientOK, SaveOK, GetOK, ListOK
<1> QED
  BY <1>1, <1>2, <1>3, <1>4, ReaderKeeps

\* Opening to save empties the file, and disturbs whoever reads it.
LEMMA SaveOpenKeeps ==
  ASSUME FileInv, Overlap # "saves", NEW c \in Client, NEW case \in Case, SaveOpen(c, case)
  PROVE  FileInv'
<1> PICK v \in Version :
       /\ Saves(c, case)
       /\ file' = [file EXCEPT ![case] = << >>]
       /\ call' = [d \in Client |->
                     IF d = c THEN [Idle EXCEPT !.step = "writing", !.case = case, !.version = v]
                     ELSE [call[d] EXCEPT !.disturbed = @ \/ d \in Disturbed(case)]]
       /\ UNCHANGED <<latest, interrupted>>
  BY DEF SaveOpen, Opens
<1> DEFINE new == [Idle EXCEPT !.step = "writing", !.case = case, !.version = v]
           met(d) == call[d].disturbed \/ d \in Disturbed(case)
           marked(d) == [call[d] EXCEPT !.disturbed = met(d)]
<1>1. /\ call \in [Client -> Call] /\ file \in [Case -> Seq(Version) \cup {NotFound}]
      /\ call[c].step = "idle"
  BY DEF FileInv, TypeOK, Saves
<1>2. Saving(case) = {}
  BY FileAssumption DEF Saves, MaySave, Saving
<1>3. << >> \in Seq(Version) /\ << >> # NotFound
  <2>1. << >> \in Seq(Version)
    BY EmptySeq
  <2> QED
    BY <2>1, FileAssumption
<1>4. file'[case] = << >> /\ \A f \in Case \ {case} : file'[f] = file[f]
  BY <1>1
<1>5. new \in Call /\ new.step = "writing" /\ new.case = case /\ new.version = v
  BY DEF Idle, Call
<1>6. call' = [d \in Client |-> IF d = c THEN new ELSE marked(d)]
  OBVIOUS
<1>7. \A d \in Client : /\ met(d) \in BOOLEAN
                        /\ met(d) <=> call[d].disturbed \/ d \in Disturbed(case)
  OBVIOUS
<1> HIDE DEF new, met
<1>8. ASSUME NEW d \in Client
      PROVE  /\ marked(d) \in Call /\ marked(d).disturbed = met(d)
             /\ marked(d).step = call[d].step /\ marked(d).case = call[d].case
             /\ marked(d).size = call[d].size /\ marked(d).version = call[d].version
             /\ marked(d).owner = call[d].owner /\ marked(d).left = call[d].left
             /\ marked(d).found = call[d].found /\ marked(d).failed = call[d].failed
  <2>1. call[d] \in Call /\ met(d) \in BOOLEAN
    BY <1>1, <1>7
  <2> QED
    BY <2>1 DEF Call
<1> HIDE DEF marked
<1>9. call'[c] = new /\ \A d \in Client \ {c} : call'[d] = marked(d)
  BY <1>6
<1>10. Saving(case)' = {c} /\ \A f \in Case \ {case} : Saving(f)' = Saving(f)
  BY <1>1, <1>2, <1>5, <1>8, <1>9 DEF Saving
<1>11. TypeOK'
  <2>1. file' \in [Case -> Seq(Version) \cup {NotFound}]
    BY <1>1, <1>3
  <2>2. \A d \in Client : (IF d = c THEN new ELSE marked(d)) \in Call
    BY <1>5, <1>8
  <2>3. call' \in [Client -> Call]
    BY <1>6, <2>2
  <2> QED
    BY <2>1, <2>3 DEF TypeOK, FileInv
<1>12. \A f \in Case : FileOK(f)'
  <2>1. FileOK(case)'
    BY <1>3, <1>4, <1>10 DEF FileOK, Exists
  <2>2. ASSUME NEW f \in Case \ {case} PROVE FileOK(f)'
    BY <1>4, <1>10 DEF FileInv, FileOK, Exists
  <2> QED
    BY <2>1, <2>2
<1>13. ClientOK(c)'
  BY <1>5, <1>9 DEF ClientOK, SaveOK, GetOK, ListOK
<1>14. ASSUME NEW d \in Client \ {c} PROVE ClientOK(d)'
  <2>1. ClientOK(d) /\ call'[d] = marked(d)
    BY <1>9 DEF FileInv
  <2>2. SaveOK(d)'
    BY <1>8, <2>1 DEF ClientOK, SaveOK
  <2>3. GetOK(d)'
    BY <1>4, <1>7, <1>8, <1>10, <2>1 DEF ClientOK, GetOK, Exists, Disturbed
  <2>4. ListOK(d)'
    <3>1. call[d].step = "listing" => d \in Disturbed(case)
      BY DEF Disturbed
    <3>2. call[d].step = "listing" =>
            call[d].case \in Case \cup {NotFound} /\ call[d].left \subseteq Case
      BY <1>1 DEF Call
    <3> QED
      BY <1>3, <1>4, <1>7, <1>8, <2>1, <3>1, <3>2 DEF ClientOK, ListOK, Exists
  <2> QED
    BY <2>2, <2>3, <2>4 DEF ClientOK
<1> QED
  BY <1>11, <1>12, <1>13, <1>14 DEF FileInv

\* Writing makes the file the version that is then the latest.
LEMMA SaveWriteKeeps ==
  ASSUME FileInv, NEW c \in Client, SaveWrite(c)
  PROVE  FileInv'
<1> PICK case, v : case = call[c].case /\ v = call[c].version
  OBVIOUS
<1>1. /\ call[c].step = "writing" /\ case \in Case /\ v \in Version
      /\ call \in [Client -> Call] /\ file \in [Case -> Seq(Version) \cup {NotFound}]
      /\ latest \in [Case -> Version \cup {NotFound}]
      /\ call' = [call EXCEPT ![c] = Idle] /\ UNCHANGED interrupted
  BY DEF SaveWrite, FileInv, TypeOK, ClientOK, SaveOK
<1>2. Saving(case) = {c} /\ file[case] = << >>
  BY <1>1 DEF Saving, FileInv, FileOK
<1>3. file'[case] = Text(v) /\ \A f \in Case \ {case} : file'[f] = file[f]
  BY <1>1, <1>2, WritesWhole DEF SaveWrite
<1>4. latest'[case] = v /\ \A f \in Case \ {case} : latest'[f] = latest[f]
  BY <1>1 DEF SaveWrite
<1>5. Text(v) \in Seq(Version) /\ Text(v) # NotFound
  BY <1>1, TextType, FileAssumption
<1>6. Idle \in Call /\ Idle.step = "idle"
  BY DEF Idle, Call
<1>7. call'[c] = Idle /\ \A d \in Client \ {c} : call'[d] = call[d]
  BY <1>1
<1>8. Saving(case)' = {} /\ \A f \in Case \ {case} : Saving(f)' = Saving(f)
  BY <1>1, <1>2, <1>6, <1>7 DEF Saving
<1>9. TypeOK'
  <2>1. file' \in [Case -> Seq(Version) \cup {NotFound}]
    BY <1>1, <1>3, <1>5 DEF SaveWrite
  <2>2. latest' \in [Case -> Version \cup {NotFound}]
    BY <1>1 DEF SaveWrite
  <2> QED
    BY <1>1, <1>6, <2>1, <2>2 DEF TypeOK, FileInv
<1>10. \A f \in Case : FileOK(f)'
  <2>1. FileOK(case)'
    BY <1>1, <1>3, <1>4, <1>5, <1>8, FileAssumption DEF FileOK, Exists
  <2>2. ASSUME NEW f \in Case \ {case} PROVE FileOK(f)'
    BY <1>1, <1>3, <1>4, <1>8 DEF FileInv, FileOK, Exists
  <2> QED
    BY <2>1, <2>2
<1>11. ClientOK(c)'
  BY <1>6, <1>7 DEF ClientOK, SaveOK, GetOK, ListOK
<1>12. ASSUME NEW d \in Client \ {c} PROVE ClientOK(d)'
  <2>1. ClientOK(d) /\ call'[d] = call[d]
    BY <1>7 DEF FileInv
  <2>2. GetOK(d)'
    BY <1>2, <1>3, <1>8, <2>1 DEF ClientOK, GetOK, Exists
  <2>3. ListOK(d)'
    <3>1. call[d].step = "listing" => call[d].disturbed
      BY <1>1, <1>2, <2>1 DEF ClientOK, ListOK
    <3>2. call[d].step = "listing" =>
            call[d].case \in Case \cup {NotFound} /\ call[d].left \subseteq Case
      BY <1>1 DEF Call
    <3> QED
      BY <1>3, <1>5, <2>1, <3>1, <3>2 DEF ClientOK, ListOK, Exists
  <2> QED
    BY <2>1, <2>2, <2>3 DEF ClientOK, SaveOK
<1> QED
  BY <1>9, <1>10, <1>11, <1>12 DEF FileInv

\* A crash ends the calls, and tells of the saves that it cut short.
LEMMA CrashKeeps ==
  ASSUME FileInv, Crash
  PROVE  FileInv'
<1>1. /\ \A c \in Client : call'[c] = Idle
      /\ interrupted' = interrupted \cup { case \in Case : Saving(case) # {} }
      /\ UNCHANGED <<file, latest>>
  BY DEF Crash
<1>2. Idle \in Call /\ Idle.step = "idle"
  BY DEF Idle, Call
<1>3. \A case \in Case : Saving(case)' = {}
  BY <1>1, <1>2 DEF Saving
<1>4. TypeOK'
  BY <1>2 DEF FileInv, TypeOK, Crash
<1>5. \A c \in Client : ClientOK(c)'
  BY <1>1, <1>2 DEF ClientOK, SaveOK, GetOK, ListOK
<1>6. \A case \in Case : FileOK(case)'
  BY <1>1, <1>3 DEF FileInv, FileOK, Exists
<1> QED
  BY <1>4, <1>5, <1>6 DEF FileInv

\* The invariant holds at first ...
LEMMA FileStarts ==
  Init => FileInv
<1> SUFFICES ASSUME Init PROVE FileInv
  OBVIOUS
<1>1. Idle \in Call /\ Idle.step = "idle"
  BY DEF Idle, Call
<1>2. \A case \in Case : Saving(case) = {}
  BY <1>1 DEF Init, Saving
<1>3. TypeOK
  BY <1>1 DEF Init, TypeOK
<1>4. \A c \in Client : ClientOK(c)
  BY <1>1 DEF Init, ClientOK, SaveOK, GetOK, ListOK
<1>5. \A case \in Case : FileOK(case)
  BY <1>2 DEF Init, FileOK, Exists
<1> QED
  BY <1>3, <1>4, <1>5 DEF FileInv

\* ... and every step keeps it.
LEMMA FileStep ==
  ASSUME FileInv, Overlap # "saves", [Next]_vars
  PROVE  FileInv'
<1>1. ASSUME NEW c \in Client, NEW case \in Case, SaveOpen(c, case) \/ GetOpen(c, case)
      PROVE  FileInv'
  BY <1>1, SaveOpenKeeps, GetOpenKeeps
<1>2. ASSUME NEW c \in Client, SaveWrite(c) \/ GetRead(c)
      PROVE  FileInv'
  BY <1>2, SaveWriteKeeps, GetReadKeeps
<1>3. ASSUME NEW c \in Client, ListStart(c) \/ ListOpen(c) \/ ListRead(c) \/ ListEnd(c)
      PROVE  FileInv'
  BY <1>3, ListStartKeeps, ListOpenKeeps, ListReadKeeps, ListEndKeeps
<1>4. CASE UNCHANGED vars
  <2>1. \A case \in Case : Saving(case)' = Saving(case)
    BY <1>4 DEF vars, Saving
  <2>2. TypeOK'
    BY <1>4 DEF vars, FileInv, TypeOK
  <2>3. ASSUME NEW c \in Client PROVE ClientOK(c)'
    <3>1. ClientOK(c)
      BY DEF FileInv
    <3>2. SaveOK(c)' /\ GetOK(c)'
      BY <1>4, <2>1, <3>1 DEF vars, ClientOK, SaveOK, GetOK, Exists
    <3>3. ListOK(c)'
      BY <1>4, <2>1, <3>1 DEF vars, ClientOK, ListOK, Found, Exists
    <3> QED
      BY <3>2, <3>3 DEF ClientOK
  <2>4. \A case \in Case : FileOK(case)'
    BY <1>4, <2>1 DEF vars, FileInv, FileOK, Exists
  <2> QED
    BY <2>2, <2>3, <2>4 DEF FileInv
<1> QED
  BY <1>1, <1>2, <1>3, <1>4, CrashKeeps DEF Next

\* So it is an invariant, if saves of a case do not overlap.
LEMMA FileInvariance ==
  ASSUME Overlap # "saves"
  PROVE  Spec => []FileInv
<1>1. FileInv /\ [Next]_vars => FileInv'
  BY FileStep
<1> QED
  BY <1>1, FileStarts, PTL DEF Spec

-----------------------------------------------------------------------------
(* Whatever overlaps: a file is never older than the last save.            *)

\* The file that a client has open exists, and so do those ahead of a listing.
OpenOK(c) ==
  /\ SaveOK(c)
  /\ call[c].step = "reading" => call[c].case \in Case
  /\ call[c].step \in {"writing", "reading", "listing"} /\ call[c].case # NotFound
       => Exists(call[c].case)
  /\ call[c].step = "listing" => \A case \in call[c].left : Exists(case)

\* A file that is not empty starts with the version saved last: writes start at
\* the start, and a record is never empty.
StartOK(case) == Exists(case) /\ file[case] # << >> => file[case][1] = latest[case]

\* The inductive invariant, whatever overlaps.
AnyInv == /\ TypeOK
          /\ \A c \in Client : OpenOK(c)
          /\ \A case \in Case : StartOK(case)

\* A step of a client that touches no file.
LEMMA ReaderKeepsAny ==
  ASSUME AnyInv, NEW c \in Client, NEW new \in Call, call' = [call EXCEPT ![c] = new],
         UNCHANGED <<file, latest, interrupted>>, OpenOK(c)'
  PROVE  AnyInv'
<1>1. call' \in [Client -> Call] /\ \A d \in Client \ {c} : call'[d] = call[d]
  BY DEF AnyInv, TypeOK
<1>2. ASSUME NEW d \in Client PROVE OpenOK(d)'
  <2>1. CASE d # c
    BY <1>1, <2>1 DEF AnyInv, OpenOK, SaveOK, Exists
  <2> QED
    BY <2>1
<1>3. TypeOK'
  BY <1>1 DEF AnyInv, TypeOK
<1>4. \A case \in Case : StartOK(case)'
  BY DEF AnyInv, StartOK, Exists
<1> QED
  BY <1>2, <1>3, <1>4 DEF AnyInv

\* A get opens a file that exists.
LEMMA GetOpenKeepsAny ==
  ASSUME AnyInv, NEW c \in Client, NEW case \in Case, GetOpen(c, case)
  PROVE  AnyInv'
<1> PICK size, disturbed : size = Len(file[case]) /\ disturbed = (Saving(case) # {})
  OBVIOUS
<1> DEFINE opened == [Idle EXCEPT !.step = "reading", !.case = case, !.size = size,
                                  !.disturbed = disturbed]
           new == IF Exists(case) THEN opened ELSE Idle
<1>1. call' = [call EXCEPT ![c] = new] /\ UNCHANGED <<file, latest, interrupted>>
  BY DEF GetOpen
<1>2. file[case] \in Seq(Version) \cup {NotFound} /\ call \in [Client -> Call]
  BY DEF AnyInv, TypeOK
<1>3. (Exists(case) => size \in Nat) /\ disturbed \in BOOLEAN
  BY <1>2 DEF Exists
<1>4. Idle \in Call /\ Idle.step = "idle"
  BY DEF Idle, Call
<1>5. Exists(case) => opened \in Call
  BY <1>3 DEF Idle, Call
<1>6. opened.step = "reading" /\ opened.case = case
  BY DEF Idle
<1> HIDE DEF opened
<1>7. /\ new \in Call /\ new.step \in {"idle", "reading"}
      /\ new.step = "reading" => Exists(case) /\ new.case = case
  BY <1>4, <1>5, <1>6
<1> HIDE DEF new
<1>8. call'[c] = new
  BY <1>1, <1>2
<1>9. OpenOK(c)'
  BY <1>1, <1>7, <1>8 DEF OpenOK, SaveOK, Exists
<1> QED
  BY <1>1, <1>7, <1>9, ReaderKeepsAny

\* Reading ends a get.
LEMMA GetReadKeepsAny ==
  ASSUME AnyInv, NEW c \in Client, GetRead(c)
  PROVE  AnyInv'
<1> DEFINE version == Parse(Contents(call[c].case, call[c].size))
           new == [call[c] EXCEPT !.step = "idle", !.version = version]
<1>1. /\ call \in [Client -> Call] /\ call[c] \in Call
      /\ UNCHANGED <<file, latest, interrupted>>
  BY DEF GetRead, AnyInv, TypeOK
<1>2. version \in Version \cup {NotFound}
  BY DEF Parse
<1> HIDE DEF version
<1>3. call' = [call EXCEPT ![c] = new]
  BY <1>1 DEF GetRead, version, Call
<1>4. new \in Call /\ new.step = "idle"
  BY <1>1, <1>2 DEF Call
<1> HIDE DEF new
<1>5. OpenOK(c)'
  BY <1>1, <1>3, <1>4 DEF OpenOK, SaveOK
<1> QED
  BY <1>1, <1>3, <1>4, <1>5, ReaderKeepsAny

\* A listing has before it what exists, opens one of those, reads it and ends.
LEMMA ListKeepsAny ==
  ASSUME AnyInv, NEW c \in Client,
         ListStart(c) \/ ListOpen(c) \/ ListRead(c) \/ ListEnd(c)
  PROVE  AnyInv'
<1>1. call \in [Client -> Call] /\ call[c] \in Call /\ OpenOK(c)
  BY DEF AnyInv, TypeOK
<1>2. UNCHANGED <<file, latest, interrupted>>
  BY DEF ListStart, ListOpen, ListRead, ListEnd
<1>3. CASE ListStart(c)
  <2> PICK owner \in Owner :
         call' = [call EXCEPT ![c] =
              [Idle EXCEPT !.step = "listing", !.owner = owner,
                           !.left = { case \in Case : Exists(case) },
                           !.disturbed = \E case \in Case : Saving(case) # {}]]
    BY <1>3 DEF ListStart
  <2> DEFINE left == { case \in Case : Exists(case) }
             disturbed == \E case \in Case : Saving(case) # {}
             new == [Idle EXCEPT !.step = "listing", !.owner = owner, !.left = left,
                                 !.disturbed = disturbed]
  <2>1. call' = [call EXCEPT ![c] = new]
    OBVIOUS
  <2>2. /\ left \subseteq Case /\ disturbed \in BOOLEAN
        /\ \A case \in left : Exists(case)
    OBVIOUS
  <2> HIDE DEF left, disturbed
  <2>3. new \in Call /\ new.step = "listing" /\ new.case = NotFound /\ new.left = left
    BY <2>2 DEF Idle, Call
  <2> HIDE DEF new
  <2>4. OpenOK(c)'
    BY <1>1, <1>2, <2>1, <2>2, <2>3 DEF OpenOK, SaveOK, Exists
  <2> QED
    BY <1>2, <2>1, <2>3, <2>4, ReaderKeepsAny
<1>4. CASE ListOpen(c)
  <2> PICK case \in call[c].left :
         call' = [call EXCEPT ![c].case = case, ![c].size = Len(file[case]),
                              ![c].left = @ \ {case}]
    BY <1>4 DEF ListOpen
  <2>1. call[c].step = "listing" /\ case \in Case /\ Exists(case)
    BY <1>1, <1>4 DEF ListOpen, OpenOK, Call
  <2> PICK size : size = Len(file[case])
    OBVIOUS
  <2>2. size \in Nat
    BY <2>1 DEF AnyInv, TypeOK, Exists
  <2> PICK left : left = call[c].left \ {case}
    OBVIOUS
  <2> DEFINE new == [[[call[c] EXCEPT !.case = case] EXCEPT !.size = size] EXCEPT !.left = left]
  <2>3. call' = [call EXCEPT ![c] = new]
    BY <1>1 DEF Call
  <2>4. new \in Call /\ new.step = "listing" /\ new.case = case /\ new.left = left
    BY <1>1, <2>1, <2>2 DEF Call
  <2> HIDE DEF new
  <2>5. OpenOK(c)'
    BY <1>1, <1>2, <2>1, <2>3, <2>4 DEF OpenOK, SaveOK, Exists
  <2> QED
    BY <1>2, <2>3, <2>4, <2>5, ReaderKeepsAny
<1>5. CASE ListRead(c)
  <2> PICK found : found = FoundWith(c)
    OBVIOUS
  <2> DEFINE read == [[[call[c] EXCEPT !.case = NotFound] EXCEPT !.size = 0] EXCEPT !.found = found]
             threw == [Idle EXCEPT !.failed = TRUE]
             new == IF Parse(Contents(call[c].case, call[c].size)) = NotFound THEN threw ELSE read
  <2>1. call[c].step = "listing" /\ call[c].case \in Case
    BY <1>1, <1>5 DEF ListRead, Call
  <2>2. call' = [call EXCEPT ![c] = new]
    <3>1. CASE Parse(Contents(call[c].case, call[c].size)) = NotFound
      BY <1>5, <3>1 DEF ListRead
    <3>2. CASE Parse(Contents(call[c].case, call[c].size)) # NotFound
      <4>1. call' = [call EXCEPT ![c] =
                       [call[c] EXCEPT !.case = NotFound, !.size = 0, !.found = found]]
        BY <1>5, <3>2 DEF ListRead
      <4>2. [call[c] EXCEPT !.case = NotFound, !.size = 0, !.found = found] = read
        BY <1>1 DEF Call
      <4> QED
        BY <3>2, <4>1, <4>2
    <3> QED
      BY <3>1, <3>2
  <2>3. found \in SUBSET Case
    BY <1>1, <2>1 DEF Call, FoundWith
  <2>4. /\ read \in Call /\ read.step = "listing" /\ read.case = NotFound
        /\ read.left = call[c].left
    BY <1>1, <2>1, <2>3 DEF Call
  <2>5. threw \in Call /\ threw.step = "idle"
    BY DEF Call, Idle
  <2> HIDE DEF read, threw
  <2>6. new \in Call /\ (new = threw \/ new = read)
    BY <2>4, <2>5
  <2> HIDE DEF new
  <2>7. OpenOK(c)'
    BY <1>1, <1>2, <2>1, <2>2, <2>4, <2>5, <2>6 DEF OpenOK, SaveOK, Exists
  <2> QED
    BY <1>2, <2>2, <2>6, <2>7, ReaderKeepsAny
<1>6. CASE ListEnd(c)
  <2> DEFINE new == [call[c] EXCEPT !.step = "idle"]
  <2>1. call' = [call EXCEPT ![c] = new]
    BY <1>1, <1>6 DEF ListEnd
  <2>2. new \in Call /\ new.step = "idle"
    BY <1>1 DEF Call
  <2> HIDE DEF new
  <2>3. OpenOK(c)'
    BY <1>1, <2>1, <2>2 DEF OpenOK, SaveOK
  <2> QED
    BY <1>2, <2>1, <2>2, <2>3, ReaderKeepsAny
<1> QED
  BY <1>3, <1>4, <1>5, <1>6

\* Opening to save makes the file, empty.
LEMMA SaveOpenKeepsAny ==
  ASSUME AnyInv, NEW c \in Client, NEW case \in Case, SaveOpen(c, case)
  PROVE  AnyInv'
<1> PICK v \in Version :
       /\ file' = [file EXCEPT ![case] = << >>]
       /\ call' = [d \in Client |->
                     IF d = c THEN [Idle EXCEPT !.step = "writing", !.case = case, !.version = v]
                     ELSE [call[d] EXCEPT !.disturbed = @ \/ d \in Disturbed(case)]]
       /\ UNCHANGED <<latest, interrupted>>
  BY DEF SaveOpen, Opens
<1> DEFINE new == [Idle EXCEPT !.step = "writing", !.case = case, !.version = v]
           met(d) == call[d].disturbed \/ d \in Disturbed(case)
           marked(d) == [call[d] EXCEPT !.disturbed = met(d)]
<1>1. call \in [Client -> Call] /\ file \in [Case -> Seq(Version) \cup {NotFound}]
  BY DEF AnyInv, TypeOK
<1>2. << >> \in Seq(Version) /\ << >> # NotFound
  <2>1. << >> \in Seq(Version)
    BY EmptySeq
  <2> QED
    BY <2>1, FileAssumption
<1>3. file'[case] = << >> /\ \A f \in Case \ {case} : file'[f] = file[f]
  BY <1>1
<1>4. \A f \in Case : f = case \/ Exists(f) => Exists(f)'
  BY <1>2, <1>3 DEF Exists
<1>5. new \in Call /\ new.step = "writing" /\ new.case = case /\ new.version = v
  BY DEF Idle, Call
<1>6. call' = [d \in Client |-> IF d = c THEN new ELSE marked(d)]
  OBVIOUS
<1>7. \A d \in Client : met(d) \in BOOLEAN
  OBVIOUS
<1> HIDE DEF new, met
<1>8. ASSUME NEW d \in Client
      PROVE  /\ marked(d) \in Call
             /\ marked(d).step = call[d].step /\ marked(d).case = call[d].case
             /\ marked(d).version = call[d].version /\ marked(d).left = call[d].left
  <2>1. call[d] \in Call /\ met(d) \in BOOLEAN
    BY <1>1, <1>7
  <2> QED
    BY <2>1 DEF Call
<1> HIDE DEF marked
<1>9. call'[c] = new /\ \A d \in Client \ {c} : call'[d] = marked(d)
  BY <1>6
<1>10. TypeOK'
  <2>1. file' \in [Case -> Seq(Version) \cup {NotFound}]
    BY <1>1, <1>2
  <2>2. \A d \in Client : (IF d = c THEN new ELSE marked(d)) \in Call
    BY <1>5, <1>8
  <2>3. call' \in [Client -> Call]
    BY <1>6, <2>2
  <2> QED
    BY <2>1, <2>3 DEF TypeOK, AnyInv
<1>11. ASSUME NEW f \in Case PROVE StartOK(f)'
  BY <1>3 DEF AnyInv, StartOK, Exists
<1>12. OpenOK(c)'
  BY <1>4, <1>5, <1>9 DEF OpenOK, SaveOK
<1>13. ASSUME NEW d \in Client \ {c} PROVE OpenOK(d)'
  <2>1. /\ OpenOK(d) /\ call'[d] = marked(d)
        /\ call[d].case \in Case \cup {NotFound} /\ call[d].left \subseteq Case
    BY <1>1, <1>9 DEF AnyInv, Call
  <2> QED
    BY <1>4, <1>8, <2>1 DEF OpenOK, SaveOK
<1> QED
  BY <1>10, <1>11, <1>12, <1>13 DEF AnyInv

\* Writing puts the version that is then the latest at the start of the file,
\* whatever an overlapping save has left there.
LEMMA SaveWriteKeepsAny ==
  ASSUME AnyInv, NEW c \in Client, SaveWrite(c)
  PROVE  AnyInv'
<1> PICK case, v : case = call[c].case /\ v = call[c].version
  OBVIOUS
<1> PICK content : content = Overwrite(file[case], Text(v))
  OBVIOUS
<1>1. /\ call[c].step = "writing" /\ case \in Case /\ v \in Version /\ Exists(case)
      /\ call \in [Client -> Call] /\ file \in [Case -> Seq(Version) \cup {NotFound}]
      /\ latest \in [Case -> Version \cup {NotFound}]
      /\ call' = [call EXCEPT ![c] = Idle] /\ UNCHANGED interrupted
  BY FileAssumption DEF SaveWrite, AnyInv, TypeOK, OpenOK, SaveOK
<1>2. file' = [file EXCEPT ![case] = content] /\ latest' = [latest EXCEPT ![case] = v]
  BY DEF SaveWrite
<1>3. content \in Seq(Version) /\ content[1] = v
  <2>1. file[case] \in Seq(Version)
    BY <1>1 DEF Exists
  <2>2. Text(v) \in Seq(Version) /\ Len(Text(v)) \in Nat \ {0} /\ Text(v)[1] = v
    BY <1>1, TextType, FileAssumption
  <2> PICK text, rest : text = Text(v) /\ rest = SubSeq(file[case], Len(text) + 1, Len(file[case]))
    OBVIOUS
  <2>3. text \in Seq(Version) /\ rest \in Seq(Version) /\ text # << >>
    BY <2>1, <2>2, SubSeqProperties
  <2> QED
    BY <2>2, <2>3, StartsWith DEF Overwrite
<1>4. content # NotFound
  BY <1>3, FileAssumption
<1>5. /\ file'[case] = content /\ latest'[case] = v
      /\ \A f \in Case \ {case} : file'[f] = file[f] /\ latest'[f] = latest[f]
  BY <1>1, <1>2
<1>6. \A f \in Case : Exists(f) => Exists(f)'
  BY <1>4, <1>5 DEF Exists
<1>7. Idle \in Call /\ Idle.step = "idle"
  BY DEF Idle, Call
<1>8. call'[c] = Idle /\ \A d \in Client \ {c} : call'[d] = call[d]
  BY <1>1
<1>9. TypeOK'
  BY <1>1, <1>2, <1>3, <1>7 DEF TypeOK, AnyInv
<1>10. ASSUME NEW f \in Case PROVE StartOK(f)'
  BY <1>3, <1>5 DEF AnyInv, StartOK, Exists
<1>11. ASSUME NEW d \in Client PROVE OpenOK(d)'
  <2>1. CASE d = c
    BY <1>7, <1>8, <2>1 DEF OpenOK, SaveOK
  <2>2. CASE d # c
    <3>1. /\ OpenOK(d) /\ call'[d] = call[d]
          /\ call[d].case \in Case \cup {NotFound} /\ call[d].left \subseteq Case
      BY <1>1, <1>8, <2>2 DEF AnyInv, Call
    <3> QED
      BY <1>6, <3>1 DEF OpenOK, SaveOK
  <2> QED
    BY <2>1, <2>2
<1> QED
  BY <1>9, <1>10, <1>11 DEF AnyInv

\* A crash ends the calls.
LEMMA CrashKeepsAny ==
  ASSUME AnyInv, Crash
  PROVE  AnyInv'
<1>1. Idle \in Call /\ Idle.step = "idle"
  BY DEF Idle, Call
<1>2. TypeOK'
  BY <1>1 DEF AnyInv, TypeOK, Crash
<1>3. \A c \in Client : OpenOK(c)'
  BY <1>1 DEF Crash, OpenOK, SaveOK
<1>4. \A case \in Case : StartOK(case)'
  BY DEF Crash, AnyInv, StartOK, Exists
<1> QED
  BY <1>2, <1>3, <1>4 DEF AnyInv

\* So it is an invariant.
LEMMA AnyInvariance ==
  Spec => []AnyInv
<1>1. Init => AnyInv
  <2> SUFFICES ASSUME Init PROVE AnyInv
    OBVIOUS
  <2>1. Idle \in Call /\ Idle.step = "idle"
    BY DEF Idle, Call
  <2>2. TypeOK
    BY <2>1 DEF Init, TypeOK
  <2>3. \A c \in Client : OpenOK(c)
    BY <2>1 DEF Init, OpenOK, SaveOK
  <2>4. \A case \in Case : StartOK(case)
    BY DEF Init, StartOK, Exists
  <2> QED
    BY <2>2, <2>3, <2>4 DEF AnyInv
<1>2. AnyInv /\ [Next]_vars => AnyInv'
  <2> SUFFICES ASSUME AnyInv, [Next]_vars PROVE AnyInv'
    OBVIOUS
  <2>1. ASSUME NEW c \in Client, NEW case \in Case, SaveOpen(c, case) \/ GetOpen(c, case)
        PROVE  AnyInv'
    BY <2>1, SaveOpenKeepsAny, GetOpenKeepsAny
  <2>2. ASSUME NEW c \in Client, SaveWrite(c) \/ GetRead(c)
        PROVE  AnyInv'
    BY <2>2, SaveWriteKeepsAny, GetReadKeepsAny
  <2>3. ASSUME NEW c \in Client, ListStart(c) \/ ListOpen(c) \/ ListRead(c) \/ ListEnd(c)
        PROVE  AnyInv'
    BY <2>3, ListKeepsAny
  <2>4. CASE UNCHANGED vars
    BY <2>4 DEF vars, AnyInv, TypeOK, OpenOK, SaveOK, StartOK, Exists
  <2> QED
    BY <2>1, <2>2, <2>3, <2>4, CrashKeepsAny DEF Next
<1> QED
  BY <1>1, <1>2, PTL DEF Spec

-----------------------------------------------------------------------------
(* What a file store promises.                                             *)

\* Type correctness of the file store, whatever overlaps.
THEOREM FilesAreTyped ==
  Spec => []TypeOK
<1>1. AnyInv => TypeOK
  BY DEF AnyInv
<1> QED
  BY <1>1, AnyInvariance, PTL

\* Whatever overlaps and wherever the process stops, a get returns the version
\* saved last or none: what it read begins with the version saved last, and a
\* content that parses is all of one version.
THEOREM GetsAreNeverStale ==
  Spec => FoundIsLatest
<1>1. ASSUME AnyInv, NEW c \in Client, GetRead(c)
      PROVE  call'[c].version \in {NotFound, latest[call[c].case]}
  <2> PICK case, size, version :
         /\ case = call[c].case /\ size = call[c].size
         /\ version = Parse(Contents(case, size))
    OBVIOUS
  <2>1. /\ case \in Case /\ Exists(case) /\ file[case] \in Seq(Version) /\ size \in Nat
        /\ StartOK(case) /\ call \in [Client -> Call] /\ call[c] \in Call
    BY <1>1, FileAssumption DEF GetRead, AnyInv, TypeOK, OpenOK, Exists, Call
  <2>2. call'[c].version = version
    BY <1>1, <2>1 DEF GetRead, Call
  <2>3. ASSUME version # NotFound
        PROVE  version = latest[case]
    <3>1. version \in Version /\ Contents(case, size) = Text(version)
      BY <2>3 DEF Parse
    <3> PICK content : content = Contents(case, size)
      OBVIOUS
    <3>2. content # << >> /\ content[1] = version
      BY <3>1, TextType, FileAssumption
    <3>3. file[case] # << >> /\ content[1] = file[case][1]
      <4>1. CASE size = 0
        BY <3>2, <4>1 DEF Contents
      <4>2. CASE size # 0
        <5> PICK n : n = IF size < Len(file[case]) THEN size ELSE Len(file[case])
          OBVIOUS
        <5>1. n \in Nat /\ n <= Len(file[case]) /\ Len(file[case]) \in Nat
          BY <2>1
        <5>2. content = SubSeq(file[case], 1, n)
          BY <4>2 DEF Contents, FirstUnits
        <5>3. file[case] # << >>
          BY <2>1, <3>2, <5>1, <5>2
        <5>4. n >= 1
          BY <2>1, <4>2, <5>1, <5>3, EmptySeq
        <5> QED
          BY <2>1, <5>1, <5>2, <5>3, <5>4
      <4> QED
        BY <4>1, <4>2
    <3> QED
      BY <2>1, <3>2, <3>3 DEF StartOK
  <2> QED
    BY <2>2, <2>3
<1>2. AnyInv => [\A c \in Client :
                   GetRead(c) => call'[c].version \in {NotFound, latest[call[c].case]}]_vars
  BY <1>1
<1> QED
  BY <1>2, AnyInvariance, PTL DEF FoundIsLatest

\* A file that no save is writing or was cut short in is the version saved
\* last, whole, wherever gets, listings and crashes fall.
THEOREM FilesAreWhole ==
  ASSUME Overlap # "saves"
  PROVE  Spec => []SettledIsLatest
<1>1. ASSUME FileInv, NEW case \in Case \ interrupted, Settled(case)
      PROVE  Holds(case)
  <2>1. Exists(case) /\ latest[case] \in Version /\ file[case] = Text(latest[case])
    BY <1>1 DEF FileInv, FileOK, TypeOK, Settled
  <2> QED
    BY <2>1, ParseText DEF Holds
<1>2. FileInv => SettledIsLatest
  BY <1>1 DEF SettledIsLatest
<1> QED
  BY <1>2, FileInvariance, PTL

\* A get that no save of its case overlapped returns the version saved last.
THEOREM GetsAreLatest ==
  ASSUME Overlap # "saves"
  PROVE  Spec => UndisturbedGetIsLatest
<1>1. ASSUME FileInv, NEW c \in Client, GetRead(c), ~call[c].disturbed,
             call[c].case \notin interrupted
      PROVE  call'[c].version = latest[call[c].case]
  <2> DEFINE case == call[c].case
  <2>1. /\ case \in Case /\ Saving(case) = {} /\ Exists(case) /\ call[c].size = Len(file[case])
        /\ call \in [Client -> Call] /\ call[c] \in Call
    BY <1>1 DEF GetRead, FileInv, TypeOK, ClientOK, GetOK
  <2>2. latest[case] \in Version /\ file[case] = Text(latest[case])
    BY <1>1, <2>1 DEF FileInv, FileOK, TypeOK
  <2>3. Contents(case, call[c].size) = Text(latest[case])
    BY <2>1, <2>2, TextType, ReadsWhole
  <2>4. Parse(Contents(case, call[c].size)) = latest[case]
    BY <2>2, <2>3, ParseText
  <2> PICK version : version = Parse(Contents(case, call[c].size))
    OBVIOUS
  <2>5. call'[c].version = version
    BY <1>1, <2>1 DEF GetRead, Call
  <2> QED
    BY <2>4, <2>5
<1>2. FileInv => [\A c \in Client :
                    GetRead(c) /\ ~call[c].disturbed /\ call[c].case \notin interrupted
                      => call'[c].version = latest[call[c].case]]_vars
  BY <1>1
<1> QED
  BY <1>2, FileInvariance, PTL DEF UndisturbedGetIsLatest

\* A listing that no save overlapped, in a directory where none was cut short,
\* returns its owner's cases, all of them and no others.
THEOREM ListingsAreComplete ==
  ASSUME Overlap # "saves"
  PROVE  Spec => UndisturbedListIsComplete
<1> DEFINE Complete(c) ==
      /\ ~call'[c].failed
      /\ call'[c].found = { case \in Case : OwnerOf[case] = call[c].owner
                                            /\ latest[case] # NotFound }
<1>1. ASSUME FileInv, NEW c \in Client, ListEnd(c), ~call[c].disturbed, interrupted = {}
      PROVE  Complete(c)
  <2>1. /\ call \in [Client -> Call] /\ call[c] \in Call /\ ListOK(c)
        /\ call[c].step = "listing" /\ call[c].case = NotFound /\ call[c].left = {}
    BY <1>1 DEF ListEnd, FileInv, TypeOK, ClientOK
  <2>2. \A case \in Case : Exists(case) <=> latest[case] # NotFound
    BY <1>1, <2>1 DEF FileInv, FileOK, ListOK
  <2>3. Found(c) = { case \in Case : OwnerOf[case] = call[c].owner /\ latest[case] # NotFound }
    BY <2>1, <2>2, FileAssumption DEF Found
  <2>4. call'[c].failed = call[c].failed /\ call'[c].found = call[c].found
    BY <1>1, <2>1 DEF ListEnd, Call
  <2> QED
    BY <1>1, <2>1, <2>3, <2>4 DEF ListOK
<1>2. ASSUME FileInv, NEW c \in Client, ListRead(c), ~call[c].disturbed, interrupted = {}
      PROVE  call'[c].step = "listing"
  <2>1. call \in [Client -> Call] /\ call[c] \in Call /\ call[c].step = "listing"
    BY <1>2 DEF ListRead, FileInv, TypeOK
  <2> PICK found : found = FoundWith(c)
    OBVIOUS
  <2>2. call' = [call EXCEPT ![c] = [call[c] EXCEPT !.case = NotFound, !.size = 0, !.found = found]]
    BY <1>2, ListReadsRecord DEF ListRead
  <2> QED
    BY <2>1, <2>2 DEF Call
<1>3. FileInv => [\A c \in Client :
                    /\ ListRead(c) \/ ListEnd(c)
                    /\ call'[c].step = "idle"
                    /\ ~call[c].disturbed /\ interrupted = {}
                    => Complete(c)]_vars
  BY <1>1, <1>2
<1> QED
  BY <1>3, FileInvariance, PTL DEF UndisturbedListIsComplete
==============================================================================

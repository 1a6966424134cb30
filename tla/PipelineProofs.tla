--------------------------- MODULE PipelineProofs ---------------------------
(***************************************************************************)
(* For any number of sources, packs, sessions and composes, whatever dies: *)
(* what ingest stores is licensed and found again, what a digest or a      *)
(* session contradicts is applied only by a person, an applied invariant   *)
(* has its test, and every node is shown to those it is meant for.         *)
(***************************************************************************)
EXTENDS Pipeline, SequenceTheorems, TLAPS

-----------------------------------------------------------------------------
(* What one request leads to *)

ContentOf(q) == IF TextName(q) = "content" THEN TextLength(q) ELSE NoFile
ExcerptOf(q) == IF TextName(q) = "excerpt" THEN TextLength(q) ELSE NoFile

LEMMA RequestTypes ==
  ASSUME NEW q \in Request
  PROVE  /\ SourceType(q) \in SourceTypes /\ ContentMode(q) \in Modes
         /\ TextLength(q) \in Nat
         /\ TextName(q) \in {"none", "content", "excerpt"}
         /\ PacketOf(q) \in Packet
<1>1. SourceType(q) \in SourceTypes
  BY DEF SourceType, Request, Places, SourceTypes
<1>2. ContentMode(q) \in Modes
  BY DEF ContentMode, Request, Modes
<1>3. TextLength(q) \in Nat
  BY <1>1, <1>2 DEF TextLength, Request, SourceTypes, BoundedExternalText, Shorter,
     PdfSummary, ExcerptLimit, ExternalPublicTextLimit
<1>4. TextName(q) \in {"none", "content", "excerpt"}
  BY DEF TextName
<1>5. PacketOf(q) \in Packet
  BY <1>1, <1>2 DEF PacketOf, Packet, Request
<1> QED
  BY <1>1, <1>2, <1>3, <1>4, <1>5

\* The whole text is stored of sources only that may be redistributed, and of
\* external ones up to the limit.
LEMMA StoredTextLicensed ==
  ASSUME NEW q \in Request, ~Refused(q), TextName(q) = "content"
  PROVE  /\ q.redistributable = "yes"
         /\ SourceType(q) # "local_draft" => TextLength(q) <= ExternalPublicTextLimit + 1
<1>1. ContentMode(q) = "public_text"
  BY DEF TextName
<1>2. SourceType(q) \in SourceTypes /\ q.length \in Nat
  BY RequestTypes DEF Request
<1>3. q.redistributable = "yes"
  <2>1. PacketOf(q).mode = "public_text" /\ PacketOf(q).redistributable = q.redistributable
    BY <1>1 DEF PacketOf
  <2> QED
    BY <2>1 DEF Refused, SourcePacketValid
<1>4. SourceType(q) # "pdf_arxiv"
  BY <1>1 DEF Refused
<1>5. SourceType(q) # "local_draft" =>
        TextLength(q) = Shorter(q.length, ExternalPublicTextLimit) + 1
  BY <1>1, <1>2, <1>4 DEF TextLength, BoundedExternalText, SourceTypes
<1> QED
  BY <1>2, <1>3, <1>5 DEF Shorter, ExternalPublicTextLimit

-----------------------------------------------------------------------------
(* What a call of ingest has written at which point *)

Directory == [made : BOOLEAN, content : Nat \cup {NoFile}, excerpt : Nat \cup {NoFile},
              packet : Packet \cup {NoFile}]
Call == [at : {"none", "text", "packet", "job", "done", "dead"},
         request : Request \cup {NoRequest}]
IngestTyped ==
  /\ packets \in [Sources -> Directory]
  /\ jobs \in [Sources -> {"none", "pending", "done"}]
  /\ ingest \in [Sources -> Call]

HasItsText(d, q) == d.content = ContentOf(q) /\ d.excerpt = ExcerptOf(q)
\* What the directory d and the job of a source are when its call is c
Stage(d, job, c) ==
  LET q == c.request IN
  /\ c.at = "none" => d = NoDirectory /\ job = "none"
  /\ c.at # "none" => q \in PossibleRequests /\ ~Refused(q) /\ d.made
  /\ c.at # "none" => d.content \in {NoFile, ContentOf(q)} /\ d.excerpt \in {NoFile, ExcerptOf(q)}
  /\ c.at \in {"packet", "job", "done"} \/ d.packet # NoFile => HasItsText(d, q)
  /\ c.at \in {"text", "packet"} => d.packet = NoFile /\ job = "none"
  /\ c.at \in {"job", "done"} => d.packet = PacketOf(q)
  /\ c.at = "dead" => d.packet \in {NoFile, PacketOf(q)}
  /\ c.at # "done" => job = "none"
IngestInv ==
  /\ IngestTyped
  /\ left \in History
  /\ \A s \in Sources : Stage(packets[s], jobs[s], ingest[s])

LEMMA IngestInvInit == Init => IngestInv
<1> SUFFICES ASSUME Init PROVE IngestInv
  OBVIOUS
<1>1. IngestTyped
  BY DEF Init, IngestInit, IngestTyped, Directory, Call, NoDirectory, NotBegun
<1>2. left \in History
  BY PipelineAssumption DEF Init
<1>3. ASSUME NEW s \in Sources PROVE Stage(packets[s], jobs[s], ingest[s])
  BY DEF Init, IngestInit, Stage, NoDirectory, NotBegun
<1> QED
  BY <1>1, <1>2, <1>3 DEF IngestInv

\* A step of one source's call leaves the other sources alone.
LEMMA OneSource ==
  ASSUME IngestInv, NEW s \in Sources, NEW d \in Directory, NEW c \in Call,
         NEW job \in {"none", "pending", "done"}, Stage(d, job, c), left' \in History,
         packets' = [packets EXCEPT ![s] = d], jobs' = [jobs EXCEPT ![s] = job],
         ingest' = [ingest EXCEPT ![s] = c]
  PROVE  IngestInv'
<1>1. IngestTyped'
  BY DEF IngestInv, IngestTyped
<1>2. ASSUME NEW t \in Sources PROVE Stage(packets[t], jobs[t], ingest[t])'
  <2>1. CASE t = s
    <3>1. packets'[s] = d /\ jobs'[s] = job /\ ingest'[s] = c
      BY DEF IngestInv, IngestTyped
    <3> QED
      BY <2>1, <3>1 DEF Stage, HasItsText
  <2>2. CASE t # s
    <3>1. packets'[t] = packets[t] /\ jobs'[t] = jobs[t] /\ ingest'[t] = ingest[t]
      BY <2>2 DEF IngestInv, IngestTyped
    <3> QED
      BY <3>1 DEF IngestInv, Stage, HasItsText
  <2> QED
    BY <2>1, <2>2
<1> QED
  BY <1>1, <1>2 DEF IngestInv

LEMMA HistoryStays ==
  ASSUME left \in History, NEW command \in Commands, May(command)
  PROVE  left' \in History
  BY DEF History, May

LEMMA SameAtSource ==
  ASSUME IngestTyped, NEW s \in Sources
  PROVE  /\ packets = [packets EXCEPT ![s] = packets[s]]
         /\ jobs = [jobs EXCEPT ![s] = jobs[s]]
         /\ ingest = [ingest EXCEPT ![s] = ingest[s]]
         /\ packets[s] \in Directory /\ ingest[s] \in Call
         /\ jobs[s] \in {"none", "pending", "done"}
  BY DEF IngestTyped

LEMMA StartIngestKeeps ==
  ASSUME IngestInv, NEW s \in Sources, NEW q \in left.requests, Ingest(s, q)
  PROVE  IngestInv'
<1>1. q \in PossibleRequests /\ left' \in History
  BY HistoryStays DEF IngestInv, History, Ingest, Commands
<1> DEFINE d == [packets[s] EXCEPT !.made = TRUE]
           c == [at |-> "text", request |-> q]
<1>2. d \in Directory /\ c \in Call
  BY <1>1, SameAtSource DEF IngestInv, Directory, Call, PossibleRequests
<1>3. packets' = [packets EXCEPT ![s] = d] /\ jobs' = [jobs EXCEPT ![s] = jobs[s]]
      /\ ingest' = [ingest EXCEPT ![s] = c]
  BY SameAtSource DEF Ingest, StartIngest, IngestInv
<1>4. packets[s] = NoDirectory /\ jobs[s] = "none" /\ ~Refused(q)
  BY DEF Ingest, StartIngest, IngestInv, Stage, NotBegun
<1>5. Stage(d, jobs[s], c)
  BY <1>1, <1>4 DEF Stage, NoDirectory, HasItsText
<1>6. jobs[s] \in {"none", "pending", "done"}
  BY DEF IngestInv, IngestTyped
<1> HIDE DEF d, c
<1> QED
  BY <1>1, <1>2, <1>3, <1>5, <1>6, OneSource

LEMMA GoOnKeeps ==
  ASSUME IngestInv, NEW s \in Sources, IngestStep(s), UNCHANGED left
  PROVE  IngestInv'
<1> DEFINE q == ingest[s].request
<1>s. /\ packets[s] \in Directory /\ ingest[s] \in Call /\ IngestTyped
      /\ jobs[s] \in {"none", "pending", "done"}
      /\ Stage(packets[s], jobs[s], ingest[s]) /\ left' \in History
  BY SameAtSource DEF IngestInv
<1>q. ingest[s].at # "none" =>
        /\ q \in Request /\ TextLength(q) \in Nat /\ PacketOf(q) \in Packet
        /\ TextName(q) \in {"none", "content", "excerpt"}
  BY <1>s, RequestTypes DEF Stage, PossibleRequests
<1>1. CASE WriteText(s)
  <2> DEFINE d == [packets[s] EXCEPT !.content = IF TextName(q) = "content" THEN TextLength(q) ELSE @,
                                     !.excerpt = IF TextName(q) = "excerpt" THEN TextLength(q) ELSE @]
             c == [ingest[s] EXCEPT !.at = "packet"]
  <2>1. ingest[s].at = "text" /\ packets[s].packet = NoFile
    BY <1>1, <1>s DEF WriteText, Stage
  <2>2. ingest' = [ingest EXCEPT ![s] = c] /\ jobs' = [jobs EXCEPT ![s] = jobs[s]]
    BY <1>1, <1>s, SameAtSource DEF WriteText, At
  <2>3. packets' = [packets EXCEPT ![s] = d]
    <3>1. CASE TextName(q) = "content"
      BY <1>1, <1>s, <3>1 DEF WriteText, IngestTyped, Directory
    <3>2. CASE TextName(q) = "excerpt"
      BY <1>1, <1>s, <3>2 DEF WriteText, IngestTyped, Directory
    <3>3. CASE TextName(q) = "none"
      <4>1. packets' = packets
        BY <1>1, <3>3 DEF WriteText
      <4>2. d = packets[s]
        BY <1>s, <3>3 DEF Directory
      <4> QED
        BY <4>1, <4>2, <1>s, SameAtSource
    <3> QED
      BY <1>q, <2>1, <3>1, <3>2, <3>3
  <2>4. d \in Directory /\ c \in Call
    BY <1>s, <1>q, <2>1 DEF Directory, Call
  <2>5. /\ c.at = "packet" /\ c.request = q
        /\ d.made = packets[s].made /\ d.packet = NoFile
        /\ d.content = IF TextName(q) = "content" THEN TextLength(q) ELSE packets[s].content
        /\ d.excerpt = IF TextName(q) = "excerpt" THEN TextLength(q) ELSE packets[s].excerpt
    BY <1>s, <2>1 DEF Directory, Call
  <2>6. packets[s].content \in {NoFile, ContentOf(q)}
    BY <1>s, <2>1 DEF Stage
  <2>7. packets[s].excerpt \in {NoFile, ExcerptOf(q)}
    BY <1>s, <2>1 DEF Stage
  <2>8. HasItsText(d, q)
    BY <2>5, <2>6, <2>7 DEF HasItsText, ContentOf, ExcerptOf
  <2>9. Stage(d, jobs[s], c)
    <3> HIDE DEF d, c
    <3> QED
      BY <1>s, <2>1, <2>5, <2>8 DEF Stage, HasItsText
  <2> HIDE DEF d, c
  <2> QED
    BY <1>s, <2>2, <2>3, <2>4, <2>9, OneSource
<1>2. CASE WritePacket(s)
  <2> DEFINE d == [packets[s] EXCEPT !.packet = PacketOf(q)]
             c == [ingest[s] EXCEPT !.at = "job"]
  <2>1. ingest[s].at = "packet"
    BY <1>2 DEF WritePacket
  <2>2. /\ packets' = [packets EXCEPT ![s] = d] /\ jobs' = [jobs EXCEPT ![s] = jobs[s]]
        /\ ingest' = [ingest EXCEPT ![s] = c]
    BY <1>2, <1>s, SameAtSource DEF WritePacket, At, IngestTyped
  <2>3. d \in Directory /\ c \in Call
    BY <1>s, <1>q, <2>1 DEF Directory, Call
  <2>4. Stage(d, jobs[s], c)
    BY <1>s, <1>q, <2>1 DEF Stage, HasItsText, Directory, Call
  <2> HIDE DEF d, c
  <2> QED
    BY <1>s, <2>2, <2>3, <2>4, OneSource
<1>3. CASE CreateJob(s)
  <2> DEFINE c == [ingest[s] EXCEPT !.at = "done"]
  <2>1. ingest[s].at = "job"
    BY <1>3 DEF CreateJob
  <2>2. /\ packets' = [packets EXCEPT ![s] = packets[s]]
        /\ jobs' = [jobs EXCEPT ![s] = "pending"] /\ ingest' = [ingest EXCEPT ![s] = c]
    BY <1>3, <1>s, SameAtSource DEF CreateJob, At
  <2>3. c \in Call
    BY <1>s DEF Call
  <2>4. Stage(packets[s], "pending", c)
    BY <1>s, <2>1 DEF Stage, HasItsText, Call
  <2> HIDE DEF c
  <2> QED
    BY <1>s, <2>2, <2>3, <2>4, OneSource
<1> QED
  BY <1>1, <1>2, <1>3 DEF IngestStep

LEMMA DyingKeeps ==
  ASSUME IngestInv, NEW s \in Sources, DieIngesting(s)
  PROVE  IngestInv'
<1> DEFINE c == [ingest[s] EXCEPT !.at = "dead"]
<1>s. /\ packets[s] \in Directory /\ ingest[s] \in Call /\ IngestTyped
      /\ jobs[s] \in {"none", "pending", "done"}
      /\ Stage(packets[s], jobs[s], ingest[s])
  BY SameAtSource DEF IngestInv
<1>1. left' \in History
  BY HistoryStays DEF DieIngesting, IngestInv, Commands
<1>2. /\ packets' = [packets EXCEPT ![s] = packets[s]] /\ jobs' = [jobs EXCEPT ![s] = jobs[s]]
      /\ ingest' = [ingest EXCEPT ![s] = c] /\ Ingesting(s)
  BY <1>s, SameAtSource DEF DieIngesting, IngestDies, At
<1>3. c \in Call /\ Stage(packets[s], jobs[s], c)
  BY <1>s, <1>2 DEF Stage, HasItsText, Call, Ingesting
<1> HIDE DEF c
<1> QED
  BY <1>s, <1>1, <1>2, <1>3, OneSource

\* A digest only ends the job of a source whose call is done.
LEMMA DigestKeeps ==
  ASSUME IngestInv, NEW s \in Sources, NEW d, NEW queued \in BOOLEAN, Digest(s, d, queued)
  PROVE  IngestInv'
<1> DEFINE job == IF queued THEN "done" ELSE jobs[s]
<1>s. /\ packets[s] \in Directory /\ ingest[s] \in Call /\ IngestTyped
      /\ jobs[s] \in {"none", "pending", "done"}
      /\ Stage(packets[s], jobs[s], ingest[s])
  BY SameAtSource DEF IngestInv
<1>1. left' \in History
  BY HistoryStays DEF Digest, IngestInv, Commands
<1>2. /\ packets' = [packets EXCEPT ![s] = packets[s]] /\ jobs' = [jobs EXCEPT ![s] = job]
      /\ ingest' = [ingest EXCEPT ![s] = ingest[s]]
  BY <1>s, SameAtSource DEF Digest
<1>3. Stage(packets[s], job, ingest[s])
  BY <1>s DEF Digest, Stage, HasItsText, Call
<1> QED
  BY <1>s, <1>1, <1>2, <1>3, OneSource

LEMMA ElsewhereKeeps ==
  ASSUME IngestInv, UNCHANGED ingestVars, left' \in History
  PROVE  IngestInv'
  BY DEF IngestInv, IngestTyped, ingestVars, Stage, HasItsText

LEMMA IngestInvNext == IngestInv /\ [Next]_vars => IngestInv'
<1> SUFFICES ASSUME IngestInv, [Next]_vars PROVE IngestInv'
  OBVIOUS
<1>l. left \in History
  BY DEF IngestInv
<1>1. ASSUME NEW s \in Sources,
             \/ \E q \in left.requests : Ingest(s, q)
             \/ GoOnIngesting(s) \/ DieIngesting(s)
             \/ \E d \in left.answers, queued \in BOOLEAN : Digest(s, d, queued)
      PROVE  IngestInv'
  BY <1>1, StartIngestKeeps, GoOnKeeps, DyingKeeps, DigestKeeps DEF GoOnIngesting
<1>2. ASSUME NEW s \in Sources, NEW m \in Packs, Reconcile(m, s) PROVE IngestInv'
  BY <1>l, <1>2, HistoryStays, ElsewhereKeeps DEF Reconcile, Commands
<1>3. ASSUME NEW m \in Packs,
             \/ \E w \in Summaries : ProposeWriteback(m, w)
             \/ WriteDelta(m) \/ WritebackDies(m)
             \/ \E a \in BOOLEAN : Apply(m, a)
      PROVE  IngestInv'
  BY <1>l, <1>3, HistoryStays, ElsewhereKeeps
     DEF ProposeWriteback, WriteDelta, WritebackDies, Apply, Commands
<1>4. CASE Commit
  BY <1>l, <1>4, HistoryStays, ElsewhereKeeps DEF Commit, Commands
<1>5. ASSUME NEW b \in Builders,
             StartCompose(b) \/ ReadRegistry(b) \/ WriteFile(b) \/ ComposerDies(b)
      PROVE  IngestInv'
  BY <1>l, <1>5, HistoryStays, ElsewhereKeeps
     DEF StartCompose, ReadRegistry, WriteFile, ComposerDies, Commands
<1>6. CASE UNCHANGED vars
  BY <1>l, <1>6, ElsewhereKeeps DEF vars
<1> QED
  BY <1>1, <1>2, <1>3, <1>4, <1>5, <1>6 DEF Next

\* Whatever is ingested and wherever a call dies, no text lies in the repository
\* that may not be redistributed, and no external one beyond the limit.
THEOREM Licensed == Spec => []OnlyLicensedText
<1>1. IngestInv => OnlyLicensedText
  <2> SUFFICES ASSUME IngestInv, NEW s \in Sources, packets[s].content # NoFile
               PROVE  LET q == ingest[s].request IN
                      /\ q.redistributable = "yes"
                      /\ SourceType(q) # "local_draft" =>
                           packets[s].content <= ExternalPublicTextLimit + 1
    BY DEF OnlyLicensedText
  <2> DEFINE q == ingest[s].request
  <2>1. Stage(packets[s], jobs[s], ingest[s])
    BY DEF IngestInv
  <2>2. ingest[s].at # "none"
    BY <2>1 DEF Stage, NoDirectory
  <2>3. q \in Request /\ ~Refused(q) /\ packets[s].content = ContentOf(q)
    BY <2>1, <2>2 DEF Stage, PossibleRequests
  <2>4. TextName(q) = "content" /\ packets[s].content = TextLength(q)
    BY <2>3 DEF ContentOf
  <2> HIDE DEF q
  <2> QED
    BY <2>3, <2>4, StoredTextLicensed DEF q
<1> QED
  BY <1>1, IngestInvInit, IngestInvNext, PTL DEF Spec

\* What the packet of a request says of its text is so.
LEMMA PacketTellsText ==
  ASSUME NEW q \in PossibleRequests, ~Refused(q)
  PROVE  LET pk == PacketOf(q) IN
         /\ pk.mode = ContentMode(q) /\ pk.type = SourceType(q)
         /\ TextName(q) = "content" => pk.mode = "public_text"
         /\ TextName(q) = "excerpt" => pk.mode # "public_text"
         /\ pk.status = "complete" => TextName(q) # "none" /\ pk.mode # "local_blob"
<1> DEFINE pk == PacketOf(q)
<1>1. q \in Request /\ q.answer \in AnswersTo(q)
  BY DEF PossibleRequests
<1>2. /\ pk.mode = ContentMode(q) /\ pk.type = SourceType(q)
      /\ TextName(q) = "content" => pk.mode = "public_text"
      /\ TextName(q) = "excerpt" => pk.mode # "public_text"
  BY DEF PacketOf, TextName
<1>3. ASSUME pk.status = "complete" PROVE TextName(q) # "none" /\ pk.mode # "local_blob"
  <2>1. \/ SourceType(q) = "local_draft"
        \/ q.answer = "ok" /\ ContentMode(q) = "public_text"
    BY <1>1, <1>3 DEF PacketOf, Request
  <2>2. CASE SourceType(q) = "local_draft"
    <3>1. q.answer \in {"ok", "refuses"}
      BY <1>1, <2>2 DEF AnswersTo, Local
    <3>2. q.answer = "ok" /\ ContentMode(q) # "local_blob"
      BY <2>2, <3>1 DEF Refused
    <3> QED
      BY <1>2, <3>2 DEF TextName
  <2>3. CASE q.answer = "ok" /\ ContentMode(q) = "public_text"
    BY <1>2, <2>3 DEF TextName
  <2> QED
    BY <2>1, <2>2, <2>3
<1> QED
  BY <1>2, <1>3

\* A digest job finds the packet and the very text that ingest stored.
THEOREM JobsFindText == Spec => []JobFindsItsText
<1>1. IngestInv => JobFindsItsText
  <2> SUFFICES ASSUME IngestInv, NEW s \in Sources, jobs[s] # "none"
               PROVE  LET pk == packets[s].packet IN
                      /\ pk # NoFile
                      /\ pk.mode # "local_blob" =>
                           RequestText(s) = IF TextName(ingest[s].request) = "none" THEN NoFile
                             ELSE Shorter(TextLength(ingest[s].request), MaxRequestSourceText)
                      /\ pk.status = "complete" => RequestText(s) # NoFile
    BY DEF JobFindsItsText
  <2> DEFINE q == ingest[s].request
             d == packets[s]
  <2>1. Stage(d, jobs[s], ingest[s])
    BY DEF IngestInv
  <2>2. ingest[s].at = "done"
    BY <2>1 DEF Stage
  <2>3. q \in PossibleRequests /\ ~Refused(q) /\ d.packet = PacketOf(q) /\ HasItsText(d, q)
    BY <2>1, <2>2 DEF Stage
  <2>4. q \in Request /\ TextLength(q) \in Nat /\ PacketOf(q) \in Packet
        /\ TextName(q) \in {"none", "content", "excerpt"}
    BY <2>3, RequestTypes DEF PossibleRequests
  <2>5. PacketOf(q) # NoFile /\ TextLength(q) # NoFile
        /\ Shorter(TextLength(q), MaxRequestSourceText) \in Nat
    BY <2>4, IngestAssumption DEF Shorter, MaxRequestSourceText
  <2>6. PacketOf(q).mode # "local_blob" =>
          RequestText(s) = IF TextName(q) = "none" THEN NoFile
                           ELSE Shorter(TextLength(q), MaxRequestSourceText)
    <3>1. PacketOf(q).mode \in Modes
      BY <2>4 DEF Packet
    <3>2. CASE PacketOf(q).mode = "public_text"
      <4>1. RequestText(s) = IF ContentOf(q) = NoFile THEN NoFile
                             ELSE Shorter(ContentOf(q), MaxRequestSourceText)
        BY <2>3, <3>2 DEF RequestText, HasItsText
      <4>2. TextName(q) # "excerpt"
        BY <2>3, <3>2, PacketTellsText
      <4> QED
        BY <2>4, <2>5, <4>1, <4>2 DEF ContentOf
    <3>3. CASE PacketOf(q).mode = "excerpt_only"
      <4>1. RequestText(s) = IF ExcerptOf(q) = NoFile THEN NoFile
                             ELSE Shorter(ExcerptOf(q), MaxRequestSourceText)
        BY <2>3, <3>3 DEF RequestText, HasItsText
      <4>2. TextName(q) # "content"
        BY <2>3, <3>3, PacketTellsText
      <4> QED
        BY <2>4, <2>5, <4>1, <4>2 DEF ExcerptOf
    <3> QED
      BY <3>1, <3>2, <3>3 DEF Modes
  <2>7. PacketOf(q).status = "complete" => TextName(q) # "none" /\ PacketOf(q).mode # "local_blob"
    BY <2>3, PacketTellsText
  <2>8. PacketOf(q).status = "complete" => RequestText(s) # NoFile
    BY <2>5, <2>6, <2>7, IngestAssumption
  <2> HIDE DEF q
  <2> QED
    BY <2>3, <2>5, <2>6, <2>8 DEF q
<1> QED
  BY <1>1, IngestInvInit, IngestInvNext, PTL DEF Spec

\* doctor public-safe complains of what a death left before packet.json, of
\* texts that were cut at the limit, and of nothing else.
THEOREM DoctorTells == Spec => []DoctorTellsHalfPackets
<1>1. IngestInv => DoctorTellsHalfPackets
  <2> SUFFICES ASSUME IngestInv, NEW s \in Sources, ingest[s].at \in {"done", "dead"}
               PROVE  LET q == ingest[s].request
                          cut == /\ SourceType(q) # "local_draft" /\ TextName(q) = "content"
                                 /\ q.length >= ExternalPublicTextLimit
                      IN DoctorPublicSafe(s) <=> packets[s].packet # NoFile /\ ~cut
    BY DEF DoctorTellsHalfPackets
  <2> DEFINE q == ingest[s].request
             d == packets[s]
             cut == /\ SourceType(q) # "local_draft" /\ TextName(q) = "content"
                    /\ q.length >= ExternalPublicTextLimit
  <2>1. Stage(d, jobs[s], ingest[s])
    BY DEF IngestInv
  <2>2. q \in PossibleRequests /\ ~Refused(q) /\ d.made
    BY <2>1 DEF Stage
  <2>3. q \in Request /\ q.length \in Nat /\ TextLength(q) \in Nat
        /\ SourceType(q) \in SourceTypes
    BY <2>2, RequestTypes DEF PossibleRequests, Request
  <2>4. CASE d.packet = NoFile
    BY <2>2, <2>4 DEF DoctorPublicSafe
  <2>5. CASE d.packet # NoFile
    <3>1. d.packet = PacketOf(q) /\ HasItsText(d, q)
      BY <2>1, <2>5 DEF Stage
    <3>2. SourcePacketValid(PacketOf(q)) /\ PacketOf(q).type = SourceType(q)
      BY <2>2, PacketTellsText DEF Refused
    <3>3. DoctorPublicSafe(s) <=>
            (ContentOf(q) # NoFile /\ SourceType(q) # "local_draft" =>
               ContentOf(q) <= ExternalPublicTextLimit)
      BY <2>2, <2>5, <3>1, <3>2 DEF DoctorPublicSafe, HasItsText
    <3>4. TextName(q) = "content" /\ SourceType(q) # "local_draft" =>
            TextLength(q) = Shorter(q.length, ExternalPublicTextLimit) + 1
      <4> SUFFICES ASSUME TextName(q) = "content", SourceType(q) # "local_draft"
                   PROVE  TextLength(q) = Shorter(q.length, ExternalPublicTextLimit) + 1
        OBVIOUS
      <4>1. ContentMode(q) = "public_text"
        BY DEF TextName
      <4>2. SourceType(q) # "pdf_arxiv"
        BY <2>2, <4>1 DEF Refused
      <4> QED
        BY <2>3, <4>1, <4>2 DEF TextLength, BoundedExternalText, SourceTypes
    <3>5. TextName(q) = "content" /\ SourceType(q) # "local_draft" =>
            (TextLength(q) <= ExternalPublicTextLimit <=> q.length < ExternalPublicTextLimit)
      BY <2>3, <3>4 DEF Shorter, ExternalPublicTextLimit
    <3>6. q.length >= ExternalPublicTextLimit <=> ~(q.length < ExternalPublicTextLimit)
      BY <2>3 DEF ExternalPublicTextLimit
    <3>7. TextLength(q) # NoFile
      BY <2>3, IngestAssumption
    <3> QED
      BY <2>5, <3>3, <3>5, <3>6, <3>7 DEF ContentOf
  <2> QED
    BY <2>4, <2>5
<1> QED
  BY <1>1, IngestInvInit, IngestInvNext, PTL DEF Spec

-----------------------------------------------------------------------------
(* What reconcile and writeback propose *)

\* A proposed node is either an observation, said to be for OpenClaw, or says
\* nothing of who may read it.
NodeChangeOK(c) ==
  c.op = "propose_node" =>
    \/ /\ c.type = "runtime_observation" /\ c.status = "draft"
       /\ c.audiences = {"openclaw"} /\ c.scope = "runtime"
       /\ c.sensitivity = "runtime_only" /\ c.authority = "runtime_observed"
    \/ /\ c.type \in {"decision", "invariant", "interface", "task_lesson", Absent}
       /\ c.audiences = {} /\ c.scope = Absent /\ c.sensitivity = Absent
GoodChange == {c \in Change : NodeChangeOK(c)}

LEMMA GoodIsChange == Seq(GoodChange) \subseteq Seq(Change)
  BY SeqMonotonic DEF GoodChange

LEMMA ReconcileGood ==
  ASSUME NEW d \in DigestContent, NEW s \in Sources, NEW known
  PROVE  ReconcileChanges(d, s, known) \in Seq(GoodChange)
<1>d. d.claims \in Nat /\ d.edges \in Seq([target : Ids \cup {New}, type : EdgeTypes, confidence : STRING])
  BY DEF DigestContent
<1>1. ClaimChange(s) \in GoodChange
  BY DEF ClaimChange, GoodChange, NodeChangeOK, NoChange, Change, Absent, ValidNodeTypes, StatusValues
<1>2. ASSUME NEW e \in [target : Ids \cup {New}, type : EdgeTypes, confidence : STRING]
      PROVE  EdgeChange(e, s, known) \in GoodChange
  <2>1. [NoChange EXCEPT !.op = "propose_node", !.source = s, !.digest = s] \in GoodChange
    BY DEF GoodChange, NodeChangeOK, NoChange, Change, Absent, ValidNodeTypes, StatusValues
  <2>2. ASSUME e.target # New
        PROVE  [NoChange EXCEPT !.op = "add_edge", !.edge = e.type, !.confidence = e.confidence,
                                !.to = e.target, !.source = s, !.digest = s] \in GoodChange
    BY <2>2 DEF GoodChange, NodeChangeOK, NoChange, Change, Absent, ValidNodeTypes, StatusValues
  <2>3. ASSUME e.target # New
        PROVE  [NoChange EXCEPT !.op = "open_gap", !.to = e.target, !.digest = s] \in GoodChange
    BY <2>3 DEF GoodChange, NodeChangeOK, NoChange, Change, Absent, ValidNodeTypes, StatusValues
  <2>4. CASE e.target = New
    BY <2>1, <2>4 DEF EdgeChange
  <2>5. CASE e.target # New /\ e.target \in known /\ e.confidence \in {"high", "medium"}
    BY <2>2, <2>5 DEF EdgeChange
  <2>6. CASE e.target # New /\ ~(e.target \in known /\ e.confidence \in {"high", "medium"})
    BY <2>3, <2>6 DEF EdgeChange
  <2> QED
    BY <2>4, <2>5, <2>6
<1>3. Map(LAMBDA e : EdgeChange(e, s, known), d.edges) \in Seq(GoodChange)
  <2>1. Map(LAMBDA e : EdgeChange(e, s, known), d.edges)
          = [i \in 1..Len(d.edges) |-> EdgeChange(d.edges[i], s, known)]
    BY <1>d DEF Map
  <2>2. \A i \in 1..Len(d.edges) : EdgeChange(d.edges[i], s, known) \in GoodChange
    BY <1>d, <1>2, ElementOfSeq
  <2> QED
    BY <1>d, <2>1, <2>2, IsASeq, LenProperties
<1>4. Times(ClaimChange(s), d.claims) \in Seq(GoodChange)
  BY <1>d, <1>1, IsASeq DEF Times
<1> QED
  BY <1>3, <1>4, ConcatProperties DEF ReconcileChanges

LEMMA WritebackGood ==
  ASSUME NEW w \in Summary
  PROVE  WritebackChanges(w) \in Seq(GoodChange)
<1> DEFINE observed(type, status) == Proposed(w, type, status, "repo_observed")
<1>w. /\ w.decisions \in Seq(StatusValues) /\ w.invariants \in Seq(StatusValues)
      /\ w.interfaces \in Nat /\ w.runtime \in Nat /\ w.lessons \in Nat /\ w.results \in Nat
      /\ w.conflicts \in Nat /\ w.source \in Sources /\ w.digest \in Sources
  BY DEF Summary
<1>1. ASSUME NEW type \in {"decision", "invariant", "interface", "task_lesson"},
             NEW status \in StatusValues
      PROVE  observed(type, status) \in GoodChange
  BY <1>w DEF Proposed, GoodChange, NodeChangeOK, NoChange, Change, Absent, ValidNodeTypes,
     StatusValues
<1>2. RuntimeChange(w) \in GoodChange
  BY <1>w DEF RuntimeChange, Proposed, GoodChange, NodeChangeOK, NoChange, Change, Absent,
     ValidNodeTypes, StatusValues
<1>3. ASSUME NEW st \in Seq(StatusValues), NEW type \in {"decision", "invariant"}
      PROVE  [i \in DOMAIN st |-> observed(type, st[i])] \in Seq(GoodChange)
  <2>1. \A i \in 1..Len(st) : observed(type, st[i]) \in GoodChange
    BY <1>1, ElementOfSeq
  <2> HIDE DEF observed
  <2> QED
    BY <2>1, IsASeq, LenProperties
<1>4. ASSUME NEW c \in GoodChange, NEW n \in Nat PROVE Times(c, n) \in Seq(GoodChange)
  BY IsASeq DEF Times
<1>5. "draft" \in StatusValues /\ "contested" \in StatusValues
  BY DEF StatusValues
<1>6. /\ Map(LAMBDA st : observed("decision", st), w.decisions) \in Seq(GoodChange)
      /\ Map(LAMBDA st : observed("invariant", st), w.invariants) \in Seq(GoodChange)
  BY <1>w, <1>3 DEF Map
<1>7. /\ Times(observed("interface", "draft"), w.interfaces) \in Seq(GoodChange)
      /\ Times(RuntimeChange(w), w.runtime) \in Seq(GoodChange)
      /\ Times(observed("task_lesson", "draft"), IF w.lessons > 0 THEN w.lessons ELSE w.results)
           \in Seq(GoodChange)
      /\ Times(observed("decision", "contested"), w.conflicts) \in Seq(GoodChange)
  BY <1>w, <1>1, <1>2, <1>4, <1>5
<1> HIDE DEF observed
<1> QED
  BY <1>6, <1>7, ConcatProperties DEF WritebackChanges, observed

-----------------------------------------------------------------------------
(* What is stored, applied and recorded *)

\* A pack asks for a person exactly when its digest contradicts or supersedes
\* something, or its session reports a conflict.
GateOK(k) ==
  IF k.from \in Summaries
  THEN k.human <=> k.from.conflicts > 0
  ELSE /\ k.from \in Digests
       /\ k.human <=> \E i \in DOMAIN k.from.edges : k.from.edges[i].type \in GateEdges
\* A row is a change of an applied pack, as apply records it.
Recorded(x) ==
  /\ x.pack \in applied
  /\ \E i \in DOMAIN mutation[x.pack].changes :
       x.id = <<x.pack, i>> /\ x.record = RecordForChange(mutation[x.pack].changes[i])
PacksInv ==
  /\ mutation \in [Packs -> Pack \cup {NoFile}]
  /\ \A m \in Packs : Stored(m) =>
       GateOK(mutation[m]) /\ mutation[m].changes \in Seq(GoodChange)
  /\ applied \subseteq Packs /\ writing \subseteq Packs
  /\ \A m \in applied \cup writing : Stored(m)
CurationInv ==
  /\ PacksInv
  /\ digests \in [Sources -> Digests \cup {NoDigest}] /\ rev \in Nat
  /\ delta = [m \in Packs |-> delta[m]]
  /\ \A m \in Packs : delta[m] # NoPart => Stored(m) /\ delta[m] = InvariantsOf(m)
  /\ \A m \in applied \ approved : ~mutation[m].human
  /\ \A x \in rows : Recorded(x)

LEMMA CurationInvInit == Init => CurationInv
  BY DEF Init, CurationInv, PacksInv, Stored

\* A new pack leaves the others, and what was made of them, alone.
LEMMA StoringKeeps ==
  ASSUME CurationInv, NEW m \in Packs, ~Stored(m), NEW k \in Pack,
         GateOK(k), k.changes \in Seq(GoodChange),
         mutation' = [mutation EXCEPT ![m] = k],
         writing' \in {writing, writing \cup {m}},
         UNCHANGED <<digests, applied, delta, rows, approved, rev>>
  PROVE  CurationInv'
<1>1. mutation'[m] = k /\ k # NoFile /\ \A n \in Packs \ {m} : mutation'[n] = mutation[n]
  BY PipelineAssumption DEF CurationInv, PacksInv
<1>2. PacksInv'
  BY <1>1 DEF CurationInv, PacksInv, Stored, GateOK
<1>3. \A n \in Packs : Stored(n) => n # m /\ mutation'[n] = mutation[n]
  BY <1>1
<1>4. \A n \in Packs : delta[n] # NoPart => Stored(n)' /\ delta[n] = InvariantsOf(n)'
  BY <1>3 DEF CurationInv, Stored, InvariantsOf
<1>5. \A x \in rows : Recorded(x)'
  BY <1>3 DEF CurationInv, PacksInv, Recorded
<1>6. \A n \in applied \ approved : ~mutation'[n].human
  BY <1>3 DEF CurationInv, PacksInv
<1> QED
  BY <1>2, <1>4, <1>5, <1>6 DEF CurationInv

LEMMA ReconcileKeeps ==
  ASSUME CurationInv, NEW m \in Packs, NEW s \in Sources, Reconcile(m, s)
  PROVE  CurationInv'
<1> DEFINE cs == ReconcileChanges(digests[s], s, KnownNodes)
           k == MutationPack(digests[s], s, s, cs, HumanGateForEdges(digests[s].edges, cs))
<1>1. digests[s] \in Digests /\ digests[s] \in DigestContent /\ digests[s] \notin Summaries
  BY PipelineAssumption DEF CurationInv, Reconcile
<1>2. cs \in Seq(GoodChange)
  BY <1>1, ReconcileGood
<1>3. k \in Pack /\ k.changes = cs /\ k.from = digests[s]
      /\ k.human = HumanGateForEdges(digests[s].edges, cs)
  <2>1. cs \in Seq(Change)
    BY <1>2, GoodIsChange
  <2>2. HumanGateForEdges(digests[s].edges, cs) \in BOOLEAN /\ rev \in Nat
    BY DEF HumanGateForEdges, CurationInv
  <2> HIDE DEF cs
  <2> QED
    BY <1>1, <2>1, <2>2 DEF MutationPack, Pack
<1>4. GateOK(k)
  <2> HIDE DEF k
  <2> QED
    BY <1>1, <1>3 DEF GateOK, HumanGateForEdges
<1>5. ~Stored(m) /\ mutation' = [mutation EXCEPT ![m] = k]
      /\ UNCHANGED <<digests, applied, delta, rows, approved, rev, writing>>
  BY DEF Reconcile, NextPack
<1> HIDE DEF k, cs
<1> QED
  BY <1>2, <1>3, <1>4, <1>5, StoringKeeps

LEMMA ProposeKeeps ==
  ASSUME CurationInv, NEW m \in Packs, NEW w \in Summaries, ProposeWriteback(m, w)
  PROVE  CurationInv'
<1> DEFINE cs == WritebackChanges(w)
           k == MutationPack(w, w.source, w.digest, cs, w.conflicts > 0)
<1>1. w \in Summary /\ w.source \in Sources /\ w.digest \in Sources /\ w.conflicts \in Nat
  BY PipelineAssumption DEF Summary
<1>2. cs \in Seq(GoodChange)
  BY <1>1, WritebackGood
<1>3. k \in Pack /\ k.changes = cs /\ k.from = w /\ k.human = (w.conflicts > 0)
  <2>1. cs \in Seq(Change)
    BY <1>2, GoodIsChange
  <2>2. (w.conflicts > 0) \in BOOLEAN /\ rev \in Nat
    BY <1>1 DEF CurationInv
  <2> HIDE DEF cs
  <2> QED
    BY <1>1, <2>1, <2>2 DEF MutationPack, Pack
<1>4. GateOK(k)
  <2> HIDE DEF k
  <2> QED
    BY <1>1, <1>3 DEF GateOK
<1>5. ~Stored(m) /\ mutation' = [mutation EXCEPT ![m] = k] /\ writing' = writing \cup {m}
      /\ UNCHANGED <<digests, applied, delta, rows, approved, rev>>
  BY DEF ProposeWriteback, NextPack
<1> HIDE DEF k, cs
<1> QED
  BY <1>2, <1>3, <1>4, <1>5, StoringKeeps

LEMMA DigestStays ==
  ASSUME CurationInv, NEW s \in Sources, NEW d \in Digests, NEW queued \in BOOLEAN,
         Digest(s, d, queued)
  PROVE  CurationInv'
<1>1. UNCHANGED <<mutation, applied, delta, writing, rows, approved, rev>>
      /\ digests' \in [Sources -> Digests \cup {NoDigest}]
  BY DEF Digest, CurationInv
<1> QED
  BY <1>1 DEF CurationInv, PacksInv, Stored, InvariantsOf, Recorded

LEMMA DeltaKeeps ==
  ASSUME CurationInv, NEW m \in Packs, WriteDelta(m) \/ WritebackDies(m)
  PROVE  CurationInv'
<1>1. /\ m \in writing /\ writing' = writing \ {m}
      /\ UNCHANGED <<digests, mutation, applied, rows, approved, rev>>
  BY DEF WriteDelta, WritebackDies, git
<1>2. PacksInv'
  BY <1>1 DEF CurationInv, PacksInv, Stored
<1>3. delta' = [n \in Packs |-> delta'[n]] /\ \A n \in Packs : delta'[n] = delta[n] \/ (n = m /\ delta'[n] = InvariantsOf(n))
  BY DEF WriteDelta, WritebackDies, CurationInv
<1>4. \A n \in Packs : delta'[n] # NoPart => Stored(n)' /\ delta'[n] = InvariantsOf(n)'
  BY <1>1, <1>3 DEF CurationInv, PacksInv, Stored, InvariantsOf
<1> QED
  BY <1>1, <1>2, <1>3, <1>4 DEF CurationInv, Recorded

LEMMA ApplyKeeps ==
  ASSUME CurationInv, NEW m \in Packs, NEW a \in BOOLEAN, Apply(m, a)
  PROVE  CurationInv'
<1>1. /\ Stored(m) /\ applied' = applied \cup {m}
      /\ UNCHANGED <<digests, mutation, delta, writing, rev>>
      /\ approved' = IF a THEN approved \cup {m} ELSE approved
      /\ RequiresHumanGate(mutation[m]) => a
  BY DEF Apply
<1>c. PICK clock \in [DOMAIN mutation[m].changes -> left.seconds] :
        rows' = rows \cup {Row(m, i, Cardinality(applied) + 1, clock[i]) : i \in DOMAIN clock}
  BY DEF Apply
<1>2. PacksInv'
  BY <1>1 DEF CurationInv, PacksInv, Stored
<1>3. \A n \in applied' \ approved' : ~mutation[n].human
  BY <1>1 DEF CurationInv, RequiresHumanGate
<1>4. \A x \in rows : Recorded(x)'
  BY <1>1 DEF CurationInv, Recorded
<1>5. ASSUME NEW x \in rows' PROVE Recorded(x)'
  <2>1. CASE x \in rows
    BY <1>4, <2>1
  <2>2. CASE x \notin rows
    <3>1. PICK i \in DOMAIN mutation[m].changes : x = Row(m, i, Cardinality(applied) + 1, clock[i])
      BY <1>c, <2>2
    <3> QED
      BY <1>1, <3>1 DEF Recorded, Row
  <2> QED
    BY <2>1, <2>2
<1>6. \A n \in Packs : delta[n] # NoPart => Stored(n)' /\ delta[n] = InvariantsOf(n)'
  BY <1>1 DEF CurationInv, Stored, InvariantsOf
<1> QED
  BY <1>1, <1>2, <1>3, <1>5, <1>6 DEF CurationInv

LEMMA CurationStays ==
  ASSUME CurationInv, UNCHANGED curation, rev' \in Nat
  PROVE  CurationInv'
  BY DEF CurationInv, PacksInv, curation, Stored, InvariantsOf, Recorded

LEMMA CurationInvNext == IngestInv /\ CurationInv /\ [Next]_vars => CurationInv'
<1> SUFFICES ASSUME IngestInv, CurationInv, [Next]_vars PROVE CurationInv'
  OBVIOUS
<1>r. rev \in Nat /\ left.answers \subseteq Digests
  BY DEF CurationInv, IngestInv, History
<1>1. ASSUME NEW s \in Sources,
             \/ \E q \in left.requests : Ingest(s, q)
             \/ GoOnIngesting(s) \/ DieIngesting(s)
      PROVE  CurationInv'
  BY <1>r, <1>1, CurationStays DEF Ingest, GoOnIngesting, DieIngesting, git
<1>2. ASSUME NEW s \in Sources, NEW d \in left.answers, NEW queued \in BOOLEAN,
             Digest(s, d, queued)
      PROVE  CurationInv'
  BY <1>r, <1>2, DigestStays
<1>3. ASSUME NEW s \in Sources, NEW m \in Packs, Reconcile(m, s) PROVE CurationInv'
  BY <1>3, ReconcileKeeps
<1>4. ASSUME NEW m \in Packs,
             \/ \E w \in Summaries : ProposeWriteback(m, w)
             \/ WriteDelta(m) \/ WritebackDies(m)
             \/ \E a \in BOOLEAN : Apply(m, a)
      PROVE  CurationInv'
  BY <1>4, ProposeKeeps, DeltaKeeps, ApplyKeeps
<1>5. CASE Commit
  BY <1>r, <1>5, CurationStays DEF Commit
<1>6. ASSUME NEW b \in Builders,
             StartCompose(b) \/ ReadRegistry(b) \/ WriteFile(b) \/ ComposerDies(b)
      PROVE  CurationInv'
  BY <1>r, <1>6, CurationStays DEF StartCompose, ReadRegistry, WriteFile, ComposerDies, git
<1>7. CASE UNCHANGED vars
  BY <1>r, <1>7, CurationStays DEF vars, git
<1> QED
  BY <1>1, <1>2, <1>3, <1>4, <1>5, <1>6, <1>7 DEF Next

LEMMA CurationAlways == Spec => [](IngestInv /\ CurationInv)
  BY IngestInvInit, IngestInvNext, CurationInvInit, CurationInvNext, PTL DEF Spec

\* What a digest contradicts or supersedes, and what a session reports as a
\* conflict, is applied only by a person, whatever became of it in between.
THEOREM PeopleApprove == Spec => []ContradictionsAreApproved
<1>1. CurationInv => ContradictionsAreApproved
  <2> SUFFICES ASSUME CurationInv, NEW m \in applied \ approved
               PROVE  IF mutation[m].from \in Summaries
                      THEN mutation[m].from.conflicts = 0
                      ELSE \A i \in DOMAIN mutation[m].from.edges :
                             mutation[m].from.edges[i].type \notin GateEdges
    BY DEF ContradictionsAreApproved
  <2>1. GateOK(mutation[m]) /\ ~mutation[m].human
    BY DEF CurationInv, PacksInv
  <2>2. \A w \in Summaries : w.conflicts \in Nat
    BY PipelineAssumption DEF Summary
  <2> QED
    BY <2>1, <2>2 DEF GateOK
<1> QED
  BY <1>1, CurationAlways, PTL

-----------------------------------------------------------------------------
(* Who reads a node *)

VisibleIds == IdsOf({x \in rows : VisibleToBuilders(x.record)})
Reading == [claims : SUBSET rows, edges : SUBSET rows, nodes : SUBSET rows, gaps : SUBSET rows]
Composer == [step : 0..10, rev : Nat, mixed : BOOLEAN, read : Reading]
\* A compose has read rows, and a builder pack, of whatever composes its files
\* are, holds nothing that is not visible.
ReaderInv ==
  /\ run \in [Builders -> Composer]
  /\ DOMAIN builder = {"metadata", "constraints", "tests", "bundle", "targets", "brief"}
  /\ KnowledgeIn(builder) \subseteq VisibleIds

\* Apply keeps whoever may read what a change says, and the default is builders.
LEMMA NodeReaders ==
  ASSUME NEW c \in GoodChange, RecordForChange(c).op = "propose_node"
  PROVE  LET r == RecordForChange(c) IN
         /\ VisibleToOpenClaw(r) <=> r.type = "runtime_observation"
         /\ VisibleToBuilders(r) <=> r.type # "runtime_observation"
<1> DEFINE r == RecordForChange(c)
<1>1. /\ c.op = "propose_node"
      /\ r.audiences = IF c.audiences = {} THEN {"builders"} ELSE c.audiences
      /\ r.sensitivity = Or(c.sensitivity, "internal")
      /\ r.type = Or(c.type, "artifact") /\ r.status = Or(c.status, "draft")
      /\ r.scope = c.scope /\ r.authority = c.authority
  <2>1. c.op = "propose_node"
    BY DEF RecordForChange, GoodChange, Change
  <2> QED
    BY <2>1 DEF RecordForChange, GoodChange, Change
<1>2. c.status \in {"draft", "active", "contested", "absent"}
  BY DEF GoodChange, Change, StatusValues, Absent
<1> HIDE DEF r
<1>3. r.status \in VisibleStatus
  BY <1>1, <1>2 DEF Or, Absent, VisibleStatus
<1>4. CASE c.type = "runtime_observation"
  <2>1. /\ c.audiences = {"openclaw"} /\ c.scope = "runtime"
        /\ c.sensitivity = "runtime_only" /\ c.authority = "runtime_observed"
    BY <1>1, <1>4 DEF GoodChange, NodeChangeOK, Absent
  <2>2. /\ r.type = "runtime_observation" /\ r.audiences = {"openclaw"} /\ r.scope = "runtime"
        /\ r.sensitivity = "runtime_only" /\ r.authority = "runtime_observed"
    BY <1>1, <1>4, <2>1 DEF Or, Absent
  <2> QED
    BY <1>3, <2>2 DEF VisibleToOpenClaw, VisibleToBuilders, ValidNodeTypes, r
<1>5. CASE c.type # "runtime_observation"
  <2>1. /\ c.audiences = {} /\ c.scope = Absent /\ c.sensitivity = Absent
        /\ c.type \in {"decision", "invariant", "interface", "task_lesson", Absent}
    BY <1>1, <1>5 DEF GoodChange, NodeChangeOK
  <2>2. /\ r.type \in {"decision", "invariant", "interface", "task_lesson", "artifact"}
        /\ r.audiences = {"builders"} /\ r.scope = "absent" /\ r.sensitivity = "internal"
    BY <1>1, <2>1 DEF Or, Absent
  <2> QED
    BY <1>3, <2>2 DEF VisibleToOpenClaw, VisibleToBuilders, r
<1> QED
  BY <1>4, <1>5

LEMMA OnlyVisibleInPack ==
  ASSUME NEW n, NEW read \in Reading
  PROVE  KnowledgeIn(PackFor(n, read)) \subseteq VisibleIds
<1> DEFINE k == PackFor(n, read)
           nodes == VisibleRows(read.nodes, RowLimit)
<1>1. \A ids, limit : FirstIds(ids, limit) \subseteq ids
  BY DEF FirstIds
<1>2. /\ \A type : OfType(nodes, type) \subseteq VisibleIds
      /\ IdsOf(nodes) \subseteq VisibleIds
      /\ IdsOf(VisibleRows(read.claims, RowLimit)) \subseteq VisibleIds
  BY DEF OfType, IdsOf, VisibleRows, Bounded, VisibleIds, Reading
<1>3. /\ k.constraints = ConstraintsFor(nodes, read.edges)
      /\ k.tests.of = OfType(nodes, "invariant")
      /\ k.bundle = PublicBundle(read.claims, read.edges, nodes, read.gaps)
      /\ k.brief = BriefFor(n, nodes, read.edges, read.gaps)
  BY DEF PackFor, RelationshipTestsFor
<1> HIDE DEF k, nodes
<1>4. k.constraints.invariants \subseteq VisibleIds /\ k.constraints.interfaces \subseteq VisibleIds
  BY <1>1, <1>2, <1>3 DEF ConstraintsFor
<1>5. k.tests.of \subseteq VisibleIds
  BY <1>2, <1>3
<1>6. k.bundle.claims \subseteq VisibleIds /\ k.bundle.nodes \subseteq VisibleIds
  BY <1>2, <1>3 DEF PublicBundle
<1>7. /\ k.brief.decisions \subseteq VisibleIds /\ k.brief.invariants \subseteq VisibleIds
      /\ k.brief.interfaces \subseteq VisibleIds
  BY <1>1, <1>2, <1>3 DEF BriefFor
<1>8. KnowledgeIn(k) \subseteq VisibleIds
  BY <1>4, <1>5, <1>6, <1>7 DEF KnowledgeIn
<1> QED
  BY <1>8 DEF k

\* A pack that mixes files of two packs shows what one of them shows.
LEMMA Mixture ==
  ASSUME NEW k, NEW l, NEW m,
         m.constraints \in {k.constraints, l.constraints}, m.tests \in {k.tests, l.tests},
         m.bundle \in {k.bundle, l.bundle}, m.brief \in {k.brief, l.brief}
  PROVE  KnowledgeIn(m) \subseteq KnowledgeIn(k) \cup KnowledgeIn(l)
  BY DEF KnowledgeIn

LEMMA ReaderInvInit == Init => ReaderInv
<1> SUFFICES ASSUME Init PROVE ReaderInv
  OBVIOUS
<1>1. builder = [f \in {"metadata", "constraints", "tests", "bundle", "targets", "brief"} |-> NoPart]
  BY DEF Init, NoBuilderPack, PackFiles
<1>2. KnowledgeIn(builder) = {}
  BY <1>1 DEF KnowledgeIn
<1> QED
  BY <1>1, <1>2 DEF Init, ReaderInv, Composer, Resting, Reading

\* What was read, and what is visible, stays so when rows are added.
LEMMA RowsGrow ==
  ASSUME rows \subseteq rows'
  PROVE  VisibleIds \subseteq VisibleIds' /\ Reading \subseteq Reading'
<1>1. VisibleIds \subseteq VisibleIds'
  BY DEF VisibleIds, IdsOf
<1>2. ASSUME NEW r \in Reading PROVE r \in Reading'
  BY DEF Reading
<1> QED
  BY <1>1, <1>2

LEMMA ReaderStays ==
  ASSUME ReaderInv, rows \subseteq rows', UNCHANGED builder,
         run' \in [Builders -> Composer']
  PROVE  ReaderInv'
  BY RowsGrow DEF ReaderInv, Composer

LEMMA ComposerStays ==
  ASSUME ReaderInv, UNCHANGED <<rows, builder>>, NEW b \in Builders, NEW c \in Composer,
         run' = [run EXCEPT ![b] = c]
  PROVE  ReaderInv'
<1>1. Composer' = Composer
  BY DEF Composer, Reading
<1>2. run' \in [Builders -> Composer]
  BY DEF ReaderInv, Composer
<1> QED
  BY <1>1, <1>2, ReaderStays

LEMMA ReadKeeps ==
  ASSUME ReaderInv, NEW b \in Builders, ReadRegistry(b)
  PROVE  ReaderInv'
<1> DEFINE r == RegistryOrder[run[b].step]
           found == {x \in rows : x.record.op = OpOf[r]}
           c == [run[b] EXCEPT !.step = @ + 1, !.read = [run[b].read EXCEPT ![r] = found]]
<1>1. run[b] \in Composer /\ run[b].step \in 1..4
  BY DEF ReaderInv, Composer, ReadRegistry
<1>2. r \in {"claims", "edges", "nodes", "gaps"}
  BY <1>1 DEF RegistryOrder
<1>3. run' = [run EXCEPT ![b] = c] /\ UNCHANGED <<rows, builder>>
  BY DEF ReadRegistry, ReaderInv, curation
<1>4. [run[b].read EXCEPT ![r] = found] \in Reading
  <2>1. found \in SUBSET rows /\ run[b].read \in Reading
    BY <1>1 DEF Composer
  <2> HIDE DEF found, r
  <2> QED
    BY <1>2, <2>1 DEF Reading
<1>5. c \in Composer
  <2>1. run[b].step + 1 \in 0..10
    BY <1>1
  <2> HIDE DEF found, r
  <2> QED
    BY <1>1, <1>4, <2>1 DEF Composer
<1> HIDE DEF c
<1> QED
  BY <1>3, <1>5, ComposerStays

LEMMA WriteKeeps ==
  ASSUME ReaderInv, NEW b \in Builders, WriteFile(b)
  PROVE  ReaderInv'
<1> DEFINE f == PackFiles[run[b].step - 4]
           k == PackFor(run[b].rev, run[b].read)
           c == IF run[b].step = 10 THEN Resting ELSE [run[b] EXCEPT !.step = @ + 1]
<1>1. run[b] \in Composer /\ run[b].step \in 5..10
  BY DEF ReaderInv, Composer, WriteFile
<1>2. /\ run' = [run EXCEPT ![b] = c] /\ UNCHANGED rows
      /\ builder' = [builder EXCEPT ![f] = k[f]]
  BY DEF WriteFile, ReaderInv, curation
<1>3. c \in Composer
  BY <1>1 DEF Composer, Resting, Reading
<1>4. run' \in [Builders -> Composer] /\ Composer' = Composer /\ VisibleIds' = VisibleIds
  BY <1>2, <1>3 DEF ReaderInv, Composer, Reading, VisibleIds, IdsOf
<1>5. KnowledgeIn(k) \subseteq VisibleIds
  BY <1>1, OnlyVisibleInPack DEF Composer
<1>6. /\ DOMAIN builder' = {"metadata", "constraints", "tests", "bundle", "targets", "brief"}
      /\ builder'.constraints \in {k.constraints, builder.constraints}
      /\ builder'.tests \in {k.tests, builder.tests}
      /\ builder'.bundle \in {k.bundle, builder.bundle}
      /\ builder'.brief \in {k.brief, builder.brief}
  <2> HIDE DEF f, k
  <2> QED
    BY <1>2 DEF ReaderInv
<1>7. KnowledgeIn(builder') \subseteq KnowledgeIn(k) \cup KnowledgeIn(builder)
  <2> HIDE DEF k
  <2> QED
    BY <1>6, Mixture
<1> QED
  BY <1>4, <1>5, <1>6, <1>7 DEF ReaderInv, Composer

LEMMA ApplyWhileReading ==
  ASSUME ReaderInv, NEW m \in Packs, NEW a \in BOOLEAN, Apply(m, a)
  PROVE  ReaderInv'
<1>1. rows \subseteq rows' /\ UNCHANGED builder
  BY DEF Apply
<1>2. \A b \in Builders : run'[b] \in Composer
  BY DEF Apply, ReaderInv, Composer
<1>3. Composer \subseteq Composer'
  <2>1. Reading \subseteq Reading'
    BY <1>1, RowsGrow
  <2> SUFFICES ASSUME NEW c \in Composer PROVE c \in Composer'
    OBVIOUS
  <2> QED
    BY <2>1 DEF Composer
<1>4. run' \in [Builders -> Composer']
  BY <1>2, <1>3 DEF Apply
<1> QED
  BY <1>1, <1>4, ReaderStays

LEMMA ReaderInvNext == CurationInv /\ ReaderInv /\ [Next]_vars => ReaderInv'
<1> SUFFICES ASSUME CurationInv, ReaderInv, [Next]_vars PROVE ReaderInv'
  OBVIOUS
<1>u. UNCHANGED <<rows, builder, run>> => ReaderInv'
  BY DEF ReaderInv, Composer, Reading, VisibleIds, IdsOf
<1>1. ASSUME NEW s \in Sources,
             \/ \E q \in left.requests : Ingest(s, q)
             \/ GoOnIngesting(s) \/ DieIngesting(s)
             \/ \E d \in left.answers, queued \in BOOLEAN : Digest(s, d, queued)
             \/ \E m \in Packs : Reconcile(m, s)
      PROVE  ReaderInv'
  BY <1>1, <1>u DEF Ingest, GoOnIngesting, DieIngesting, Digest, Reconcile, curation, composing
<1>2. ASSUME NEW m \in Packs,
             (\E w \in Summaries : ProposeWriteback(m, w)) \/ WriteDelta(m) \/ WritebackDies(m)
      PROVE  ReaderInv'
  BY <1>2, <1>u DEF ProposeWriteback, WriteDelta, WritebackDies, composing
<1>3. ASSUME NEW m \in Packs, NEW a \in BOOLEAN, Apply(m, a) PROVE ReaderInv'
  BY <1>3, ApplyWhileReading
<1>4. CASE Commit
  BY <1>4, <1>u DEF Commit, curation, composing
<1>5. ASSUME NEW b \in Builders, StartCompose(b) PROVE ReaderInv'
  <2> DEFINE c == [Resting EXCEPT !.step = 1, !.rev = rev]
  <2>1. run' = [run EXCEPT ![b] = c] /\ UNCHANGED <<rows, builder>>
    BY <1>5 DEF StartCompose, curation
  <2>2. c \in Composer
    <3>1. Resting \in Composer /\ rev \in Nat
      BY DEF Composer, Resting, Reading, CurationInv
    <3>2. [Resting EXCEPT !.step = 1] \in Composer
      BY <3>1 DEF Composer
    <3> DEFINE d == [Resting EXCEPT !.step = 1]
    <3>3. c = [d EXCEPT !.rev = rev]
      BY Zenon
    <3> HIDE DEF d
    <3> QED
      BY <3>1, <3>2, <3>3 DEF Composer, d
  <2> HIDE DEF c
  <2> QED
    BY <2>1, <2>2, ComposerStays
<1>6. ASSUME NEW b \in Builders, ComposerDies(b) PROVE ReaderInv'
  <2>1. run' = [run EXCEPT ![b] = Resting] /\ UNCHANGED <<rows, builder>>
    BY <1>6 DEF ComposerDies, curation
  <2>2. Resting \in Composer
    BY DEF Composer, Resting, Reading
  <2> QED
    BY <2>1, <2>2, ComposerStays
<1>7. ASSUME NEW b \in Builders, ReadRegistry(b) \/ WriteFile(b) PROVE ReaderInv'
  BY <1>7, ReadKeeps, WriteKeeps
<1>8. CASE UNCHANGED vars
  BY <1>8, <1>u DEF vars, curation, composing
<1> QED
  BY <1>1, <1>2, <1>3, <1>4, <1>5, <1>6, <1>7, <1>8 DEF Next

\* Whoever composes, whatever is applied meanwhile and wherever a compose dies:
\* what a session observed at run time is shown to OpenClaw alone, and every
\* other node to builders alone.
THEOREM NodesHaveReaders == Spec => []EveryNodeHasItsReader
<1>1. CurationInv /\ ReaderInv => EveryNodeHasItsReader
  <2> SUFFICES ASSUME CurationInv, ReaderInv, NEW x \in rows, x.record.op = "propose_node"
               PROVE  LET observed == x.record.type = "runtime_observation" IN
                      /\ VisibleToOpenClaw(x.record) <=> observed
                      /\ VisibleToBuilders(x.record) <=> ~observed
                      /\ observed => x.id \notin KnowledgeIn(builder)
    BY DEF EveryNodeHasItsReader
  <2>1. /\ VisibleToOpenClaw(x.record) <=> x.record.type = "runtime_observation"
        /\ VisibleToBuilders(x.record) <=> x.record.type # "runtime_observation"
    <3>1. PICK i \in DOMAIN mutation[x.pack].changes :
            x.record = RecordForChange(mutation[x.pack].changes[i])
      BY DEF CurationInv, Recorded
    <3>2. mutation[x.pack].changes[i] \in GoodChange
      BY <3>1, ElementOfSeq, LenProperties DEF CurationInv, PacksInv, Recorded
    <3> QED
      BY <3>1, <3>2, NodeReaders
  <2>2. ASSUME NEW y \in rows, y.id = x.id PROVE y.record = x.record
    BY <2>2 DEF CurationInv, Recorded
  <2>3. x.id \in VisibleIds => VisibleToBuilders(x.record)
    BY <2>2 DEF VisibleIds, IdsOf
  <2> QED
    BY <2>1, <2>3 DEF ReaderInv
<1>2. Init => ReaderInv
  BY ReaderInvInit
<1> QED
  BY <1>1, <1>2, ReaderInvNext, CurationAlways, PTL DEF Spec

=============================================================================

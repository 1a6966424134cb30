------------------------------- MODULE Ingest -------------------------------
(***************************************************************************)
(* `topology ingest` (workers/fetch.py): decide what kind of source a      *)
(* place is, read or download it, and store what may be stored of it under *)
(* raw/packets/<src>/: first the text, then packet.json, then a digest job *)
(* in the queue.  Every call has a new source id, so calls do not meet;    *)
(* one may die between two files.  Beside it, what others say of a packet: *)
(* lint, doctor public-safe and the digest request (workers/digest.py).    *)
(***************************************************************************)
EXTENDS Naturals

CONSTANTS
  Sources,  \* source ids
  NoFile,
  NoRequest

\* The limits of fetch.py, in characters; PdfSummary is about what the three
\* lines of metadata of a PDF take.
ExcerptLimit == 800
ExternalPublicTextLimit == 8000
PdfSummary == 120

\* What a caller asks for.  place: where the source is; explicit and mode: the
\* options --source-type and --content-mode; length: the size of its text,
\* white space compacted; answer: what reading it gives, where "fails" is an
\* exception that exception_blocks_packet turns into a blocked packet,
\* "refuses" any other, and "mutable" a GitHub reference without a commit,
\* which is not fetched.
Places == {"github", "arxiv", "pdf_url", "page", "pdf_file", "file"}
SourceTypes == {"local_draft", "github_artifact", "article_html", "pdf_arxiv"}
Modes == {"public_text", "excerpt_only", "local_blob"}
Request == [place : Places, explicit : SourceTypes \cup {"none"},
            mode : Modes \cup {"default"}, redistributable : {"yes", "no", "unknown"},
            length : Nat, answer : {"ok", "http_error", "fails", "refuses", "mutable"}]

Packet == [type : SourceTypes, mode : Modes, redistributable : {"yes", "no", "unknown"},
           status : {"complete", "partial", "blocked"}]

ASSUME IngestAssumption == NoFile \notin Nat \cup Packet

VARIABLES
  packets,  \* packets[s]: the files of raw/packets/s
  jobs,     \* jobs[s]: the state of the digest job of s, "none" without one
  ingest    \* ingest[s]: where the call that drew s is, and its request
ingestVars == <<packets, jobs, ingest>>

-----------------------------------------------------------------------------
(* build_source_packet *)

SourceType(q) ==
  IF q.explicit # "none" THEN q.explicit
  ELSE CASE q.place = "github" -> "github_artifact"
         [] q.place \in {"arxiv", "pdf_url", "pdf_file"} -> "pdf_arxiv"
         [] q.place = "page" -> "article_html"
         [] q.place = "file" -> "local_draft"
ContentMode(q) ==
  IF q.mode # "default" THEN q.mode
  ELSE IF SourceType(q) = "local_draft" /\ q.redistributable = "yes"
       THEN "public_text" ELSE "excerpt_only"

\* Which answers there are: a file is read or the call fails, a GitHub address
\* that is none is refused, as is an address that is no URL.
Local(q) ==
  \/ SourceType(q) = "local_draft"
  \/ SourceType(q) = "pdf_arxiv" /\ q.place = "pdf_file"
AnswersTo(q) ==
  CASE Local(q) -> IF q.place \in {"file", "pdf_file"} THEN {"ok", "refuses"} ELSE {"refuses"}
    [] ~Local(q) /\ q.place \in {"file", "pdf_file"} -> {"refuses"}
    [] SourceType(q) = "github_artifact" /\ q.place # "github" -> {"refuses"}
    [] SourceType(q) = "github_artifact" /\ q.place = "github" ->
         {"ok", "http_error", "fails", "refuses", "mutable"}
    [] OTHER -> {"ok", "http_error", "fails", "refuses"}
PossibleRequests == {q \in Request : q.answer \in AnswersTo(q)}

Shorter(m, n) == IF m < n THEN m ELSE n
Whole(n, mode) == n  \* variant: the text of the page as it is
BoundedExternalText(n, mode) ==
  Shorter(n, IF mode = "public_text" THEN ExternalPublicTextLimit ELSE ExcerptLimit)

\* A packet.json, as SourcePacket.validate and lint_source_packets accept it
SourcePacketValid(pk) == pk.mode = "public_text" => pk.redistributable = "yes"
PacketOf(q) ==
  LET mode == ContentMode(q) IN
  [type |-> SourceType(q), mode |-> mode, redistributable |-> q.redistributable,
   status |-> CASE q.answer \in {"http_error", "fails"} -> "blocked"
                [] SourceType(q) = "local_draft" -> "complete"
                [] q.answer = "ok" /\ mode = "public_text" -> "complete"
                [] OTHER -> "partial"]

Refused(q) ==
  LET type == SourceType(q)
      mode == ContentMode(q)
  IN \/ q.answer = "refuses"
     \/ type # "local_draft" /\ mode = "public_text" /\ q.redistributable # "yes"
     \/ type = "pdf_arxiv" /\ mode = "public_text"
     \/ type = "local_draft" /\ mode = "local_blob"
     \/ ~SourcePacketValid(PacketOf(q))

\* The text file of a packet: its name and its length, line end included where
\* the code adds one.
TextName(q) ==
  IF q.answer # "ok" THEN "none"
  ELSE IF ContentMode(q) = "public_text" THEN "content" ELSE "excerpt"
TextLength(q) ==
  LET mode == ContentMode(q) IN
  CASE SourceType(q) = "pdf_arxiv" -> PdfSummary
    [] SourceType(q) = "local_draft" ->
         IF mode = "public_text" THEN q.length ELSE Shorter(q.length, ExcerptLimit) + 1
    [] OTHER -> BoundedExternalText(q.length, mode) + 1

-----------------------------------------------------------------------------
(* ingest_source *)

NoDirectory == [made |-> FALSE, content |-> NoFile, excerpt |-> NoFile, packet |-> NoFile]
NotBegun == [at |-> "none", request |-> NoRequest]
Ingesting(s) == ingest[s].at \in {"text", "packet", "job"}
At(s, at) == ingest' = [ingest EXCEPT ![s].at = at]

IngestInit ==
  /\ packets = [s \in Sources |-> NoDirectory]
  /\ jobs = [s \in Sources |-> "none"]
  /\ ingest = [s \in Sources |-> NotBegun]

\* Lines 448-616, all of it reading, and the packet's directory.  A request
\* that is refused leaves nothing.
StartIngest(s, q) ==
  /\ ingest[s] = NotBegun
  /\ ~Refused(q)
  /\ ingest' = [ingest EXCEPT ![s] = [at |-> "text", request |-> q]]
  /\ packets' = [packets EXCEPT ![s].made = TRUE]
  /\ UNCHANGED jobs
WriteText(s) ==
  LET q == ingest[s].request IN
  /\ ingest[s].at = "text"
  /\ packets' = CASE TextName(q) = "content" -> [packets EXCEPT ![s].content = TextLength(q)]
                  [] TextName(q) = "excerpt" -> [packets EXCEPT ![s].excerpt = TextLength(q)]
                  [] OTHER -> packets
  /\ At(s, "packet")
  /\ UNCHANGED jobs
WritePacket(s) ==
  /\ ingest[s].at = "packet"
  /\ packets' = [packets EXCEPT ![s].packet = PacketOf(ingest[s].request)]
  /\ At(s, "job")
  /\ UNCHANGED jobs
CreateJobEarly(s) ==  \* variant: the job is there before its packet
  /\ ingest[s].at \in {"packet", "job"}
  /\ jobs' = [jobs EXCEPT ![s] = "pending"]
  /\ At(s, IF ingest[s].at = "job" THEN "done" ELSE "packet")
  /\ UNCHANGED packets
CreateJob(s) ==
  /\ ingest[s].at = "job"
  /\ jobs' = [jobs EXCEPT ![s] = "pending"]
  /\ At(s, "done")
  /\ UNCHANGED packets
IngestDies(s) ==
  /\ Ingesting(s)
  /\ At(s, "dead")
  /\ UNCHANGED <<packets, jobs>>

IngestStep(s) == WriteText(s) \/ WritePacket(s) \/ CreateJob(s)

-----------------------------------------------------------------------------
(* What others make of a packet *)

\* build_digest_model_request: the text that goes to the provider
MaxRequestSourceText == 8000
RequestText(s) ==
  LET d == packets[s]
      text == CASE d.packet.mode = "public_text"  -> d.content
                [] d.packet.mode = "excerpt_only" -> d.excerpt
                [] OTHER -> NoFile
  IN IF text = NoFile THEN NoFile ELSE Shorter(text, MaxRequestSourceText)

\* doctor_public_safe; the scan for binaries, symlinks and private path names
\* is left out.
DoctorReadsPackets(s) ==  \* variant: only what packet.json files say is looked at
  LET d == packets[s] IN
  d.packet # NoFile => SourcePacketValid(d.packet)
DoctorPublicSafe(s) ==
  LET d == packets[s] IN
  d.made =>
    /\ d.packet # NoFile
    /\ SourcePacketValid(d.packet)
    /\ d.content # NoFile /\ d.packet.type # "local_draft" =>
         d.content <= ExternalPublicTextLimit

-----------------------------------------------------------------------------
(* Properties *)

IngestTypeOK ==
  /\ \A s \in Sources :
       LET d == packets[s] IN
       /\ d.made \in BOOLEAN
       /\ d.content \in Nat \cup {NoFile} /\ d.excerpt \in Nat \cup {NoFile}
       /\ d.packet \in Packet \cup {NoFile}
       /\ ingest[s].at \in {"none", "text", "packet", "job", "done", "dead"}
       /\ ingest[s].request \in Request \cup {NoRequest}
  /\ jobs \in [Sources -> {"none", "pending", "done"}]

\* The full text of a source lies in the repository only if it may be
\* redistributed (RAW_POLICY.md), and an external text only up to the limit:
\* at every moment of a call, and also when it dies before its packet.json.
OnlyLicensedText ==
  \A s \in Sources : packets[s].content # NoFile =>
    /\ ingest[s].request.redistributable = "yes"
    /\ SourceType(ingest[s].request) # "local_draft" =>
         packets[s].content <= ExternalPublicTextLimit + 1

\* A digest job never waits for a packet that is not there, and whoever works
\* on it gets the text that ingest stored: writer and reader agree on the file
\* for every kind of source (a PDF kept as a local blob has no text to send).
JobFindsItsText ==
  \A s \in Sources : jobs[s] # "none" =>
    LET pk == packets[s].packet IN
    /\ pk # NoFile
    /\ pk.mode # "local_blob" =>
         RequestText(s) = IF TextName(ingest[s].request) = "none" THEN NoFile
                          ELSE Shorter(TextLength(ingest[s].request), MaxRequestSourceText)
    /\ pk.status = "complete" => RequestText(s) # NoFile

\* doctor public-safe tells what ingest left: it complains of a directory whose
\* call died before packet.json, and of nothing that a call finished, except
\* of an external text that was cut at the limit, which the line end that is
\* added to it puts one character above the limit (fetch.py:510, doctor.py:308).
DoctorTellsHalfPackets ==
  \A s \in Sources : ingest[s].at \in {"done", "dead"} =>
    LET q == ingest[s].request
        cut == /\ SourceType(q) # "local_draft" /\ TextName(q) = "content"
               /\ q.length >= ExternalPublicTextLimit
    IN DoctorPublicSafe(s) <=> packets[s].packet # NoFile /\ ~cut

=============================================================================

------------------------------ MODULE ReplyShape ------------------------------
(***************************************************************************)
(* What WhatsApp gets for an answer of PromptQL: the text and the          *)
(* documents that dispatch() (routing/outboundDispatcher.ts:95) makes of   *)
(* it, with the adapter's downloads, the PDF guard                         *)
(* (routing/invoicePdfGuard.ts) and the sanitizer (routing/sanitizer.ts).  *)
(*                                                                         *)
(* A text is a set of lines, and a line is what it says: the kinds below   *)
(* are those the code tells apart.  Artifacts have a type and a name, and  *)
(* what a download of one returns is the environment's choice.  One answer *)
(* is followed from the end of the wait; a step lasts from one await to    *)
(* the next.                                                               *)
(***************************************************************************)
EXTENDS Naturals, Sequences, SequencesExt

CONSTANTS
  Artifacts,  \* the artifacts of a thread
  TypeOf,     \* TypeOf[a]: "file", "image", "html", "data" (json, text ...) or "none"
  TitleOf,    \* TitleOf[a]: what its title suggests: "invoice", "lookbook", "plain"
  IdOf,       \* IdOf[a]: what its identifier suggests
  MayHold,    \* MayHold[a]: what a download of it may return, see Contents
  Built,      \* the PDF the gateway makes of stated facts
  Nothing,    \* no artifact
  Turns       \* the answers to follow, see TurnsOK

Kinds == {"chat", "long",         \* concierge copy; more of it than a caption holds
          "invoice", "owed",      \* presents an invoice; mentions one
          "lookbook", "idea",     \* presents a document; mentions one
          "link", "teach",        \* a ql.app permalink; the "Teach SEPT" footer with one
          "notice", "admin",      \* a banner of the platform; a claim to have changed it
          "envelope"}             \* the raw JSON of PromptQL
Fixed == {"preparing invoice", "preparing document", "invoice caption", "document caption"}

\* A PDF, by itself or inside a chip; HTML or JSON, with the facts of an invoice
\* or without; text that is labelled application/pdf; past the size cap; no bytes.
Contents == {"pdf", "image", "sheet", "html", "facts", "junk", "big", "empty"}
Outcomes == {"pdf", "image", "other", "fake", "blocked", "chip", "large", "lost"}

\* An answer that is not completed is the gateway's own notice of a declined approval.
TurnsOK(t) ==
  /\ t \in [completed : BOOLEAN, lines : SUBSET Kinds, inline : Seq(Artifacts),
            listed : Seq(Artifacts), asked : {"invoice", "document", "other"},
            stated : BOOLEAN, welcome : BOOLEAN]
  /\ ~t.completed => t.lines \subseteq {"chat"}

ASSUME ReplyShapeAssumption ==
  /\ \A t \in Turns : TurnsOK(t)
  /\ {Built, Nothing} \cap Artifacts = {} /\ Built # Nothing
  /\ MayHold \in [Artifacts -> SUBSET Contents]

VARIABLES
  turn,     \* the answer and its request
  step,     \* the await dispatch() is at, or how it ended
  refs,     \* the artifacts to download
  outcome,  \* what became of each
  docs,     \* the documents sent, one of them with the text as its caption
  text      \* the text sent: its lines, the failures it notes, the welcome before it

replyVars == <<turn, step, refs, outcome, docs, text>>

NoText == [welcome |-> FALSE, lines |-> {}, note |-> {}]

\* Outcomes that leave bytes to send.
Sendable == {"pdf", "image", "other", "fake"}

ReplyTypeOK ==
  /\ TurnsOK(turn)
  /\ step \in {"waiting", "resolving", "recovering", "sent", "failed"}
  /\ Len(outcome) <= Len(refs) /\ ToSet(refs) \subseteq Artifacts /\ ToSet(outcome) \subseteq Outcomes
  /\ docs \subseteq [file : Artifacts \cup {Built}, is : {"pdf", "image", "other", "fake"},
                     from : {"reply", "thread", "gateway"}]
  /\ text \in [welcome : BOOLEAN, lines : SUBSET (Kinds \cup Fixed), note : SUBSET {"large", "lost"}]

ReplyInit ==
  /\ turn \in Turns /\ step = "waiting"
  /\ refs = <<>> /\ outcome = <<>> /\ docs = {} /\ text = NoText

-------------------------------------------------------------------------------
(***************************************************************************)
(* Reading the answer                                                      *)
(***************************************************************************)

\* A claim to have changed the platform, which the answer cannot have.
Untrue == {"admin"}

\* The sanitizer takes these lines out, and an envelope as a whole.
Internal == {"link", "teach", "notice", "envelope"} \cup Untrue
Visible(lines) == IF "envelope" \in lines THEN {} ELSE lines \ Internal

\* The words of a line the guard looks for.
Words(lines) ==
  (IF lines \cap {"invoice", "owed", "preparing invoice", "invoice caption"} # {}
   THEN {"an invoice"} ELSE {}) \cup
  (IF lines \cap {"lookbook", "idea", "document caption"} # {} THEN {"a document"} ELSE {}) \cup
  (IF lines \cap {"invoice", "lookbook", "invoice caption", "document caption"} # {}
   THEN {"here is"} ELSE {})

Linked(lines) == lines \cap {"link", "teach"} # {}

ClaimsInvoice(lines) == {"an invoice", "here is"} \subseteq Words(Visible(lines))

ClaimsDocument(lines) ==
  /\ ~ClaimsInvoice(lines)
  /\ "a document" \in Words(lines)
  /\ "here is" \in Words(lines) \/ Linked(lines)

BarePermalink(lines) == Linked(lines) /\ Visible(lines) = {}

LifecycleOnly(lines) == "notice" \in lines /\ Visible(lines) = {}

\* Mutant of InvoiceNamed: a file called invoice is not known by its identifier.
InvoiceTitled(a) == TitleOf[a] = "invoice"

InvoiceNamed(a) == "invoice" \in {TitleOf[a], IdOf[a]}

-------------------------------------------------------------------------------
(***************************************************************************)
(* Artifacts                                                               *)
(***************************************************************************)

\* Of the listed ones, those that may be documents; files before images.
Selectable(a) ==
  \/ TypeOf[a] \in {"file", "image"}
  \/ TypeOf[a] = "none" /\ {TitleOf[a], IdOf[a]} \cap {"invoice", "lookbook"} # {}
Filelike(a) == TypeOf[a] = "file" \/ InvoiceNamed(a)
Selected(listed) ==
  LET candidates == SelectSeq(listed, Selectable)
      files == SelectSeq(candidates, Filelike)
  IN  IF files # <<>> THEN files ELSE candidates

\* Tags in the text, or in their absence what the response lists.
RefsOf(t) ==
  IF ~t.completed THEN <<>> ELSE IF t.inline # <<>> THEN t.inline ELSE Selected(t.listed)

\* decodeArtifact()
Decoded(c) ==
  CASE c = "html" -> "blocked" [] c = "facts" -> "chip" [] c = "sheet" -> "other"
    [] c = "junk" -> "fake" [] c = "big" -> "large" [] c = "empty" -> "lost"
    [] OTHER -> c

\* A tag of an artifact the response does not list is lost, and so is any download
\* that throws.
OutcomesOf(t, a) ==
  {"lost"} \cup IF a \in ToSet(t.listed) THEN {Decoded(c) : c \in MayHold[a]} ELSE {}

\* With a PDF, what accompanies an invoice is not attached.
PreferPdf(rs, os) ==
  IF ToSet(os) \cap {"pdf", "fake"} = {} THEN os
  ELSE [i \in DOMAIN os |-> IF os[i] = "other" /\ InvoiceNamed(rs[i]) THEN "blocked" ELSE os[i]]

FromReply(rs, os) ==
  {[file |-> rs[i], is |-> os[i], from |-> "reply"] : i \in {j \in DOMAIN os : os[j] \in Sendable}}

Failures(os) == ToSet(os) \cap {"large", "lost"}

-------------------------------------------------------------------------------
(***************************************************************************)
(* The PDF guard                                                           *)
(***************************************************************************)

\* The answer the guard judges, before anything is taken out or put in front.
Presented(t) == t.lines

HtmlSubstitute(t) ==
  t.completed /\ \E a \in ToSet(RefsOf(t)) \cup ToSet(t.listed) : TypeOf[a] = "html"

Chip(t) == HtmlSubstitute(t) \/ Linked(Presented(t))

EnforceInvoice(t) == ClaimsInvoice(Presented(t)) \/ (t.asked = "invoice" /\ Chip(t))

EnforceDocument(t) ==
  /\ ~EnforceInvoice(t)
  /\ \/ ClaimsDocument(Presented(t)) \/ BarePermalink(Presented(t))
     \/ (t.asked = "document" /\ Chip(t))

\* Mutant of RealPdf: the label decides.
LabelledPdf(os) == ToSet(os) \cap {"pdf", "fake"} # {}

RealPdf(os) == "pdf" \in ToSet(os)

Guarded(t, os) == t.completed /\ ~RealPdf(os) /\ (EnforceInvoice(t) \/ EnforceDocument(t))

\* Stored files, of which the first that turns out to be a PDF is taken.  Any of
\* the ranking can be, as downloads fail.
Stored(t) ==
  {a \in Artifacts :
     /\ "pdf" \in MayHold[a]
     /\ IF EnforceInvoice(t) THEN TypeOf[a] \notin {"html", "data"} \/ InvoiceNamed(a)
        ELSE TypeOf[a] \notin {"html", "data"} /\ ~InvoiceNamed(a)}

\* A download that failed, and not one that found something else.
Unreplaceable(o) == o \in {"large", "lost"}

\* A file, or said to be one: what the response lists without a type is selected
\* as a file.
Pdfish(t, a) ==
  TypeOf[a] = "file" \/ (TypeOf[a] = "none" /\ (InvoiceNamed(a) \/ t.inline = <<>>))
ReferencedPdf(t, rs, os) == \E i \in DOMAIN rs : Pdfish(t, rs[i]) /\ Unreplaceable(os[i])

\* Whether an invoice's facts are known: an artifact that is too large may state
\* them too.
Facts(t, os) ==
  IF t.stated \/ "chip" \in ToSet(os) THEN {TRUE}
  ELSE IF "large" \in ToSet(os) THEN BOOLEAN ELSE {FALSE}

\* ensureOutboundPdf(): a stored file, one made of facts, or none.
Decision(t, rs, os, stored, facts) ==
  IF stored # Nothing /\ ~(EnforceDocument(t) /\ InvoiceNamed(stored))
  THEN {[file |-> stored, is |-> "pdf", from |-> "thread"]}
  ELSE IF EnforceInvoice(t) /\ ~ReferencedPdf(t, rs, os) /\ facts
  THEN {[file |-> Built, is |-> "pdf", from |-> "gateway"]}
  ELSE {}

-------------------------------------------------------------------------------
(***************************************************************************)
(* The message                                                             *)
(***************************************************************************)

\* documentCaption(): the opening lines; a welcome and a note are kept whole.
Short(m) == [m EXCEPT !.lines = @ \ {"long"}]

InvoicePdf(t, ds) ==
  \E d \in ds : d.is = "pdf" /\ (ClaimsInvoice(t.lines) \/ InvoiceNamed(d.file))

Caption(t, ds, m) ==
  IF InvoicePdf(t, ds) THEN [m EXCEPT !.lines = {"invoice caption"}, !.note = {}]
  ELSE IF Short(m) = NoText /\ EnforceDocument(t) /\ (\E d \in ds : d.is = "pdf")
  THEN [m EXCEPT !.lines = {"document caption"}]
  ELSE Short(m)

\* A preparing line alone, which the chat may have got two minutes ago.
Repeatable(ds, m) ==
  ds = {} /\ ~m.welcome /\ m.note = {} /\ m.lines \subseteq {"preparing invoice", "preparing document"}

\* Sent, or failed: an "empty response", or a preparing line said twice.
Send(ds, m) ==
  \/ /\ ds # {} \/ m # NoText
     /\ step' = "sent" /\ docs' = ds /\ text' = m
  \/ /\ Repeatable(ds, m)
     /\ step' = "failed" /\ UNCHANGED <<docs, text>>

Unguarded(t, rs, os) ==
  LET ds == FromReply(rs, os)
      m == [welcome |-> t.welcome, lines |-> Visible(t.lines), note |-> Failures(os)]
  IN  Send(ds, IF ds = {} THEN m ELSE Caption(t, ds, m))

GuardedInvoice(t, ds) ==
  Send(ds, [welcome |-> t.welcome, note |-> {},
            lines |-> IF ds = {} THEN {"preparing invoice"} ELSE {"invoice caption"}])

GuardedDocument(t, ds) ==
  LET m == [welcome |-> t.welcome, lines |-> Visible(t.lines), note |-> {}] IN
  Send(ds, IF ds = {} THEN [m EXCEPT !.lines = {"preparing document"}]
           ELSE IF Short(m) = NoText THEN [m EXCEPT !.lines = {"document caption"}] ELSE Short(m))

\* On from the downloads, to the guard's own await or to the send.
Continue(t, rs, os) ==
  IF Guarded(t, os) THEN step' = "recovering" /\ UNCHANGED <<docs, text>>
  ELSE Unguarded(t, rs, os)

-------------------------------------------------------------------------------

\* The wait is over: a banner and an envelope are dropped.
Answer ==
  /\ step = "waiting"
  /\ refs' = RefsOf(turn)
  /\ IF LifecycleOnly(turn.lines) \/ "envelope" \in turn.lines
     THEN step' = "failed" /\ UNCHANGED <<docs, text>>
     ELSE IF refs' # <<>> THEN step' = "resolving" /\ UNCHANGED <<docs, text>>
     ELSE Continue(turn, <<>>, <<>>)
  /\ UNCHANGED <<turn, outcome>>

\* One more download is over; after the last the answer goes on.
Resolve ==
  /\ step = "resolving"
  /\ \E o \in OutcomesOf(turn, refs[Len(outcome) + 1]) :
       LET os == Append(outcome, o) IN
       IF Len(os) < Len(refs)
       THEN outcome' = os /\ UNCHANGED <<step, docs, text>>
       ELSE outcome' = PreferPdf(refs, os) /\ Continue(turn, refs, outcome')
  /\ UNCHANGED <<turn, refs>>

\* The thread's stored files have been looked through.
Recover ==
  /\ step = "recovering"
  /\ \E stored \in Stored(turn) \cup {Nothing}, facts \in Facts(turn, outcome) :
       LET ds == Decision(turn, refs, outcome, stored, facts) IN
       IF EnforceInvoice(turn) THEN GuardedInvoice(turn, ds) ELSE GuardedDocument(turn, ds)
  /\ UNCHANGED <<turn, refs, outcome>>

ReplyNext == Answer \/ Resolve \/ Recover

ReplySpec == ReplyInit /\ [][ReplyNext]_replyVars

-------------------------------------------------------------------------------
(***************************************************************************)
(* Properties                                                              *)
(***************************************************************************)

Presents(lines) == ClaimsInvoice(lines) \/ ClaimsDocument(lines)
HasPdf == \E d \in docs : d.is = "pdf"
Preparing == {"preparing invoice", "preparing document"}

\* "A reply that presents a PDF or other document goes out as a real
\* application/pdf or as one preparing line - never as a ql.app permalink or a
\* Teach SEPT footer" (README.md:83), and "it never says a PDF was sent when it
\* was not" (docs/invoice-delivery-runbook.md:15).
PresentedIsDelivered ==
  step = "sent" =>
    /\ turn.completed /\ (Presents(turn.lines) \/ BarePermalink(turn.lines)) =>
         HasPdf \/ (docs = {} /\ \E l \in Preparing : text.lines = {l})
    /\ text.lines \cap Internal = {}
    /\ Presents(text.lines) => HasPdf

\* "A lookbook turn cannot be sent an old commercial invoice" (adapter, document
\* mode): a stored invoice answers only a reply that presents an invoice or a
\* request for one.
NoInvoiceForALookbook ==
  \A d \in docs : d.from \in {"thread", "gateway"} =>
    \/ ClaimsInvoice(turn.lines) \/ turn.asked = "invoice"
    \/ d.file # Built /\ "invoice" \notin {TitleOf[d.file], IdOf[d.file]}

-------------------------------------------------------------------------------

\* "Those artifacts are fetched and delivered together with the text"
\* (README.md:72-75): what a tag refers to and WhatsApp can take is sent, at least
\* where the answer presents no document the guard could be after.
FetchedIsDelivered ==
  step = "sent" /\ turn.inline # <<>> /\ ~Presents(turn.lines) =>
    \A i \in DOMAIN outcome : outcome[i] \in {"pdf", "image"} =>
      \E d \in docs : d.file = refs[i]

===============================================================================

------------------------------ MODULE Documents ------------------------------
(***************************************************************************)
(* One quote and its invoices (QuotesInvoicesService): updateQuote         *)
(* replaces the lines by a DELETE and an INSERT for each before it writes  *)
(* the totals; convertQuoteToInvoice reads the row, then the lines,        *)
(* inserts the invoice under the number after the count, copies the lines  *)
(* and marks the quote, in as many statements.                             *)
(*                                                                         *)
(* A set of lines given by one request is a version; the row's total is    *)
(* the version it was computed from.  Taxes, discounts, customers, other   *)
(* quotes and the payment of invoices are left out.                        *)
(***************************************************************************)
EXTENDS ReadThenWrite, Naturals, Sequences

CONSTANTS
  LineCount,       \* lines of a version
  MaxVersions,     \* bound: versions of the lines
  MaxInvoices,     \* bound: invoices made of the quote
  MaxDocFaults     \* bound: requests that stop half way

ASSUME DocumentAssumption ==
  /\ LineCount \in Nat \ {0} /\ MaxVersions \in Nat \ {0}
  /\ MaxInvoices \in Nat /\ MaxDocFaults \in Nat

VARIABLES
  quote,           \* the row: converted, the version of its total, convertedInvoiceId
  quoteLines,      \* its lines, <<version, position>>
  invoices,        \* the invoices made of it, by number: total and lines
  document,        \* what each request is at and has read
  versions,        \* versions given so far
  halted,          \* history: requests that stopped half way
  docOutdated      \* history: a request wrote on what had changed since it read

docVars == <<quote, quoteLines, invoices, document, versions, halted, docOutdated>>

Positions == 1 .. LineCount
Lines(version) == {version} \X Positions
NoDocument == [at |-> "idle", version |-> 0, lines |-> {}, left |-> {}, invoice |-> 0, fresh |-> TRUE]
DocSteps == {"idle", "delete", "lines", "totals", "readLines", "number", "invoice", "copy", "link"}

\* createQuote has made the row and its lines.
DocInit ==
  /\ quote = [converted |-> FALSE, total |-> 1, invoice |-> 0]
  /\ quoteLines = Lines(1) /\ invoices = <<>>
  /\ document = [r \in Requests |-> NoDocument]
  /\ versions = 1 /\ halted = 0 /\ docOutdated = FALSE

Goes(r, step) == document' = [document EXCEPT ![r] = step]

\* A write of request r, on what it read.
Writes(r, step) ==
  /\ document' = Overwritten(document, r, step)
  /\ docOutdated' = (docOutdated \/ ~document[r].fresh)

----------------------------------------------------------------------------
(* updateQuote with lines (and perhaps a status), and with a status alone.  *)

BeginUpdate(r) ==
  /\ document[r].at = "idle" /\ ~quote.converted /\ versions < MaxVersions
  /\ versions' = versions + 1
  /\ Goes(r, [NoDocument EXCEPT !.at = "delete", !.version = versions + 1])
  /\ UNCHANGED <<quote, quoteLines, invoices, halted, docOutdated>>

DeleteLines(r) ==
  /\ document[r].at = "delete"
  /\ quoteLines' = {}
  /\ Writes(r, [document[r] EXCEPT !.at = "lines", !.left = Lines(document[r].version)])
  /\ UNCHANGED <<quote, invoices, versions, halted>>

\* The lines are inserted in the order of their positions.
FirstOf(lines) == CHOOSE line \in lines : \A other \in lines : line[2] <= other[2]

InsertLine(r) ==
  LET step == document[r]  line == FirstOf(step.left) IN
  /\ step.at = "lines"
  /\ quoteLines' = quoteLines \cup {line}
  /\ Writes(r, [step EXCEPT !.left = @ \ {line}, !.at = IF step.left = {line} THEN "totals" ELSE "lines"])
  /\ UNCHANGED <<quote, invoices, versions, halted>>

WriteTotals(r) ==
  /\ document[r].at = "totals"
  /\ \E converted \in BOOLEAN :
       quote' = [quote EXCEPT !.total = document[r].version, !.converted = converted]
  /\ Writes(r, NoDocument)
  /\ UNCHANGED <<quoteLines, invoices, versions, halted>>

\* A status alone: CONVERTED is one of those that it may set, and leave.
UpdateStatus ==
  /\ quote' = [quote EXCEPT !.converted = ~@]
  /\ UNCHANGED <<quoteLines, invoices, document, versions, halted, docOutdated>>

----------------------------------------------------------------------------
(* convertQuoteToInvoice.                                                   *)

AlreadyConverted_Wrong == FALSE
AlreadyConverted == quote.invoice # 0

BeginConvert(r) ==
  /\ document[r].at = "idle" /\ ~AlreadyConverted
  /\ Goes(r, [NoDocument EXCEPT !.at = "readLines", !.version = quote.total])
  /\ UNCHANGED <<quote, quoteLines, invoices, versions, halted, docOutdated>>

\* A quote without lines is refused.
ReadLines(r) ==
  /\ document[r].at = "readLines"
  /\ Goes(r, IF quoteLines = {} THEN NoDocument
             ELSE [document[r] EXCEPT !.at = "number", !.lines = quoteLines])
  /\ UNCHANGED <<quote, quoteLines, invoices, versions, halted, docOutdated>>

CountInvoices(r) ==
  /\ document[r].at = "number" /\ Len(invoices) < MaxInvoices
  /\ Goes(r, [document[r] EXCEPT !.at = "invoice", !.invoice = Len(invoices) + 1])
  /\ UNCHANGED <<quote, quoteLines, invoices, versions, halted, docOutdated>>

\* The unique key of the number refuses a second invoice of one count.
InsertInvoice(r) ==
  LET step == document[r] IN
  /\ step.at = "invoice"
  /\ IF step.invoice \in DOMAIN invoices
     THEN Goes(r, NoDocument) /\ UNCHANGED <<invoices, docOutdated>>
     ELSE /\ invoices' = Append(invoices, [total |-> step.version, lines |-> {}])
          /\ Writes(r, [step EXCEPT !.at = "copy", !.left = step.lines])
  /\ UNCHANGED <<quote, quoteLines, versions, halted>>

CopyLine(r) ==
  LET step == document[r] IN
  /\ step.at = "copy"
  /\ \E line \in step.left :
       /\ invoices' = [invoices EXCEPT ![step.invoice].lines = @ \cup {line}]
       /\ Goes(r, [step EXCEPT !.left = @ \ {line}, !.at = IF step.left = {line} THEN "link" ELSE "copy"])
  /\ UNCHANGED <<quote, quoteLines, versions, halted, docOutdated>>

LinkInvoice(r) ==
  /\ document[r].at = "link"
  /\ quote' = [quote EXCEPT !.converted = TRUE, !.invoice = document[r].invoice]
  /\ Writes(r, NoDocument)
  /\ UNCHANGED <<quoteLines, invoices, versions, halted>>

\* A statement fails or the process stops: nothing is taken back.
StopsHalfWay(r) ==
  /\ document[r].at # "idle" /\ halted < MaxDocFaults
  /\ halted' = halted + 1
  /\ Goes(r, NoDocument)
  /\ UNCHANGED <<quote, quoteLines, invoices, versions, docOutdated>>

DocNext ==
  \/ UpdateStatus
  \/ \E r \in Requests :
       \/ BeginUpdate(r) \/ DeleteLines(r) \/ InsertLine(r) \/ WriteTotals(r)
       \/ BeginConvert(r) \/ ReadLines(r) \/ CountInvoices(r) \/ InsertInvoice(r)
       \/ CopyLine(r) \/ LinkInvoice(r) \/ StopsHalfWay(r)

DocSpec == DocInit /\ [][DocNext]_docVars

----------------------------------------------------------------------------

\* The rows and the requests hold values of their types.
DocTypeOK ==
  LET Line == (1 .. MaxVersions) \X Positions IN
  /\ quote \in [converted : BOOLEAN, total : 1 .. MaxVersions, invoice : 0 .. MaxInvoices]
  /\ quoteLines \in SUBSET Line
  /\ invoices \in Seq([total : 1 .. MaxVersions, lines : SUBSET Line])
  /\ document \in [Requests ->
       [at : DocSteps, version : 0 .. MaxVersions, lines : SUBSET Line, left : SUBSET Line,
        invoice : 0 .. MaxInvoices, fresh : BOOLEAN]]
  /\ versions \in 1 .. MaxVersions /\ halted \in 0 .. MaxDocFaults /\ docOutdated \in BOOLEAN

\* Unless requests overlapped or stopped half way, a quote at rest has at most one
\* invoice, the one it names; lines and total of both documents agree; and an
\* invoice that the quote names has lines, whatever happened.
Agrees(row, lines) == lines = Lines(row.total)
InvoicesAreWhole ==
  /\ quote.invoice # 0 => quote.invoice \in DOMAIN invoices /\ invoices[quote.invoice].lines # {}
  /\ ~docOutdated /\ halted = 0 /\ AtRest(document) =>
       /\ Len(invoices) <= 1 /\ quote.invoice = Len(invoices)
       /\ Agrees(quote, quoteLines)
       /\ \A i \in DOMAIN invoices : Agrees(invoices[i], invoices[i].lines)

============================================================================

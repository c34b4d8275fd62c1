--------------------------- MODULE InventoryForms ---------------------------
(***************************************************************************)
(* The forms of the inventory page: goods receipts from a file or from     *)
(* pasted lines (GoodsReceiptImport.tsx), catalog lines that are pasted,   *)
(* put right and imported (ProductManagement.tsx), and count sheets that   *)
(* are opened and closed (InventoryCounts.tsx).                            *)
(*                                                                         *)
(* A line is what the parsers ask of it.  A file is read in the background *)
(* and its name counts at once.  Supplier, notes, dates, prices and the    *)
(* events pushed to the list of the page are left out.                     *)
(***************************************************************************)
EXTENDS TenantBase, FiniteSets

CONSTANTS
  Files,
  Pasted,  \* lines that may be pasted
  Sheets   \* the count sheets that may be opened

ASheet == [tenant : Tenants, open : BOOLEAN, filled : BOOLEAN]

ASSUME FormsAssumption ==
  Nothing \notin Files /\ Nothing \notin Pasted /\ Nothing \notin Sheets /\ Nothing \notin ASheet

VARIABLES
  file, content, readers, \* the file named, the file read, the files being read
  entries, \* the lines pasted into the goods receipt
  posting, \* a goods receipt is being sent
  receipt, \* history: the goods receipt sent last
  crossed, \* history: another file was chosen, or the choice undone, while a file was being read
  pasted,  \* the lines pasted for the catalog
  basis,   \* history: the lines the rows were made from
  grid,   \* the rows shown, each readable or not
  faults,  \* the lines reported as unreadable
  importing, \* an import is under way
  imported, \* history: what was imported last, and from which lines
  dropped, \* history: the rows taken away since the lines were read
  sheets,  \* the count sheets: not there, or their tenant, whether they are open and have lines
  opening, \* the answer to a new sheet that is under way
  closer,  \* the form that closes a sheet: tenant, sheet and the sheet its lines are of
  closing, \* the form as it was sent
  closedBy, \* history: the lines each sheet was closed with
  typed,   \* history: the form that closes was written to by hand
  openedFor \* history: the tenants sheets were opened for

receiptVars == <<file, content, readers, entries, posting, receipt, crossed>>
catalogVars == <<pasted, basis, grid, faults, importing, imported, dropped>>
countVars   == <<sheets, opening, closer, closing, closedBy, typed, openedFor>>
formVars    == <<receiptVars, catalogVars, countVars>>

ALine == [ean : {"none", "good", "bad"}, sku : BOOLEAN, named : BOOLEAN, amount : {"none", "good", "bad"}]

ASSUME PastedAssumption == Pasted \subseteq ALine

Blank == [ean |-> "none", sku |-> FALSE, named |-> FALSE, amount |-> "none"]

FormsInit ==
  /\ file = Nothing /\ content = Nothing /\ readers = {}
  /\ entries = {} /\ posting = FALSE /\ receipt = Nothing /\ crossed = FALSE
  /\ pasted = {} /\ basis = {} /\ grid = {} /\ faults = {} /\ importing = FALSE /\ imported = Nothing /\ dropped = {}
  /\ sheets = [n \in Sheets |-> Nothing] /\ opening = Nothing
  /\ closer = [tenant |-> Nothing, sheet |-> Nothing, lines |-> Nothing] /\ closing = Nothing
  /\ closedBy = [n \in Sheets |-> Nothing] /\ typed = FALSE /\ openedFor = {}

Keyed(line) == line.ean # "bad" /\ (line.sku \/ line.ean = "good")

-----------------------------------------------------------------------------
(* The goods receipt.                                                        *)

\* parseManualEntries: a line needs a key, and an amount that is a number if it has one.
ReceiptLine(line)   == Keyed(line) /\ line.amount # "bad"
ReceiptItems(lines) == {l \in lines : ReceiptLine(l)}

\* The name of the file counts at once, its content when it has been read.
HandleFile(f) ==
  /\ f \notin readers
  /\ file' = f
  /\ readers' = readers \cup {f}
  /\ crossed' = (crossed \/ readers # {})
  /\ UNCHANGED <<content, entries, posting, receipt>>

ReaderLoads(f) ==
  /\ f \in readers
  /\ readers' = readers \ {f}
  /\ content' = f
  /\ UNCHANGED <<file, entries, posting, receipt, crossed>>

\* The reader fails, and whatever is chosen by then is undone.
ReaderFails(f) ==
  /\ f \in readers
  /\ readers' = readers \ {f}
  /\ file' = Nothing /\ content' = Nothing
  /\ UNCHANGED <<entries, posting, receipt, crossed>>

ResetFileSelection ==
  /\ file # Nothing
  /\ file' = Nothing /\ content' = Nothing
  /\ crossed' = (crossed \/ readers # {})
  /\ UNCHANGED <<readers, entries, posting, receipt>>

PasteEntries(lines) ==
  /\ lines # entries /\ entries' = lines
  /\ UNCHANGED <<file, content, readers, posting, receipt, crossed>>

\* What was pasted goes before the file, whose name is sent all the same; lines that cannot be read
\* stop the others, but not a file.
SubmitReceipt ==
  LET items == ReceiptItems(entries) IN
  /\ ~posting /\ posting' = TRUE
  /\ IF items = {} THEN content # Nothing ELSE items = entries
  /\ receipt' = [name |-> file, file |-> IF items = {} THEN content ELSE Nothing,
                 hasty |-> crossed \/ readers # {}]
  /\ UNCHANGED <<file, content, readers, entries, crossed>>

ReceiptSettles ==
  /\ posting /\ posting' = FALSE
  /\ UNCHANGED <<file, content, readers, entries, receipt, crossed>>

-----------------------------------------------------------------------------
(* The catalog.                                                              *)

\* parseManualProductEntries: a line needs a key and a name; its price is looked at when it is sent.
CatalogLine(line) == Keyed(line) /\ line.named
Row(l, line)      == [of |-> l, as |-> line]

PasteCatalog(lines) ==
  /\ lines # pasted /\ pasted' = lines
  /\ UNCHANGED <<basis, grid, faults, importing, imported, dropped>>

AnalyzeManualInput ==
  /\ pasted # {}
  /\ grid' = {Row(l, l) : l \in {x \in pasted : CatalogLine(x)}}
  /\ faults' = {l \in pasted : ~CatalogLine(l)}
  /\ basis' = pasted /\ dropped' = {}
  /\ UNCHANGED <<pasted, importing, imported>>

\* The button that empties the list; the text stays.
ClearCatalog ==
  /\ grid \cup faults # {}
  /\ grid' = {} /\ faults' = {} /\ basis' = {} /\ dropped' = {}
  /\ UNCHANGED <<pasted, importing, imported>>

UpdateRow(r, line) ==
  /\ grid' = (grid \ {r}) \cup {Row(r.of, line)}
  /\ UNCHANGED <<pasted, basis, faults, importing, imported, dropped>>

RemoveRow(r) ==
  /\ grid' = grid \ {r}
  /\ dropped' = dropped \cup {r.of}
  /\ UNCHANGED <<pasted, basis, faults, importing, imported>>

AddEmptyRow ==
  /\ Row(Nothing, Blank) \notin grid
  /\ grid' = grid \cup {Row(Nothing, Blank)}
  /\ UNCHANGED <<pasted, basis, faults, importing, imported, dropped>>

\* A row is sent with its article number, its name and a price that is a number, or nothing is.
Sendable(line) == line.sku /\ line.named /\ line.amount # "bad" /\ line.ean # "bad"

HandleImportSubmit ==
  /\ grid # {} /\ \A r \in grid : Sendable(r.as)
  /\ ~importing /\ importing' = TRUE
  /\ imported' = [rows |-> grid, of |-> basis, reported |-> faults, without |-> dropped]
  /\ UNCHANGED <<pasted, basis, grid, faults, dropped>>

\* The rows stay, and can be sent again.
ImportSettles ==
  /\ importing /\ importing' = FALSE
  /\ UNCHANGED <<pasted, basis, grid, faults, imported, dropped>>

-----------------------------------------------------------------------------
(* The count sheets.                                                         *)

HandleCreateSubmit(t) ==
  /\ opening = Nothing
  /\ \E n \in Sheets, filled \in BOOLEAN :
       /\ sheets[n] = Nothing
       /\ sheets' = [sheets EXCEPT ![n] = [tenant |-> t, open |-> TRUE, filled |-> filled]]
       /\ opening' = n
  /\ openedFor' = openedFor \cup {t}
  /\ UNCHANGED <<closer, closing, closedBy, typed>>

\* The answer fills the form that closes a sheet; a tenant it names already stays, and so do its
\* lines if the new sheet has none.
CreateResult ==
  /\ opening # Nothing /\ opening' = Nothing
  /\ closer' = [tenant |-> IF closer.tenant = Nothing THEN sheets[opening].tenant ELSE closer.tenant,
                sheet |-> opening,
                lines |-> IF sheets[opening].filled THEN opening ELSE closer.lines]
  /\ UNCHANGED <<sheets, closing, closedBy, typed, openedFor>>

\* The answer is lost.
CreateFails ==
  /\ opening # Nothing /\ opening' = Nothing
  /\ UNCHANGED <<sheets, closer, closing, closedBy, typed, openedFor>>

TypeCloser(t, n) ==
  /\ closer.tenant # t \/ closer.sheet # n
  /\ closer' = [closer EXCEPT !.tenant = t, !.sheet = n]
  /\ typed' = TRUE
  /\ UNCHANGED <<sheets, opening, closing, closedBy, openedFor>>

HandleFinalizeSubmit ==
  /\ closing = Nothing
  /\ closer.tenant # Nothing /\ closer.sheet # Nothing
  /\ closing' = closer
  /\ UNCHANGED <<sheets, opening, closer, closedBy, typed, openedFor>>

\* The server closes a sheet once, and for its tenant only.
MayClose(c) == sheets[c.sheet] # Nothing /\ sheets[c.sheet].tenant = c.tenant /\ sheets[c.sheet].open

FinalizeSettles ==
  /\ closing # Nothing /\ closing' = Nothing
  /\ IF MayClose(closing)
       THEN /\ sheets' = [sheets EXCEPT ![closing.sheet].open = FALSE]
            /\ closedBy' = [closedBy EXCEPT ![closing.sheet] = closing.lines]
       ELSE UNCHANGED <<sheets, closedBy>>
  /\ UNCHANGED <<opening, closer, typed, openedFor>>

-----------------------------------------------------------------------------
ReceiptNext ==
  /\ \/ \E f \in Files : HandleFile(f) \/ ReaderLoads(f) \/ ReaderFails(f)
     \/ ResetFileSelection \/ SubmitReceipt \/ ReceiptSettles
     \/ \E lines \in SUBSET Pasted : PasteEntries(lines)
  /\ UNCHANGED <<catalogVars, countVars>>

CatalogNext ==
  /\ \/ \E lines \in SUBSET Pasted : PasteCatalog(lines)
     \/ AnalyzeManualInput \/ ClearCatalog \/ AddEmptyRow \/ HandleImportSubmit \/ ImportSettles
     \/ \E r \in grid : RemoveRow(r) \/ \E l \in Pasted : UpdateRow(r, l)
  /\ UNCHANGED <<receiptVars, countVars>>

CountNext ==
  /\ \/ \E t \in Tenants : HandleCreateSubmit(t) \/ \E n \in Sheets : TypeCloser(t, n)
     \/ CreateResult \/ CreateFails \/ HandleFinalizeSubmit \/ FinalizeSettles
  /\ UNCHANGED <<receiptVars, catalogVars>>

-----------------------------------------------------------------------------
FormsTypeOK ==
  /\ {file, content} \subseteq Files \cup {Nothing} /\ readers \subseteq Files
  /\ entries \subseteq Pasted /\ posting \in BOOLEAN /\ crossed \in BOOLEAN
  /\ pasted \subseteq Pasted /\ basis \subseteq Pasted /\ faults \subseteq Pasted
  /\ importing \in BOOLEAN
  /\ \A r \in grid : r.of \in Pasted \cup {Nothing} /\ r.as \in ALine
  /\ dropped \subseteq Pasted \cup {Nothing}
  /\ sheets \in [Sheets -> ASheet \cup {Nothing}]
  /\ opening \in Sheets \cup {Nothing} /\ openedFor \subseteq Tenants /\ typed \in BOOLEAN
  /\ closer \in [tenant : Tenants \cup {Nothing}, sheet : Sheets \cup {Nothing}, lines : Sheets \cup {Nothing}]
  /\ closing = Nothing \/ (closing.tenant \in Tenants /\ closing.sheet \in Sheets)
  /\ closedBy \in [Sheets -> Sheets \cup {Nothing}]

\* GoodsReceiptImport: a receipt made of a file names that file, unless it was sent, or the choice was
\* changed, while a file was being read.
ReceiptIsNamed ==
  receipt # Nothing /\ ~receipt.hasty => receipt.file \in {receipt.name, Nothing}

\* ProductManagement: each line that was read for an import is imported, was reported, or its row was
\* taken away, and no row is imported that the server would turn down.
ImportAccountsForLines ==
  imported # Nothing =>
    /\ imported.of \subseteq imported.reported \cup imported.without \cup {r.of : r \in imported.rows}
    /\ \A r \in imported.rows : Sendable(r.as)

\* InventoryCounts: a sheet is closed with its own lines, unless someone has typed into the form or
\* the sheet was opened without lines, when the form keeps those of the sheet before; and the form
\* names the tenant of its sheet, unless someone has typed into it, or sheets were opened for several
\* tenants.
SheetClosedAsCounted ==
  /\ typed \/ \A n \in Sheets : closedBy[n] \in {n, Nothing} \/ ~sheets[n].filled
  /\ closer.sheet = Nothing \/ typed \/ Cardinality(openedFor) > 1
     \/ closer.tenant = sheets[closer.sheet].tenant

FormsHaveCause == ReceiptIsNamed /\ ImportAccountsForLines /\ SheetClosedAsCounted
=============================================================================

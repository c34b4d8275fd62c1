----------------------------- MODULE Inventory -----------------------------
(***************************************************************************)
(* Goods in the shop (inventory.service.ts): deliveries, count sheets and  *)
(* their closing, price changes and edits of the catalog.  No handler runs *)
(* in a transaction.                                                       *)
(*                                                                         *)
(* A row is identified by the line of the request that created it.  What a *)
(* request carries comes from the constants; there is one tenant.  What is *)
(* written and never read is left out: goods receipts and their log,       *)
(* promotions, the counted quantity of an item.  So are storage locations, *)
(* which are found or created and only add a way to fail.                  *)
(***************************************************************************)
EXTENDS Overlap, Integers, Sequences

CONSTANTS
  Deliveries, Planners, Closers, Repricers, Importers, Updaters,
  Skus, Eans, Vendors, Lots,
  NoEan, Absent, NoRow,
  Ean,      \* the digits of an identifier, NoEan if it has none
  Payload,  \* the lines of a delivery, as written; a quantity that is no number is Absent
  Catalog,  \* the lines of a catalog import
  Vendor,   \* the supplier a delivery or an edit names, Absent if none
  Plan,     \* the lines of a count sheet
  Sheet,    \* the sheet a closing is about
  Count,    \* the lines of a closing
  Books,    \* the closings that book differences
  Offer,    \* the article and the new price of a price change
  Timely,   \* the price changes recorded between their effectiveFrom and effectiveTo
  Edit      \* the fields an update of a product sets

Editors  == Importers \cup Updaters
Stockers == Deliveries \cup Planners \cup Closers \cup Repricers \cup Editors

\* parseBnnPayload: a line without an article number goes by its EAN, as written, and a missing
\* quantity is none; one line that cannot be read turns the document down.
Legible(raw) == raw.qty # Absent /\ (raw.sku # Absent \/ raw.ean # Absent)
NormalizeBnnItem(raw) ==
  [sku |-> IF raw.sku = Absent THEN raw.ean ELSE raw.sku,
   ean |-> IF raw.ean = Absent THEN NoEan ELSE Ean[raw.ean],
   price |-> raw.price, qty |-> raw.qty, lot |-> raw.lot]
ParsedPayload(d) ==
  IF \E k \in DOMAIN Payload[d] : ~Legible(Payload[d][k]) THEN <<>>
  ELSE [k \in DOMAIN Payload[d] |-> NormalizeBnnItem(Payload[d][k])]

Document == [r \in Deliveries \cup Importers |->
  IF r \in Deliveries THEN ParsedPayload(r) ELSE Catalog[r]]

Lines(r) == {<<r, i>> : i \in DOMAIN Document[r]}
Goods    == UNION {Lines(r) : r \in Deliveries}
Articles == UNION {Lines(r) : r \in Deliveries \cup Importers}

ASSUME InventoryAssumption ==
  /\ Stockers \subseteq Requests
  /\ Deliveries \cap (Planners \cup Closers \cup Repricers \cup Editors) = {}
  /\ Planners \cap (Closers \cup Repricers \cup Editors) = {}
  /\ Closers \cap (Repricers \cup Editors) = {}
  /\ Repricers \cap Editors = {}
  /\ Importers \cap Updaters = {}
  /\ NoEan \notin Eans /\ Absent \notin Skus \cup Eans \cup {NoEan} \cup Vendors \cup Int
  /\ NoRow \notin Articles \cup Closers \cup Repricers
  /\ Ean \in [Skus -> Eans \cup {NoEan}]
  /\ Payload \in [Deliveries ->
       Seq([sku : Skus \cup {Absent}, ean : Skus \cup {Absent}, price : Int,
            qty : Int \cup {Absent}, lot : Lots])]
  /\ Catalog \in [Importers -> Seq([sku : Skus, ean : Eans \cup {NoEan, Absent}, price : Int])]
  /\ Vendor \in [Deliveries \cup Editors -> Vendors \cup {Absent}]
  /\ Plan \in [Planners ->
       Seq([id : Skus, lot : Lots \cup {Absent}, expected : Int \cup {Absent}])]
  /\ Sheet \in [Closers -> Planners]
  /\ Count \in [Closers ->
       Seq([id : Skus, lot : Lots \cup {Absent}, item : Nat, counted : Int])]
  /\ Books \subseteq Closers
  /\ Offer \in [Repricers -> [id : Skus, price : Int]]
  /\ Timely \subseteq Repricers
  /\ Edit \in [Updaters -> [sku : Skus \cup {Absent}, ean : Eans \cup {NoEan, Absent},
                            price : Int \cup {Absent}]]

VARIABLES
  supplier, \* the suppliers, each by the request that created it
  product,  \* the rows of the catalog
  price,    \* the newest entry of each product's price history that was in force when recorded
  batch,    \* the batches
  adjusted, \* the sum of the adjustments of each batch
  sheet,    \* the count sheets
  line,     \* the line a request is at
  row,      \* the product it has found for it
  lot,      \* the batch it has found
  read,     \* the quantity or price it has read with it
  due,      \* the difference a closing books
  copy,     \* the items of its sheet as a closing has them
  edited,   \* history: products whose price was edited after the last price change, or set by one
            \* that was not in force
  bookers,  \* history: the closings that have adjusted a batch
  last,     \* history: the last of them
  told      \* history: what a closing last took a batch for

stockVars == <<supplier, product, price, batch, adjusted, sheet, line, row, lot, read, due, copy,
               edited, bookers, last, told>>

Entry  == [sku : Skus \cup {Absent}, ean : Eans \cup {NoEan}, price : Int]
Change == [by : Timely \cup {NoRow}, to : Int]
Batch  == [product : Articles \cup {NoRow}, lot : Lots \cup {Absent}, qty : Int]
Item   == [product : Articles, batch : Goods \cup {NoRow}, expected : Int \cup {Absent}]
Tale   == [counted : Int, expected : Int, read : Int]
StockSteps == {"supplier", "newSupplier", "find", "ean", "create", "batch", "put", "open", "look",
               "item", "adjust", "stock", "close", "history", "price"}

ArticleOf(l) == [sku |-> l.sku, ean |-> l.ean, price |-> l.price]
NoArticle == [sku |-> Absent, ean |-> NoEan, price |-> 0]

\* Before the start, the deliveries of known have been booked line by line.
StockInit(known) ==
  LET InStock(g) == g[1] \in known
      LineOf(g) == Document[g[1]][g[2]]
  IN
  /\ supplier = [r \in Deliveries \cup Editors |-> IF r \in known THEN Vendor[r] ELSE Absent]
  /\ product = [a \in Articles |-> IF InStock(a) THEN ArticleOf(LineOf(a)) ELSE NoArticle]
  /\ price = [a \in Articles |-> [by |-> NoRow, to |-> 0]]
  /\ batch = [g \in Goods |->
       IF InStock(g) THEN [product |-> g, lot |-> LineOf(g).lot, qty |-> LineOf(g).qty]
                     ELSE [product |-> NoRow, lot |-> Absent, qty |-> 0]]
  /\ adjusted = [g \in Goods |-> 0]
  /\ sheet = [p \in Planners |-> [status |-> "none", items |-> <<>>]]
  /\ line = [r \in Stockers |-> 1]
  /\ row = [r \in Stockers |-> NoRow]
  /\ lot = [r \in Closers \cup Planners |-> NoRow]
  /\ read = [r \in Stockers |-> 0]
  /\ due = [c \in Closers |-> 0]
  /\ copy = [c \in Closers |-> <<>>]
  /\ edited = {}
  /\ bookers = [g \in Goods |-> {}]
  /\ last = [g \in Goods |-> NoRow]
  /\ told = [c \in Closers |-> [g \in Goods |-> [counted |-> 0, expected |-> 0, read |-> 0]]]

-----------------------------------------------------------------------------
(* What the handlers share.                                                  *)

Listed(a) == product[a].sku # Absent

\* findProductByIdentifiers: at most one product, the EAN counts before the SKU.
Found(sku, ean) ==
  LET byEan == {a \in Articles : Listed(a) /\ ean # NoEan /\ product[a].ean = ean} IN
  IF byEan # {} THEN byEan ELSE {a \in Articles : product[a].sku = sku}

\* The unique keys of Product allow an entry e in row a.
KeysFree(e, a) ==
  \A b \in Articles \ {a} : Listed(b) =>
    product[b].sku # e.sku /\ (e.ean = NoEan \/ product[b].ean # e.ean)

Write(a, e) == product' = [product EXCEPT ![a] = e]

\* The line under work, and where a request goes from it: on, or to the step end.
Here(r) == <<r, line[r]>>
NextLine(r, lines, start, end) ==
  /\ line' = [line EXCEPT ![r] = @ + 1]
  /\ Goto(r, IF line[r] < Len(lines) THEN start ELSE end)

-----------------------------------------------------------------------------
(* ensureSupplier: nothing in the database keeps suppliers apart.            *)

catalogRest == <<price, batch, adjusted, sheet, lot, read, due, copy, bookers, last, told>>

AfterSupplier(r) == IF r \in Updaters THEN "put" ELSE "find"

FindSupplier(r) ==
  /\ at[r] = "supplier"
  /\ Goto(r, IF \E q \in DOMAIN supplier : supplier[q] = Vendor[r]
               THEN AfterSupplier(r) ELSE "newSupplier")
  /\ UNCHANGED stockVars

CreateSupplier(r) ==
  /\ at[r] = "newSupplier"
  /\ supplier' = [supplier EXCEPT ![r] = Vendor[r]]
  /\ Goto(r, AfterSupplier(r))
  /\ UNCHANGED <<catalogRest, product, line, row, edited>>

-----------------------------------------------------------------------------
(* importGoodsReceipt, importProducts and updateProduct.                     *)

FirstStep(r) == IF Vendor[r] # Absent THEN "supplier" ELSE AfterSupplier(r)

\* A document without lines, or that cannot be read, is turned down; an import without lines has nothing to do.
BeginDelivery(d) ==
  /\ Start(d, IF Document[d] = <<>> THEN "failed" ELSE FirstStep(d))
  /\ UNCHANGED stockVars

BeginImport(i) ==
  /\ Start(i, IF Document[i] = <<>> THEN "done" ELSE FirstStep(i))
  /\ UNCHANGED stockVars

BeginUpdate(u) ==
  /\ Start(u, FirstStep(u))
  /\ \E a \in Articles : Listed(a) /\ row' = [row EXCEPT ![u] = a]
  /\ UNCHANGED <<catalogRest, supplier, product, line, edited>>

\* The EAN of a line: left out, it is looked for no more than an empty one.
EanOf(l) == IF l.ean = Absent THEN NoEan ELSE l.ean

FindArticle(r) ==
  LET l == Document[r][line[r]]
      F == Found(l.sku, EanOf(l))
  IN
  /\ at[r] = "find"
  /\ row' = [row EXCEPT ![r] = IF F = {} THEN NoRow ELSE CHOOSE a \in F : TRUE]
  /\ Goto(r, IF r \in Importers THEN "put"
             ELSE IF F = {} THEN "create"
             ELSE IF EanOf(l) # NoEan /\ \A a \in F : product[a].ean = NoEan THEN "ean"
             ELSE "batch")
  /\ UNCHANGED <<catalogRest, supplier, product, line, edited>>

\* Mutant: the price of the delivery is taken over with the EAN.
SetEan_Reprices(d) ==
  LET l == Document[d][line[d]]
      e == [product[row[d]] EXCEPT !.ean = l.ean, !.price = l.price]
  IN
  /\ at[d] = "ean"
  /\ IF KeysFree(e, row[d]) THEN Write(row[d], e) /\ Goto(d, "batch")
                            ELSE Goto(d, "failed") /\ UNCHANGED product
  /\ UNCHANGED <<catalogRest, supplier, line, row, edited>>

\* A clash with a unique key ends the delivery where it is.
SetEan(d) ==
  LET e == [product[row[d]] EXCEPT !.ean = Document[d][line[d]].ean] IN
  /\ at[d] = "ean"
  /\ IF KeysFree(e, row[d]) THEN Write(row[d], e) /\ Goto(d, "batch")
                            ELSE Goto(d, "failed") /\ UNCHANGED product
  /\ UNCHANGED <<catalogRest, supplier, line, row, edited>>

CreateArticle(d) ==
  LET l == Document[d][line[d]]
      e == [sku |-> l.sku, ean |-> EanOf(l), price |-> l.price]
  IN
  /\ at[d] = "create"
  /\ IF KeysFree(e, Here(d))
       THEN Write(Here(d), e) /\ row' = [row EXCEPT ![d] = Here(d)] /\ Goto(d, "batch")
       ELSE Goto(d, "failed") /\ UNCHANGED <<product, row>>
  /\ UNCHANGED <<catalogRest, supplier, line, edited>>

\* Every line becomes a batch of its own, also when it repeats one.
CreateBatch(d) ==
  LET l == Document[d][line[d]] IN
  /\ at[d] = "batch"
  /\ batch' = [batch EXCEPT ![Here(d)] = [product |-> row[d], lot |-> l.lot, qty |-> l.qty]]
  /\ NextLine(d, Document[d], "find", "done")
  /\ UNCHANGED <<supplier, product, price, adjusted, sheet, row, lot, read, due, copy,
                 edited, bookers, last, told>>

Given(new, old) == IF new = Absent THEN old ELSE new

\* An import leaves the SKU of a product it has found by its EAN.
PutLine(i) ==
  LET l == Document[i][line[i]]
      new == row[i] = NoRow
      a == IF new THEN Here(i) ELSE row[i]
      e == [sku |-> IF new THEN l.sku ELSE product[a].sku,
            ean |-> Given(l.ean, product[a].ean), price |-> l.price]
  IN
  /\ at[i] = "put"
  /\ IF KeysFree(e, a)
       THEN /\ Write(a, e)
            /\ edited' = edited \cup {a}
            /\ NextLine(i, Document[i], FirstStep(i), "done")
       ELSE Goto(i, "failed") /\ UNCHANGED <<product, edited, line>>
  /\ UNCHANGED <<catalogRest, supplier, row>>

UpdateProduct(u) ==
  LET a == row[u]
      e == [sku |-> Given(Edit[u].sku, product[a].sku), ean |-> Given(Edit[u].ean, product[a].ean),
            price |-> Given(Edit[u].price, product[a].price)]
  IN
  /\ at[u] = "put"
  /\ IF KeysFree(e, a)
       THEN /\ Write(a, e)
            /\ edited' = IF Edit[u].price = Absent THEN edited ELSE edited \cup {a}
            /\ Goto(u, "done")
       ELSE Goto(u, "failed") /\ UNCHANGED <<product, edited>>
  /\ UNCHANGED <<catalogRest, supplier, line, row>>

-----------------------------------------------------------------------------
(* recordPriceChange.                                                        *)

BeginPriceChange(q) ==
  LET F == Found(Offer[q].id, Ean[Offer[q].id]) IN
  /\ Start(q, IF F = {} THEN "failed" ELSE "history")
  /\ row' = [row EXCEPT ![q] = IF F = {} THEN NoRow ELSE CHOOSE a \in F : TRUE]
  /\ UNCHANGED <<catalogRest, supplier, product, line, edited>>

WriteHistory(q) ==
  /\ at[q] = "history"
  /\ price' = IF q \notin Timely THEN price
              ELSE [price EXCEPT ![row[q]] = [by |-> q, to |-> Offer[q].price]]
  /\ Goto(q, "price")
  /\ UNCHANGED <<supplier, product, batch, adjusted, sheet, line, row, lot, read, due, copy,
                 edited, bookers, last, told>>

\* The price is written at once, whatever the dates of the entry say.
WritePrice(q) ==
  /\ at[q] = "price"
  /\ Write(row[q], [product[row[q]] EXCEPT !.price = Offer[q].price])
  /\ edited' = IF q \in Timely THEN edited \ {row[q]} ELSE edited \cup {row[q]}
  /\ Goto(q, "done")
  /\ UNCHANGED <<catalogRest, supplier, line, row>>

-----------------------------------------------------------------------------
(* createInventoryCount and finalizeInventoryCount.                          *)

BeginPlan(p) == Start(p, "open") /\ UNCHANGED stockVars

OpenSheet(p) ==
  /\ at[p] = "open"
  /\ sheet' = [sheet EXCEPT ![p].status = "OPEN"]
  /\ Goto(p, IF Plan[p] = <<>> THEN "done" ELSE "look")
  /\ UNCHANGED <<supplier, product, price, batch, adjusted, line, row, lot, read, due, copy,
                 edited, bookers, last, told>>

\* A closing starts from the sheet as it is now.
BeginClose(c) ==
  LET s == sheet[Sheet[c]] IN
  /\ Start(c, IF s.status # "OPEN" THEN "failed" ELSE IF Count[c] = <<>> THEN "close" ELSE "look")
  /\ copy' = [copy EXCEPT ![c] = s.items]
  /\ UNCHANGED <<supplier, product, price, batch, adjusted, sheet, line, row, lot, read, due,
                 edited, bookers, last, told>>

\* The product and a batch of the lot a line names, with what is in stock of it.
LookUp(r) ==
  LET l == IF r \in Planners THEN Plan[r][line[r]] ELSE Count[r][line[r]]
      F == Found(l.id, Ean[l.id])
      Batches(a) == {g \in Goods : batch[g].product = a /\ batch[g].lot = l.lot}
  IN
  /\ at[r] = "look"
  /\ IF F = {} THEN Goto(r, "failed") /\ UNCHANGED <<row, lot, read>>
     ELSE \E a \in F :
            /\ Goto(r, "item")
            /\ row' = [row EXCEPT ![r] = a]
            /\ \E g \in IF Batches(a) = {} THEN {NoRow} ELSE Batches(a) :
                 /\ lot' = [lot EXCEPT ![r] = g]
                 /\ read' = [read EXCEPT ![r] = IF g = NoRow THEN 0 ELSE batch[g].qty]
  /\ UNCHANGED <<supplier, product, price, batch, adjusted, sheet, line, due, copy,
                 edited, bookers, last, told>>

\* The expectation is stored only if the line gives one.
AddItem(p) ==
  LET item == [product |-> row[p], batch |-> lot[p], expected |-> Plan[p][line[p]].expected] IN
  /\ at[p] = "item"
  /\ sheet' = [sheet EXCEPT ![p].items = Append(@, item)]
  /\ NextLine(p, Plan[p], "look", "done")
  /\ UNCHANGED <<supplier, product, price, batch, adjusted, row, lot, read, due, copy,
                 edited, bookers, last, told>>

\* The items of a closing's copy that its line is about.
Matches(c) ==
  {k \in DOMAIN copy[c] :
     \/ k = Count[c][line[c]].item
     \/ copy[c][k].product = row[c] /\ copy[c][k].batch = lot[c]}

\* An item without an expectation counts as expecting nothing, a line without an item expects
\* what is in stock.
Expected(c) ==
  IF Matches(c) = {} THEN read[c]
  ELSE LET k == CHOOSE k \in Matches(c) : \A j \in Matches(c) : k <= j
       IN Given(copy[c][k].expected, 0)

NextCount(c) == NextLine(c, Count[c], "look", "close")

WriteItem(c) ==
  LET counted == Count[c][line[c]].counted
      diff == counted - Expected(c)
      item == [product |-> row[c], batch |-> lot[c],
               expected |-> IF read[c] = 0 THEN Absent ELSE read[c]]
      s == Sheet[c]
  IN
  /\ at[c] = "item"
  /\ IF Matches(c) # {} THEN UNCHANGED <<sheet, copy>>
     ELSE /\ sheet' = [sheet EXCEPT ![s].items = Append(@, item)]
          /\ copy' = [copy EXCEPT ![c] = Append(@, item)]
  /\ due' = [due EXCEPT ![c] = diff]
  /\ told' = IF lot[c] = NoRow THEN told
             ELSE [told EXCEPT ![c][lot[c]] =
                     [counted |-> counted, expected |-> Expected(c), read |-> read[c]]]
  /\ IF c \in Books /\ diff # 0 THEN Goto(c, "adjust") /\ UNCHANGED line ELSE NextCount(c)
  /\ UNCHANGED <<supplier, product, price, batch, adjusted, row, lot, read, edited, bookers, last>>

Adjust(c) ==
  LET g == lot[c] IN
  /\ at[c] = "adjust"
  /\ IF g = NoRow THEN NextCount(c) /\ UNCHANGED <<adjusted, bookers, last>>
     ELSE /\ adjusted' = [adjusted EXCEPT ![g] = @ + due[c]]
          /\ bookers' = [bookers EXCEPT ![g] = @ \cup {c}]
          /\ last' = [last EXCEPT ![g] = c]
          /\ Goto(c, "stock") /\ UNCHANGED line
  /\ UNCHANGED <<supplier, product, price, batch, sheet, row, lot, read, due, copy, edited, told>>

\* Mutant: the quantity becomes what was counted, whatever was booked.
WriteStock_Counted(c) ==
  /\ at[c] = "stock"
  /\ batch' = [batch EXCEPT ![lot[c]].qty = told[c][lot[c]].counted]
  /\ NextCount(c)
  /\ UNCHANGED <<supplier, product, price, adjusted, sheet, row, lot, read, due, copy,
                 edited, bookers, last, told>>

\* Mutant: the difference is taken the other way round.
WriteStock_Reversed(c) ==
  /\ at[c] = "stock"
  /\ batch' = [batch EXCEPT ![lot[c]].qty = read[c] - due[c]]
  /\ NextCount(c)
  /\ UNCHANGED <<supplier, product, price, adjusted, sheet, row, lot, read, due, copy,
                 edited, bookers, last, told>>

\* The quantity is written as read, plus the difference.
WriteStock(c) ==
  /\ at[c] = "stock"
  /\ batch' = [batch EXCEPT ![lot[c]].qty = read[c] + due[c]]
  /\ NextCount(c)
  /\ UNCHANGED <<supplier, product, price, adjusted, sheet, row, lot, read, due, copy,
                 edited, bookers, last, told>>

CloseSheet(c) ==
  /\ at[c] = "close"
  /\ sheet' = [sheet EXCEPT ![Sheet[c]].status = "COMPLETED"]
  /\ Goto(c, "done")
  /\ UNCHANGED <<supplier, product, price, batch, adjusted, line, row, lot, read, due, copy,
                 edited, bookers, last, told>>

-----------------------------------------------------------------------------
BeginStock(r) ==
  \/ r \in Deliveries /\ BeginDelivery(r)
  \/ r \in Importers  /\ BeginImport(r)
  \/ r \in Updaters   /\ BeginUpdate(r)
  \/ r \in Repricers  /\ BeginPriceChange(r)
  \/ r \in Planners   /\ BeginPlan(r)
  \/ r \in Closers    /\ BeginClose(r)

StockStep(r) ==
  \/ r \in Deliveries \cup Editors    /\ (FindSupplier(r) \/ CreateSupplier(r))
  \/ r \in Deliveries \cup Importers  /\ FindArticle(r)
  \/ r \in Deliveries /\ (SetEan(r) \/ CreateArticle(r) \/ CreateBatch(r))
  \/ r \in Importers  /\ PutLine(r)
  \/ r \in Updaters   /\ UpdateProduct(r)
  \/ r \in Repricers  /\ (WriteHistory(r) \/ WritePrice(r))
  \/ r \in Planners   /\ (OpenSheet(r) \/ LookUp(r) \/ AddItem(r))
  \/ r \in Closers    /\ (LookUp(r) \/ WriteItem(r) \/ Adjust(r) \/ WriteStock(r) \/ CloseSheet(r))

-----------------------------------------------------------------------------
StockTypeOK ==
  /\ supplier \in [Deliveries \cup Editors -> Vendors \cup {Absent}]
  /\ product \in [Articles -> Entry]
  /\ price \in [Articles -> Change]
  /\ batch \in [Goods -> Batch]
  /\ adjusted \in [Goods -> Int]
  /\ sheet \in [Planners -> [status : {"none", "OPEN", "COMPLETED"}, items : Seq(Item)]]
  /\ line \in [Stockers -> Nat]
  /\ row \in [Stockers -> Articles \cup {NoRow}]
  /\ lot \in [Closers \cup Planners -> Goods \cup {NoRow}]
  /\ read \in [Stockers -> Int]
  /\ due \in [Closers -> Int]
  /\ copy \in [Closers -> Seq(Item)]
  /\ edited \subseteq Articles
  /\ bookers \in [Goods -> SUBSET Closers]
  /\ last \in [Goods -> Closers \cup {NoRow}]
  /\ told \in [Closers -> [Goods -> Tale]]

(* The quantity of a batch is what was delivered and the sum of its          *)
(* adjustments, unless a closing that adjusted it has not written the        *)
(* quantity (it is about to, or it failed), or two of them overlapped:       *)
(* finalizeInventoryCount writes the quantity it has read, plus its          *)
(* difference.                                                               *)
StockAccounted ==
  \A g \in Goods : batch[g].product # NoRow =>
    \/ batch[g].qty = Document[g[1]][g[2]].qty + adjusted[g]
    \/ \E c \in bookers[g] : at[c] = "failed" \/ (at[c] = "stock" /\ lot[c] = g)
    \/ \E c, d \in bookers[g] : d \in met[c]

(* When a closing has booked a batch last and is done, there is in stock     *)
(* what was counted, unless it has not compared with what was in stock (an   *)
(* item planned without an expectation counts as expecting nothing, another  *)
(* expectation is taken as it was entered), or it overlapped with a closing  *)
(* of the same batch.                                                        *)
CountedStockHasCause ==
  \A g \in Goods : \A c \in Closers : last[g] = c /\ at[c] = "done" =>
    \/ batch[g].qty = told[c][g].counted
    \/ told[c][g].expected # told[c][g].read
    \/ \E d \in bookers[g] : d \in met[c]

(* A product has the price its newest price change states that was in force  *)
(* when it was recorded, unless the catalog was edited after it, or the      *)
(* change failed between its history entry and the price, or two changes     *)
(* overlapped and the price is that of the one that wrote its entry first.   *)
(* It also loses it to a change that is not in force: the DTO calls          *)
(* effectiveFrom the date "from which the new price is effective"            *)
(* (record-price-change.dto.ts:73), recordPriceChange writes it at once, and *)
(* nothing takes a price back when its effectiveTo has passed.               *)
PriceFollowsHistory ==
  \A a \in Articles : LET q == price[a].by IN q # NoRow /\ at[q] = "done" =>
    \/ product[a].price = price[a].to
    \/ a \in edited
    \/ \E p \in Timely : p \in met[q] /\ row[p] = a
=============================================================================

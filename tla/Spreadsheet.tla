------------------------------ MODULE Spreadsheet -------------------------------
(***************************************************************************)
(* The catalog as a CSV file: export, a merchant's edits in a spreadsheet, *)
(* and import.  catalog/csv.ts reads and writes the format, catalog/bulk.ts *)
(* merges a file over the stored products.                                 *)
(*                                                                         *)
(* A file has one row per variant, with the product's cells repeated on    *)
(* it.  The nullable text columns are `summary' and `barcode', the booleans *)
(* `hidden' (seo_noindex) and `active'; `title' and `status' stand for     *)
(* themselves, `price' for the numbers a row must state, and the option    *)
(* columns come and go together.  Quoting, the formula guard and trimming  *)
(* give each cell back as it was written.  Lines that are blank throughout *)
(* are not rows.  Any issue rejects the whole file, so which issues a file *)
(* has is abstracted to whether it has one.                                *)
(***************************************************************************)
EXTENDS Options, FiniteSets

CONSTANTS
    Handles, Skus, PageTitles, Texts, OptionNames, OptionValues, Prices,
    Mangled,          \* the SKUs and barcodes that read as scientific notation
    Blank,            \* an empty cell
    Unreadable,       \* a cell that is not a price, a number, a yes or a no
    Null,             \* a column of the database holding nothing
    Absent,           \* what a file says of a column it does not have
    NoProduct,
    MAX_OPTION_AXES, MAX_OPTION_VALUES, MAX_VARIANTS_PER_PRODUCT,
    Opening,          \* catalogs to begin with
    Typed,            \* products the console may save under a handle
    MaxEdits          \* bound: cells changed, rows and columns dropped, console saves

VARIABLES
    catalog,          \* the live product of each canonical slug
    sheet,            \* the merchant's file: its columns and its rows
    edits

sheetVars == <<catalog, sheet, edits>>

Required == {"title", "sku", "price"}
Columns == Required \cup {"status", "summary", "hidden", "options", "barcode", "active"}
Slots == 1..MAX_OPTION_AXES
EmptySheet == [columns |-> Columns, rows |-> <<>>]

SheetInit == catalog \in Opening /\ sheet = EmptySheet /\ edits = 0
--------------------------------------------------------------------------------
(* productToCsvRows.                                                       *)
CellOf(stored) == IF stored = Null THEN Blank ELSE stored
Row(handle, product, v) ==
    LET axes == product.axes
    IN  [handle |-> handle, title |-> product.title, status |-> product.status,
         summary |-> CellOf(product.summary), hidden |-> product.hidden,
         names |-> [n \in Slots |-> IF n \in DOMAIN axes THEN axes[n].name ELSE Blank],
         values |-> [n \in Slots |-> IF n \in DOMAIN axes THEN v.options[axes[n].name] ELSE Blank],
         sku |-> v.sku, barcode |-> CellOf(v.barcode), price |-> v.price, active |-> v.active]
RowsOf_NamedOnce(handle, product) ==      \* mutant: option names on the first row only
    [i \in DOMAIN product.variants |->
        IF i = 1 THEN Row(handle, product, product.variants[i])
        ELSE [Row(handle, product, product.variants[i]) EXCEPT !.names = [n \in Slots |-> Blank]]]
RowsOf(handle, product) == [i \in DOMAIN product.variants |-> Row(handle, product, product.variants[i])]
Exported == [columns |-> Columns,
             rows |-> FlattenSeq([i \in 1..Cardinality(Handles) |->
                          LET handle == SetToSeq(Handles)[i]
                          IN  IF catalog[handle] = NoProduct THEN <<>>
                              ELSE RowsOf(handle, catalog[handle])])]
--------------------------------------------------------------------------------
(* parseCatalogCsv.  The rows of one handle fold into one draft.           *)
Group(file, handle) == SelectSeq(file.rows, LAMBDA row : row.handle = handle)
Said(rows, column) == {rows[i][column] : i \in DOMAIN rows} \ {Blank}

(* The first value stated; a column blank on every row says `ifBlank', and *)
(* one the file lacks says nothing.                                        *)
State(file, rows, column, ifBlank) ==
    IF column \notin file.columns THEN Absent
    ELSE IF Said(rows, column) = {} THEN ifBlank
    ELSE rows[CHOOSE i \in DOMAIN rows : /\ rows[i][column] # Blank
                                         /\ \A j \in 1..(i - 1) : rows[j][column] = Blank][column]

(* The axis names the rows up to the k-th have given, slot by slot.        *)
NamesSoFar(rows, k) == [n \in Slots |->
    LET given == {i \in 1..k : rows[i].names[n] # Blank}
    IN  IF given = {} THEN Blank ELSE rows[CHOOSE i \in given : \A j \in given : i <= j].names[n]]
NamesOf(rows) == NamesSoFar(rows, Len(rows))

OptionsOf(rows, k) ==
    LET named == {n \in Slots : NamesSoFar(rows, k)[n] # Blank}
    IN  [name \in {NamesSoFar(rows, k)[n] : n \in named} |->
            rows[k].values[CHOOSE n \in named : NamesSoFar(rows, k)[n] = name]]

(* A blank yes-or-no states nothing.                                       *)
ReadActive(file, cell) ==
    IF "active" \notin file.columns \/ cell = Blank THEN Absent ELSE cell
ReadBarcode(file, cell) ==
    IF "barcode" \notin file.columns THEN Absent ELSE IF cell = Blank THEN Null ELSE cell

Draft(file, handle) ==
    LET rows == Group(file, handle)
        withOptions == "options" \in file.columns
    IN  [title |-> State(file, rows, "title", Absent),
         status |-> State(file, rows, "status", Absent),
         summary |-> State(file, rows, "summary", Null),
         hidden |-> State(file, rows, "hidden", FALSE),
         names |-> IF withOptions THEN SelectSeq(NamesOf(rows), LAMBDA name : name # Blank) ELSE <<>>,
         variants |-> [k \in DOMAIN rows |->
            [sku |-> rows[k].sku, price |-> rows[k].price,
             barcode |-> ReadBarcode(file, rows[k].barcode),
             active |-> ReadActive(file, rows[k].active),
             options |-> IF withOptions THEN OptionsOf(rows, k) ELSE Absent]]]

(* The whole file parses without an issue.  A column the file lacks gives  *)
(* no cell to object to.                                                   *)
Agree(file, rows) ==
    \A column \in {"title", "status", "summary", "hidden"} \cap file.columns :
        Cardinality(Said(rows, column)) <= 1
NamesAgree(rows) ==
    \A n \in Slots : Cardinality({rows[i].names[n] : i \in DOMAIN rows} \ {Blank}) <= 1
NamedInOrder(names) ==
    /\ \A n \in Slots \ {1} : names[n] # Blank => names[n - 1] # Blank
    /\ \A m, n \in Slots : names[m] = names[n] /\ names[m] # Blank => m = n
Legible(line) == line.sku \notin Mangled /\ line.barcode \notin Mangled
RowReads(file, row) ==
    /\ row.sku \notin Mangled \cup {Blank} /\ row.price \notin {Blank, Unreadable}
    /\ "barcode" \in file.columns => row.barcode \notin Mangled
    /\ \A column \in {"active", "hidden"} \cap file.columns : row[column] # Unreadable
ValuesMatchNames(rows, k) ==
    \A n \in Slots : (NamesSoFar(rows, k)[n] = Blank) <=> (rows[k].values[n] = Blank)
FewValues(rows) ==
    \A n \in Slots : Cardinality({rows[i].values[n] : i \in DOMAIN rows}) <= MAX_OPTION_VALUES
GroupReads(file, rows) ==
    /\ Agree(file, rows) /\ Said(rows, "title") # {}
    /\ \A k \in DOMAIN rows : RowReads(file, rows[k])
    /\ Len(rows) <= MAX_VARIANTS_PER_PRODUCT
    /\ "options" \in file.columns =>
          /\ NamesAgree(rows) /\ \A k \in DOMAIN rows : ValuesMatchNames(rows, k)
          /\ NamedInOrder(NamesOf(rows)) /\ FewValues(rows)
HandlesIn(file) == {file.rows[i].handle : i \in DOMAIN file.rows}
DistinctSkus(file) == \A i, j \in DOMAIN file.rows : file.rows[i].sku = file.rows[j].sku => i = j
Reads(file) ==
    /\ Required \subseteq file.columns
    /\ Blank \notin HandlesIn(file)
    /\ \A handle \in HandlesIn(file) : GroupReads(file, Group(file, handle))
    /\ DistinctSkus(file)
--------------------------------------------------------------------------------
(* bulk.ts: the file's cells over the stored product.                      *)
BlankProduct == [title |-> Blank, status |-> "draft", summary |-> Null, hidden |-> FALSE,
                 axes |-> <<>>, variants |-> <<>>]
Existing(handle) == IF catalog[handle] = NoProduct THEN BlankProduct ELSE catalog[handle]
Pick(fromFile, stored) == IF fromFile = Absent THEN stored ELSE fromFile

MergeVariant(row, stored) ==
    LET same == {i \in DOMAIN stored : stored[i].sku = row.sku}
        old == IF same = {} THEN [barcode |-> Null, active |-> TRUE, options |-> NoOptions]
               ELSE stored[CHOOSE i \in same : TRUE]
    IN  [sku |-> row.sku, price |-> row.price, barcode |-> Pick(row.barcode, old.barcode),
         active |-> Pick(row.active, old.active), options |-> Pick(row.options, old.options)]
MergeVariants(rows, stored) ==
    [k \in DOMAIN rows |-> MergeVariant(rows[k], stored)]
    \o SelectSeq(stored, LAMBDA v : \A k \in DOMAIN rows : rows[k].sku # v.sku)

(* The axes grow and are never pruned: the stored ones first, then what    *)
(* the file brings, in its order.                                          *)
GrowAxis(axis, variants) ==
    LET having == SelectSeq(variants, LAMBDA v : axis.name \in DOMAIN v.options)
    IN  [axis EXCEPT !.values = AddNew(@, [i \in DOMAIN having |-> having[i].options[axis.name]])]
Declared(names, axes) == [i \in DOMAIN names |-> [name |-> names[i], values |-> <<>>]]
MergeAxes_Rebuilt(names, axes, variants) ==     \* mutant: the axes of the file's rows
    LET grown == IF names = <<>> THEN axes ELSE Declared(names, axes)
    IN  [i \in DOMAIN grown |-> GrowAxis(grown[i], variants)]
MergeAxes(names, axes, variants) ==
    LET grown == axes \o Declared(SelectSeq(names, LAMBDA name : name \notin AxisNames(axes)), axes)
    IN  [i \in DOMAIN grown |-> GrowAxis(grown[i], variants)]

MergeProduct(draft, old) ==
    LET variants == MergeVariants(draft.variants, old.variants)
    IN  [title |-> Pick(draft.title, old.title), status |-> Pick(draft.status, old.status),
         summary |-> Pick(draft.summary, old.summary), hidden |-> Pick(draft.hidden, old.hidden),
         axes |-> MergeAxes(draft.names, old.axes, variants), variants |-> variants]

(* The caps hold for the merged product, not for the file alone.           *)
Overflows_FileOnly(product) == FALSE            \* mutant: the parser's caps are enough
Overflows(product) ==
    \/ Len(product.variants) > MAX_VARIANTS_PER_PRODUCT
    \/ \E i \in DOMAIN product.axes : Len(product.axes[i].values) > MAX_OPTION_VALUES

(* A product the file does not change is skipped, and is no reason to      *)
(* refuse it.  The rest are written in one transaction or not at all: the  *)
(* matrix must hold and no SKU may belong to another product.              *)
Merged(file) == [handle \in HandlesIn(file) |-> MergeProduct(Draft(file, handle), Existing(handle))]
Changed(file) == {handle \in HandlesIn(file) : Merged(file)[handle] # catalog[handle]}
After(file) ==
    [handle \in Handles |-> IF handle \in HandlesIn(file) THEN Merged(file)[handle] ELSE catalog[handle]]
SkusOf(product) ==
    IF product = NoProduct THEN {} ELSE {product.variants[i].sku : i \in DOMAIN product.variants}
Writable(products, handle) ==
    /\ ~Overflows(products[handle])
    /\ MatrixOK(products[handle].axes, products[handle].variants)
    /\ \A other \in Handles \ {handle} : SkusOf(products[handle]) \cap SkusOf(products[other]) = {}
Accepted(file) == Reads(file) /\ \A handle \in Changed(file) : Writable(After(file), handle)
--------------------------------------------------------------------------------
Export == sheet' = Exported /\ sheet # Exported /\ UNCHANGED <<catalog, edits>>

Import == Accepted(sheet) /\ catalog' = After(sheet) /\ UNCHANGED <<sheet, edits>>

Counted == edits < MaxEdits /\ edits' = edits + 1

Cells(column) ==
    CASE column = "handle" -> Handles \cup {Blank}
      [] column = "title" -> PageTitles \cup {Blank}
      [] column = "status" -> {"draft", "active", Blank}
      [] column = "sku" -> Skus \cup {Blank}
      [] column = "price" -> Prices \cup {Blank, Unreadable}
      [] column \in {"summary", "barcode"} -> Texts \cup {Blank}
      [] column \in {"hidden", "active"} -> {TRUE, FALSE, Blank, Unreadable}
EditCell == \E i \in DOMAIN sheet.rows : \E column \in (Columns \ {"options"}) \cup {"handle"} :
    \E cell \in Cells(column) :
        /\ Counted /\ cell # sheet.rows[i][column]
        /\ sheet' = [sheet EXCEPT !.rows[i][column] = cell]
        /\ UNCHANGED catalog
EditOption == \E i \in DOMAIN sheet.rows, n \in Slots :
    \E name \in OptionNames \cup {Blank}, value \in OptionValues \cup {Blank} :
        /\ Counted
        /\ sheet' = [sheet EXCEPT !.rows[i].names[n] = name, !.rows[i].values[n] = value]
        /\ UNCHANGED catalog
PasteRow == \E i \in DOMAIN sheet.rows, sku \in Skus :     \* a row copied for another variant
    /\ Counted
    /\ sheet' = [sheet EXCEPT !.rows = Append(@, [@[i] EXCEPT !.sku = sku])]
    /\ UNCHANGED catalog
DropRow == \E i \in DOMAIN sheet.rows :
    /\ Counted
    /\ sheet' = [sheet EXCEPT !.rows = RemoveAt(@, i)]
    /\ UNCHANGED catalog
DropColumn == \E column \in sheet.columns :
    /\ Counted
    /\ sheet' = [sheet EXCEPT !.columns = @ \ {column}]
    /\ UNCHANGED catalog

(* What the console's product payload lets through (its schema's caps and  *)
(* the write layer's checks); the form posts an axis as the text it shows. *)
WithinCaps(product) ==
    /\ Len(product.axes) <= MAX_OPTION_AXES
    /\ \A i \in DOMAIN product.axes : Len(product.axes[i].values) <= MAX_OPTION_VALUES
    /\ Len(product.variants) \in 1..MAX_VARIANTS_PER_PRODUCT
FitsTheForm(product) ==
    /\ WithinCaps([product EXCEPT !.axes = FormAxes(@)])
    /\ MatrixOK(FormAxes(product.axes), product.variants)
ConsoleSave == \E handle \in Handles, product \in Typed :
    /\ Counted
    /\ FitsTheForm(product)
    /\ \A other \in Handles \ {handle} : SkusOf(product) \cap SkusOf(catalog[other]) = {}
    /\ catalog' = [catalog EXCEPT ![handle] = product]
    /\ UNCHANGED sheet

SheetNext ==
    \/ Export \/ Import \/ ConsoleSave
    \/ EditCell \/ EditOption \/ PasteRow \/ DropRow \/ DropColumn
SheetSpec == SheetInit /\ [][SheetNext]_sheetVars
--------------------------------------------------------------------------------
(* An export imported as it is changes nothing, whatever path led to the   *)
(* catalog: every product in the file is skipped (csv.ts:22-26).  The      *)
(* promise there has no exception; in these columns the code makes one and *)
(* no other.  A SKU or a barcode the console took although it reads as     *)
(* scientific notation makes the whole export a file the importer refuses  *)
(* (csv.ts:1144, :1157).                                                   *)
AllLegible == \A handle \in Handles : catalog[handle] # NoProduct =>
    \A i \in DOMAIN catalog[handle].variants : Legible(catalog[handle].variants[i])
ReimportIsANoOp == Changed(Exported) = {} /\ (Accepted(Exported) <=> AllLegible)

(* An export of which some rows were filtered away and the rest sorted     *)
(* still imports if those left can be read, and moves nothing but the      *)
(* order of the variants (csv.ts, productToCsvRows).                       *)
Rearranged(rows) == {[i \in DOMAIN p |-> rows[p[i]]] :
    p \in UNION {SetToAllKPermutations(kept) : kept \in SUBSET DOMAIN rows}}
SameButOrder(product, other) == product = other \/
    /\ product # NoProduct /\ other # NoProduct
    /\ [product EXCEPT !.variants = ToSet(@)] = [other EXCEPT !.variants = ToSet(@)]
SortingIsHarmless == [][sheet' # sheet /\ Export =>
    \A rows \in Rearranged(sheet'.rows) : LET file == [sheet' EXCEPT !.rows = rows] IN
        (\A i \in DOMAIN rows : Legible(rows[i])) =>
           Accepted(file) /\ \A handle \in Handles : SameButOrder(After(file)[handle], catalog[handle])
  ]_sheetVars

(* An import takes away nothing the file does not name: every stored       *)
(* variant and option value stays, a column the file lacks is left alone,  *)
(* and what is off sale stays off unless that variant's row says otherwise. *)
VariantOf(product, sku) == CHOOSE v \in ToSet(product.variants) : v.sku = sku
ImportTakesNothingAway == [][catalog' # catalog /\ Import => \A handle \in Handles \cap HandlesIn(sheet) :
    catalog[handle] # NoProduct =>
      LET old == catalog[handle]  new == catalog'[handle] IN
      /\ \A i \in DOMAIN old.axes :
            new.axes[i].name = old.axes[i].name /\ IsPrefix(old.axes[i].values, new.axes[i].values)
      /\ \A column \in {"status", "summary", "hidden"} \ sheet.columns : new[column] = old[column]
      /\ \A sku \in SkusOf(old) :
            LET mine == {i \in DOMAIN sheet.rows : sheet.rows[i].sku = sku}
                v == VariantOf(old, sku)  w == VariantOf(new, sku)
            IN  /\ sku \in SkusOf(new)
                /\ mine = {} => v = w
                /\ v.active # w.active =>
                      "active" \in sheet.columns /\ \E i \in mine : sheet.rows[i].active = w.active
                /\ "options" \notin sheet.columns => v.options = w.options
  ]_sheetVars

(* An import does what its file says and no more, whatever the spreadsheet *)
(* did to the order, the rows, the columns and the blanks of the export.   *)
ImportDoesWhatItSays == SortingIsHarmless /\ ImportTakesNothingAway

(* No import leaves a product the console could never save again: it goes  *)
(* past no cap of the form's schema, not even one file after another       *)
(* (csv.ts:83-98), and a fourth axis never arises.  The form then posts    *)
(* the axes it was given and the save is taken, unless an option value has *)
(* a comma: the importer reads such a value, the form splits it            *)
(* (product-form-state.ts:179, :226).  That exception is the code's; the   *)
(* comment on the caps knows of none.                                      *)
WholeValues(axes) == \A i \in DOMAIN axes : \A value \in ToSet(axes[i].values) : Len(value) = 1
ConsoleCanSaveIt == \A handle \in Handles : LET product == catalog[handle] IN product # NoProduct =>
    /\ WithinCaps(product)
    /\ WholeValues(product.axes) => FormAxes(product.axes) = product.axes /\ FitsTheForm(product)
================================================================================

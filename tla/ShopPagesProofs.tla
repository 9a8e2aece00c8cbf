--------------------------- MODULE ShopPagesProofs ---------------------------
(*****************************************************************************)
(* What the stock page shows and saves and what the page of a sale sends, for*)
(* any products, any number of late answers, any number of columns and saves,*)
(* and any number of lines.                                                  *)
(*                                                                           *)
(* The ledger: the rows of a list that has not loaded are those of an earlier*)
(* filter, so that the property is inductive only because a list becomes ready*)
(* by an answer to the filter that is chosen now.                            *)
(*                                                                           *)
(* The table: the property says nothing of what is under way or waits in the *)
(* queue; the invariant is that all of it carries the id the device made for *)
(* the column when it was saved.                                             *)
(*                                                                           *)
(* The sale: the invariant is that the total of an itemized form is the sum  *)
(* of its lines after every render.  That the model's fold over the lines is *)
(* such a sum, that there is only one and what bounds it is shown by looking *)
(* at a smallest set of lines for which it would fail.                       *)
(*****************************************************************************)
EXTENDS WebPages, Sequences, FiniteSetTheorems, WellFoundedInduction, TLAPS

-----------------------------------------------------------------------------
(* The ledger. *)

StockInv == Stock!TypeOK /\ Stock!LedgerFollowsFilter

LEMMA StockInitInv == Stock!Init => StockInv
BY DEF Stock!Init, StockInv, Stock!TypeOK, Stock!LedgerFollowsFilter, Stock!NoLists, Stock!Names,
       Stock!Lists, Stock!Movements

\* A new filter leaves no list ready.
LEMMA StockFilterKeeps ==
  ASSUME StockInv, NEW f \in Catalogue \cup {Stock!All}, Stock!ChooseFilter(f)
  PROVE  StockInv'
<1>1. lists' = [l \in Stock!Names |-> Stock!Load(l)]
  BY DEF Stock!ChooseFilter
<1>2. \A l \in Stock!Names : Stock!Load(l) \in Stock!Lists /\ Stock!Load(l).state = "loading"
  BY DEF StockInv, Stock!TypeOK, Stock!Load, Stock!Lists
<1>3. Stock!LedgerFollowsFilter'
  BY <1>1, <1>2 DEF Stock!LedgerFollowsFilter
<1>4. Stock!TypeOK'
  BY <1>1, <1>2 DEF StockInv, Stock!TypeOK, Stock!ChooseFilter
<1>. QED
  BY <1>3, <1>4 DEF StockInv

\* An answer has rows of the filter only.
LEMMA StockAnswerKeeps ==
  ASSUME StockInv, NEW l \in Stock!Names, NEW ms, Stock!MovementsArrive(l, ms)
  PROVE  StockInv'
<1>1. ms \subseteq Stock!Movements /\ \A m \in ms : filter \in {Stock!All, m.product}
  BY DEF Stock!MovementsArrive, Stock!Matching
<1>. DEFINE new == [shown |-> ms, state |-> "ready"]
<1>2. new \in Stock!Lists /\ new.shown = ms
  BY <1>1 DEF Stock!Lists
<1>3. lists' = [lists EXCEPT ![l] = new] /\ filter' = filter
  BY DEF Stock!MovementsArrive
<1>4. Stock!TypeOK'
  BY <1>2, <1>3 DEF Stock!MovementsArrive, StockInv, Stock!TypeOK
<1>. HIDE DEF new
<1>5. Stock!LedgerFollowsFilter'
  BY <1>1, <1>2, <1>3 DEF StockInv, Stock!TypeOK, Stock!LedgerFollowsFilter
<1>. QED
  BY <1>4, <1>5 DEF StockInv

LEMMA StockFailureKeeps ==
  ASSUME StockInv, NEW l \in Stock!Names, Stock!LoadFails(l)
  PROVE  StockInv'
<1>. DEFINE new == [lists[l] EXCEPT !.state = "failed"]
<1>1. new \in Stock!Lists /\ new.state = "failed"
  BY DEF StockInv, Stock!TypeOK, Stock!Lists
<1>2. lists' = [lists EXCEPT ![l] = new] /\ filter' = filter
  BY DEF Stock!LoadFails
<1>3. Stock!TypeOK'
  BY <1>1, <1>2 DEF Stock!LoadFails, StockInv, Stock!TypeOK
<1>. HIDE DEF new
<1>4. Stock!LedgerFollowsFilter'
  BY <1>1, <1>2 DEF StockInv, Stock!TypeOK, Stock!LedgerFollowsFilter
<1>. QED
  BY <1>3, <1>4 DEF StockInv

\* What is put on top is the form's own.
LEMMA StockRecordedKeeps ==
  ASSUME StockInv, Stock!Recorded
  PROVE  StockInv'
<1>. DEFINE m == [product |-> sending[1].product, own |-> TRUE]
            to == IF sending[1].expiry THEN Stock!Names ELSE {"movements"}
            more(l) == IF l \in to THEN [lists[l] EXCEPT !.shown = @ \cup {m}] ELSE lists[l]
<1>1. lists' = [l \in Stock!Names |-> more(l)] /\ filter' = filter
  BY DEF Stock!Recorded
<1>2. m \in Stock!Movements /\ m.own = TRUE
  BY DEF Stock!Recorded, StockInv, Stock!TypeOK, Stock!Movements
<1>3. ASSUME NEW l \in Stock!Names
      PROVE  /\ more(l) \in Stock!Lists /\ more(l).state = lists[l].state
             /\ more(l).shown \subseteq lists[l].shown \cup {m}
  <2>1. lists[l] \in Stock!Lists
    BY DEF StockInv, Stock!TypeOK
  <2>. HIDE DEF m, to
  <2>. QED
    BY <1>2, <2>1 DEF Stock!Lists
<1>. HIDE DEF more, m
<1>4. Stock!TypeOK'
  <2>1. lists' \in [Stock!Names -> Stock!Lists]
    BY <1>1, <1>3
  <2>2. sending' = <<>> /\ UNCHANGED <<caps, ledger, filter, older>>
    BY DEF Stock!Recorded
  <2>. QED
    BY <2>1, <2>2 DEF StockInv, Stock!TypeOK
<1>5. Stock!LedgerFollowsFilter'
  BY <1>1, <1>2, <1>3 DEF StockInv, Stock!LedgerFollowsFilter
<1>. QED
  BY <1>4, <1>5 DEF StockInv

\* An empty list shows nothing wrong.
LEMMA StockEmptyKeeps ==
  ASSUME NEW state \in {"loading", "ready", "failed"},
         lists' = [l \in Stock!Names |-> [shown |-> {}, state |-> state]]
  PROVE  Stock!LedgerFollowsFilter' /\ lists' \in [Stock!Names -> Stock!Lists]
<1>1. \A l \in Stock!Names : lists'[l].shown = {}
  OBVIOUS
<1>2. lists' \in [Stock!Names -> Stock!Lists]
  BY DEF Stock!Lists
<1>. QED
  BY <1>1, <1>2 DEF Stock!LedgerFollowsFilter

LEMMA StockOpenKeeps ==
  ASSUME Stock!OpenAny \/ Stock!Leave
  PROVE  StockInv'
<1>1. CASE Stock!OpenAny
  <2>1. PICK c \in SUBSET {"ledger", "movement"} : Stock!Open(c)
    BY <1>1 DEF Stock!OpenAny
  <2>. DEFINE state == IF "ledger" \in c THEN "loading" ELSE "ready"
  <2>2. lists' = [l \in Stock!Names |-> [shown |-> {}, state |-> state]]
    BY <2>1 DEF Stock!Open
  <2>3. Stock!LedgerFollowsFilter' /\ lists' \in [Stock!Names -> Stock!Lists]
    BY <2>2, StockEmptyKeeps
  <2>. QED
    BY <2>1, <2>3 DEF Stock!Open, StockInv, Stock!TypeOK
<1>2. CASE Stock!Leave
  <2>1. Stock!LedgerFollowsFilter' /\ lists' \in [Stock!Names -> Stock!Lists]
    BY <1>2, StockEmptyKeeps DEF Stock!Leave, Stock!NoLists
  <2>. QED
    BY <1>2, <2>1 DEF Stock!Leave, StockInv, Stock!TypeOK
<1>. QED
  BY <1>1, <1>2

\* A valid form names a product.
LEMMA StockSubmitKeeps ==
  ASSUME StockInv, NEW in \in Stock!Inputs, Stock!Submit(in)
  PROVE  StockInv'
<1>1. [product |-> in.product, expiry |-> in.expiry] \in [product : Catalogue, expiry : BOOLEAN]
  BY DEF Stock!Submit, Stock!Valid, Stock!Inputs
<1>2. Stock!TypeOK'
  BY <1>1 DEF Stock!Submit, StockInv, Stock!TypeOK
<1>3. Stock!LedgerFollowsFilter'
  BY DEF Stock!Submit, StockInv, Stock!LedgerFollowsFilter
<1>. QED
  BY <1>2, <1>3 DEF StockInv

LEMMA StockNextInv == StockInv /\ [Stock!Next]_stockVars => StockInv'
<1>. SUFFICES ASSUME StockInv, [Stock!Next]_stockVars
              PROVE  StockInv'
  OBVIOUS
<1>1. ASSUME NEW l \in Stock!Names, Stock!OlderArrives(l) PROVE StockInv'
  BY <1>1 DEF Stock!OlderArrives, StockInv, Stock!TypeOK, Stock!LedgerFollowsFilter
<1>2. ASSUME Stock!RecordFails \/ UNCHANGED stockVars PROVE StockInv'
  BY <1>2 DEF Stock!RecordFails, stockVars, StockInv, Stock!TypeOK, Stock!LedgerFollowsFilter
<1>. QED
  BY <1>1, <1>2, StockFilterKeeps, StockAnswerKeeps, StockFailureKeeps, StockRecordedKeeps,
       StockOpenKeeps, StockSubmitKeeps
     DEF Stock!Next, Stock!Step

\* A step of another page leaves this one as it is.
LEMMA StockSteps == [Next]_vars => [Stock!Next]_stockVars
BY DEF Next, vars, SalePage, LedgerPage, ProductPage, TeamPages, BusinessPage, ReportsPages


\* A list of the ledger that has loaded shows movements of the chosen product only,
\* besides those the form has recorded: no late answer to an earlier filter replaces
\* the one to the filter that is shown (StockPage's "active" flag).
THEOREM LedgerShowsItsFilter == Spec => []LedgerFollowsFilter
<1>1. Init => StockInv
  BY StockInitInv DEF Init
<1>2. StockInv /\ [Next]_vars => StockInv'
  BY StockNextInv, StockSteps
<1>3. StockInv => LedgerFollowsFilter
  BY DEF StockInv, LedgerFollowsFilter
<1>. QED
  BY <1>1, <1>2, <1>3, PTL DEF Spec

-----------------------------------------------------------------------------
(* The table. *)

\* The record that createProducts makes for a column.
Made(p) == p = [id |-> <<p.save, p.column>>, save |-> p.save, column |-> p.column]

TableUnderWay == IF Table!Creating THEN saving[1].products ELSE {}

TableInv == \A p \in cloud \cup outbox \cup TableUnderWay : Made(p)

LEMMA TableInitInv == Table!Init => TableInv
BY DEF Table!Init, TableInv, TableUnderWay, Table!Creating

LEMMA OneIdOneProduct == TableInv => Table!SavedOnce
BY DEF TableInv, Table!SavedOnce, Made

\* A save makes an id for each column.
LEMMA TableSaveKeeps ==
  ASSUME TableInv, Table!SaveNew
  PROVE  TableInv'
<1>1. cloud' = cloud /\ outbox' = outbox /\ saving' = <<[kind |-> "new", products |-> Table!NewProducts]>>
  BY DEF Table!SaveNew
<1>2. TableUnderWay' = Table!NewProducts
  BY <1>1 DEF TableUnderWay, Table!Creating
<1>3. \A p \in Table!NewProducts : Made(p)
  BY DEF Table!NewProducts, Made
<1>. QED
  BY <1>1, <1>2, <1>3 DEF TableInv

\* An answer moves products that were under way to the server or into the queue.
LEMMA TableAnswerKeeps ==
  ASSUME TableInv, Table!Answer
  PROVE  TableInv'
<1>1. Table!Creating
  BY DEF Table!Answer, Table!CloudCreates
<1>2. cloud' \subseteq cloud \cup TableUnderWay /\ outbox' \subseteq outbox \cup TableUnderWay
  BY <1>1 DEF Table!Answer, Table!CloudCreates, Table!CloudRefuses, Table!CloudFails,
       Table!QueueFails, Table!Queued, TableUnderWay
<1>3. saving' = <<>>
  BY DEF Table!Answer, Table!CloudCreates, Table!CloudRefuses, Table!CloudFails, Table!QueueFails,
         Table!Added, Table!NotAdded
<1>4. TableUnderWay' = {}
  BY <1>3 DEF TableUnderWay, Table!Creating
<1>. QED
  BY <1>2, <1>4 DEF TableInv

\* A push takes a product out of the queue.
LEMMA TablePushKeeps ==
  ASSUME TableInv, NEW p \in outbox, Table!Push(p)
  PROVE  TableInv'
BY DEF TableInv, Table!Push, TableUnderWay, Table!Creating

\* Saving rows and leaving have no new products under way.
LEMMA TableRowsKeep ==
  ASSUME TableInv, Table!SaveEdits \/ Table!EditsSaved \/ Table!EditsRefused \/ Table!OpenAny \/ Table!Leave
  PROVE  TableInv'
<1>1. cloud' = cloud /\ outbox' = outbox
  BY DEF Table!SaveEdits, Table!EditsSaved, Table!EditsRefused, Table!OpenAny, Table!Open,
         Table!Leave
<1>2. \/ saving' = <<>>
      \/ saving' = <<[kind |-> "edits", products |-> rows]>>
  BY DEF Table!SaveEdits, Table!EditsSaved, Table!EditsRefused, Table!OpenAny, Table!Open,
         Table!Leave
<1>3. ~Table!Creating'
  BY <1>2 DEF Table!Creating
<1>. QED
  BY <1>1, <1>3 DEF TableInv, TableUnderWay

\* The rest of the page does not touch any of it.
LEMMA TableInputKeeps ==
  ASSUME TableInv, UNCHANGED <<saving, cloud, outbox>>
  PROVE  TableInv'
BY DEF TableInv, TableUnderWay, Table!Creating

LEMMA TableInputSteps ==
  ASSUME Table!Step, ~Table!SaveNew, ~Table!Answer, ~(\E p \in outbox : Table!Push(p)), ~Table!SaveEdits, ~Table!EditsSaved,
         ~Table!EditsRefused, ~Table!Leave
  PROVE  UNCHANGED <<saving, cloud, outbox>>
BY DEF Table!Step, Table!ReportArrives, Table!ReportFails, Table!RowEdits, Table!StartEditing,
       Table!EditRow, Table!OpenAddProducts,
       Table!ChooseShop, Table!CancelAddProducts, Table!ColumnEdits, Table!TypeColumn, Table!Import, Table!ReadFile, Table!AssignColumn,
       Table!CancelImport, Table!ConfirmImport

LEMMA TableNextInv == TableInv /\ [Table!Next]_tableVars => TableInv'
<1>. SUFFICES ASSUME TableInv, [Table!Next]_tableVars
              PROVE  TableInv'
  OBVIOUS
<1>1. CASE UNCHANGED tableVars
  BY <1>1, TableInputKeeps DEF tableVars
<1>. QED
  BY <1>1, TableSaveKeeps, TableAnswerKeeps, TablePushKeeps, TableRowsKeep, TableInputKeeps,
       TableInputSteps DEF Table!Next

\* A step of another page leaves this one as it is.
LEMMA TableSteps == [Next]_vars => [Table!Next]_tableVars
BY DEF Next, vars, SalePage, LedgerPage, ProductPage, TeamPages, BusinessPage, ReportsPages


\* A column that is saved once becomes one product on the server, at most: also when
\* the answer is lost, the product is queued, and the queue is pushed later, more than
\* once (createProducts and queueProductWrite of productService).
THEOREM ColumnsBecomeOneProduct == Spec => []SavedOnce
<1>1. Init => TableInv
  BY TableInitInv DEF Init
<1>2. TableInv /\ [Next]_vars => TableInv'
  BY TableNextInv, TableSteps
<1>3. TableInv => SavedOnce
  BY OneIdOneProduct DEF SavedOnce
<1>. QED
  BY <1>1, <1>2, <1>3, PTL DEF Spec

-----------------------------------------------------------------------------
(* The sum of the lines. *)

\* The member that is added next.
Pick(s) == CHOOSE x \in s : TRUE

\* g adds up v over the subsets of D, one member at a time.
IsSum(g, D, v) ==
  g = [s \in SUBSET D |-> IF s = {} THEN 0 ELSE g[s \ {Pick(s)}] + v[Pick(s)]]

\* The amount of each line, as a number.
Numbers(lines) == [i \in DOMAIN lines |-> Sale!Number(lines[i].amount)]

\* It is a member.
LEMMA PickIn == ASSUME NEW s, s # {} PROVE Pick(s) \in s
BY DEF Pick

\* A set of finite sets has a member none of whose proper subsets is in it.
LEMMA MinimalSet ==
  ASSUME NEW D, IsFiniteSet(D), NEW T \in SUBSET (SUBSET D), T # {}
  PROVE  \E s \in T : \A r \in T : r \subseteq s => r = s
<1>1. T \subseteq FiniteSubsetsOf(D)
  BY FS_Subset DEF FiniteSubsetsOf
<1>2. \E s \in T : \A r \in T : ~(<<r, s>> \in StrictSubsetOrdering(D))
  BY <1>1, FS_StrictSubsetOrderingWellFounded, WFMin, Zenon
<1>. QED
  BY <1>2 DEF StrictSubsetOrdering

\* The fold of the model is such a sum.
LEMMA TotalIsSum ==
  ASSUME NEW lines
  PROVE  Sale!ItemizedTotal(lines)
           = (CHOOSE g : IsSum(g, DOMAIN lines, Numbers(lines)))[DOMAIN lines]
<1>. DEFINE D == DOMAIN lines
            F(g) == [s \in SUBSET D |-> IF s = {} THEN 0
                       ELSE g[s \ {CHOOSE x \in s : TRUE}]
                              + Sale!Number(lines[CHOOSE x \in s : TRUE].amount)]
<1>1. Sale!ItemizedTotal(lines) = (CHOOSE g : g = F(g))[D]
  BY Zenon DEF Sale!ItemizedTotal, Sale!FoldSeq, Sale!FoldFunction, Sale!FoldFunctionOnSet, Sale!MapThenFoldSet
<1>2. ASSUME NEW g PROVE (g = F(g)) <=> IsSum(g, D, Numbers(lines))
  <2>1. ASSUME NEW s \in SUBSET D, s # {}
        PROVE  Sale!Number(lines[CHOOSE x \in s : TRUE].amount) = Numbers(lines)[Pick(s)]
    BY <2>1, PickIn DEF Pick, Numbers
  <2>2. F(g) = [s \in SUBSET D |-> IF s = {} THEN 0
                                   ELSE g[s \ {Pick(s)}] + Numbers(lines)[Pick(s)]]
    <3>1. \A s \in SUBSET D : s # {} =>
            g[s \ {CHOOSE x \in s : TRUE}] + Sale!Number(lines[CHOOSE x \in s : TRUE].amount)
              = g[s \ {Pick(s)}] + Numbers(lines)[Pick(s)]
      BY <2>1 DEF Pick
    <3>. HIDE DEF D
    <3>. QED
      BY <3>1
  <2>. QED
    BY <2>2 DEF IsSum
<1>3. (CHOOSE g : g = F(g)) = (CHOOSE g : IsSum(g, D, Numbers(lines)))
  <2>. HIDE DEF F, D
  <2>. QED
    BY <1>2, Zenon
<1>. QED
  BY <1>1, <1>3

\* There is at most one sum.
LEMMA SumUnique ==
  ASSUME NEW D, NEW E, IsFiniteSet(D), E \subseteq D, NEW v, NEW g, NEW h,
         IsSum(g, D, v), IsSum(h, E, v), NEW s \in SUBSET E
  PROVE  g[s] = h[s]
<1>. DEFINE T == {r \in SUBSET E : g[r] # h[r]}
<1>. SUFFICES ASSUME T # {} PROVE FALSE
  OBVIOUS
<1>2. PICK r \in T : \A q \in T : q \subseteq r => q = r
  <2>1. T \in SUBSET (SUBSET E) /\ IsFiniteSet(E)
    BY FS_Subset
  <2>. HIDE DEF T
  <2>. QED
    BY <2>1, MinimalSet
<1>3. g[r] = IF r = {} THEN 0 ELSE g[r \ {Pick(r)}] + v[Pick(r)]
  BY DEF IsSum
<1>4. h[r] = IF r = {} THEN 0 ELSE h[r \ {Pick(r)}] + v[Pick(r)]
  BY DEF IsSum
<1>5. CASE r = {}
  BY <1>3, <1>4, <1>5
<1>6. CASE r # {}
  <2>1. Pick(r) \in r
    BY <1>6, PickIn
  <2>2. g[r \ {Pick(r)}] = h[r \ {Pick(r)}]
    BY <2>1, <1>2
  <2>. QED
    BY <1>3, <1>4, <1>6, <2>2
<1>. QED
  BY <1>5, <1>6

\* There is one, for a finite set.
LEMMA SumExists ==
  ASSUME NEW D, IsFiniteSet(D), NEW v
  PROVE  \E g : IsSum(g, D, v)
<1>. DEFINE T == {r \in SUBSET D : ~\E g : IsSum(g, r, v)}
<1>. SUFFICES ASSUME T # {} PROVE FALSE
  OBVIOUS
<1>2. PICK d \in T : \A q \in T : q \subseteq d => q = d
  <2>1. T \in SUBSET (SUBSET D)
    OBVIOUS
  <2>. HIDE DEF T
  <2>. QED
    BY <2>1, MinimalSet
<1>. DEFINE H(e) == CHOOSE g : IsSum(g, e, v)
            G == [s \in SUBSET d |-> IF s = {} THEN 0
                    ELSE H(s \ {Pick(s)})[s \ {Pick(s)}] + v[Pick(s)]]
<1>3. ASSUME NEW s \in SUBSET d, s # {}
      PROVE  IsSum(H(s \ {Pick(s)}), s \ {Pick(s)}, v)
  <2>1. s \ {Pick(s)} \notin T /\ s \ {Pick(s)} \in SUBSET D
    BY <1>2, <1>3, PickIn
  <2>. QED
    BY <2>1
<1>4. ASSUME NEW s \in SUBSET d, s # {}
      PROVE  G[s \ {Pick(s)}] = H(s \ {Pick(s)})[s \ {Pick(s)}]
  <2>. DEFINE e == s \ {Pick(s)}
  <2>1. IsSum(H(e), e, v)
    BY <1>3, <1>4
  <2>2. H(e)[e] = IF e = {} THEN 0 ELSE H(e)[e \ {Pick(e)}] + v[Pick(e)]
    <3>. HIDE DEF H, e
    <3>. QED
      BY <2>1 DEF IsSum
  <2>3. e \in SUBSET d
    BY <1>4
  <2>4. G[e] = IF e = {} THEN 0 ELSE H(e \ {Pick(e)})[e \ {Pick(e)}] + v[Pick(e)]
    <3>. HIDE DEF H, e
    <3>. QED
      BY <2>3
  <2>. SUFFICES G[e] = H(e)[e]
    OBVIOUS
  <2>5. CASE e = {}
    <3>. HIDE DEF H, e, G
    <3>. QED
      BY <2>2, <2>4, <2>5
  <2>6. CASE e # {}
    <3>1. IsSum(H(e \ {Pick(e)}), e \ {Pick(e)}, v)
      BY <1>3, <2>3, <2>6
    <3>2. IsFiniteSet(e) /\ e \ {Pick(e)} \in SUBSET (e \ {Pick(e)}) /\ e \ {Pick(e)} \subseteq e
      BY <2>3, FS_Subset
    <3>. HIDE DEF H, e, G
    <3>3. H(e)[e \ {Pick(e)}] = H(e \ {Pick(e)})[e \ {Pick(e)}]
      BY <2>1, <3>1, <3>2, SumUnique
    <3>. QED
      BY <2>2, <2>4, <2>6, <3>3
  <2>. QED
    BY <2>5, <2>6
<1>5. G = [s \in SUBSET d |-> IF s = {} THEN 0 ELSE G[s \ {Pick(s)}] + v[Pick(s)]]
  <2>1. \A s \in SUBSET d : G[s] = IF s = {} THEN 0 ELSE G[s \ {Pick(s)}] + v[Pick(s)]
    <3>. HIDE DEF H
    <3>. QED
      BY <1>4
  <2>2. G = [s \in SUBSET d |-> G[s]]
    <3>. HIDE DEF H
    <3>. QED
      OBVIOUS
  <2>. HIDE DEF G
  <2>. QED
    BY <2>1, <2>2, Zenon
<1>6. IsSum(G, d, v)
  <2>. HIDE DEF G
  <2>. QED
    BY <1>5 DEF IsSum
<1>. QED
  BY <1>6

\* A sum of values that are at most M.
LEMMA SumBounds ==
  ASSUME NEW D, IsFiniteSet(D), NEW M \in Nat, NEW v, \A x \in D : v[x] \in 0 .. M,
         NEW g, IsSum(g, D, v), NEW s \in SUBSET D
  PROVE  g[s] \in 0 .. M * Cardinality(s)
<1>. DEFINE T == {r \in SUBSET D : g[r] \notin 0 .. M * Cardinality(r)}
<1>. SUFFICES ASSUME T # {} PROVE FALSE
  OBVIOUS
<1>2. PICK r \in T : \A q \in T : q \subseteq r => q = r
  <2>1. T \in SUBSET (SUBSET D)
    OBVIOUS
  <2>. HIDE DEF T
  <2>. QED
    BY <2>1, MinimalSet
<1>3. g[r] = IF r = {} THEN 0 ELSE g[r \ {Pick(r)}] + v[Pick(r)]
  BY DEF IsSum
<1>4. IsFiniteSet(r) /\ Cardinality(r) \in Nat
  BY FS_Subset, FS_CardinalityType
<1>5. r # {}
  <2>1. r = {} => g[r] \in 0 .. M * Cardinality(r)
    BY ONLY <1>3, FS_EmptySet, M \in Nat
  <2>. QED
    BY <2>1
<1>6. Pick(r) \in r /\ Cardinality(r \ {Pick(r)}) = Cardinality(r) - 1
  BY <1>4, <1>5, PickIn, FS_RemoveElement
<1>7. g[r \ {Pick(r)}] \in 0 .. M * Cardinality(r \ {Pick(r)})
  BY <1>2, <1>6
<1>8. v[Pick(r)] \in 0 .. M
  BY <1>6
<1>. DEFINE a == M * (Cardinality(r) - 1)
            b == M * Cardinality(r)
<1>9. a + M = b /\ a \in Int /\ b \in Int
  BY <1>4
<1>10. g[r \ {Pick(r)}] \in 0 .. a
  BY <1>6, <1>7
<1>11. g[r] \notin 0 .. b
  OBVIOUS
<1>. HIDE DEF a, b, T
<1>. QED
  BY <1>3, <1>5, <1>8, <1>9, <1>10, <1>11

\* The total of lines whose amounts are at most M.
LEMMA TotalBounds ==
  ASSUME NEW n \in Nat, NEW lines, DOMAIN lines = 1 .. n, NEW M \in Nat,
         \A i \in 1 .. n : Sale!Number(lines[i].amount) \in 0 .. M
  PROVE  Sale!ItemizedTotal(lines) \in 0 .. M * n
<1>. DEFINE D == DOMAIN lines
            v == Numbers(lines)
            g == CHOOSE f : IsSum(f, D, v)
<1>1. IsFiniteSet(D) /\ Cardinality(D) = n
  BY FS_Interval
<1>2. IsSum(g, D, v)
  <2>. HIDE DEF D, v
  <2>. QED
    BY <1>1, SumExists
<1>3. \A x \in D : v[x] \in 0 .. M
  BY DEF Numbers
<1>4. Sale!ItemizedTotal(lines) = g[D]
  BY TotalIsSum, Zenon
<1>. HIDE DEF D, v, g
<1>5. g[D] \in 0 .. M * Cardinality(D)
  BY <1>1, <1>2, <1>3, SumBounds
<1>. QED
  BY <1>1, <1>4, <1>5

\* The total of one line.
LEMMA TotalOfOne ==
  ASSUME NEW l, l = <<l[1]>>, Sale!Number(l[1].amount) \in Int
  PROVE  Sale!ItemizedTotal(l) = Sale!Number(l[1].amount)
<1>. DEFINE g == CHOOSE f : IsSum(f, {1}, Numbers(l))
<1>1. DOMAIN l = {1}
  OBVIOUS
<1>2. IsSum(g, {1}, Numbers(l))
  BY FS_Singleton, SumExists
<1>3. Sale!ItemizedTotal(l) = g[{1}]
  BY <1>1, TotalIsSum
<1>. HIDE DEF g
<1>4. g[{}] = 0
  BY <1>2 DEF IsSum
<1>5. Pick({1}) = 1
  BY PickIn
<1>6. g[{1}] = g[{}] + Numbers(l)[1]
  BY <1>2, <1>5 DEF IsSum
<1>. QED
  BY <1>1, <1>3, <1>4, <1>6 DEF Numbers

\* Lines with the same amounts have the same total.
LEMMA SameTotal ==
  ASSUME NEW k, NEW l, DOMAIN k = DOMAIN l,
         \A i \in DOMAIN k : Sale!Number(k[i].amount) = Sale!Number(l[i].amount)
  PROVE  Sale!ItemizedTotal(k) = Sale!ItemizedTotal(l)
<1>1. Numbers(k) = Numbers(l)
  BY DEF Numbers
<1>. QED
  BY <1>1, TotalIsSum
-----------------------------------------------------------------------------
(* The sale form. *)

\* What the field of the total can hold.
Totals == Nat \cup {Sale!NaN}

\* The fields of the form.
Forms == [business : Businesses \cup {Sale!None}, unit : Units \cup {Sale!None},
          customer : {"", "typed", "known"}, payment : {"paid", "pending"},
          total : Totals, paid : Sale!Amounts, itemized : BOOLEAN, lines : Seq(Sale!Lines)]

\* A form has at least one line, and room for no more than the bound.
GoodForm(f) == f \in Forms /\ Len(f.lines) \in 1 .. MaxLines

\* The total that goes with lines.
TotalOf(lines) ==
  IF Sale!ItemizedTotal(lines) > 0 THEN Sale!ItemizedTotal(lines) ELSE Sale!NaN

\* A total is read as that of lines, in whole cents.  One that comes with a draft is
\* rounded already, one that follows the lines is not.
Fits(total, lines) == Sale!Money(total) = Sale!Rounded(Sale!ItemizedTotal(lines))

\* The total follows the lines of a sale that is itemized.
Follows(f) == f.itemized => Fits(f.total, f.lines)

SaleInv ==
  /\ status \in {"closed", "idle", "saving", "drafting"}
  /\ level \in {"master", "business", "unit"} /\ options \subseteq Units
  /\ loading \in BOOLEAN
  /\ draft = <<>> \/ \E d \in Sale!Drafts : draft = <<d>>
  /\ GoodForm(fields) /\ Follows(fields)
  /\ Sale!SentAmountsAgree

\* Whole cents stay as they are.
LEMMA WholeCents ==
  ASSUME NEW c \in Nat, c >= 1, NEW k \in Int
  PROVE  (2 * (k * c) + c) \div (2 * c) = k
<1>. DEFINE d == 2 * c
            x == 2 * (k * c) + c
            q == x \div d
<1>1. d \in Nat /\ d > 0 /\ d = 2 * c
  OBVIOUS
<1>2. x \in Int /\ x = k * d + c
  OBVIOUS
<1>. HIDE DEF d, x
<1>3. q \in Int /\ d * q <= x /\ x < d * q + d
  BY <1>1, <1>2
<1>. HIDE DEF q
<1>4. ~ (q < k)
  <2>1. ASSUME q < k PROVE FALSE
    <3>1. q + 1 <= k
      BY <1>3, <2>1
    <3>2. d * (q + 1) <= d * k
      BY <1>1, <1>3, <3>1
    <3>3. d * (q + 1) = d * q + d /\ d * k = k * d
      BY <1>1, <1>3
    <3>. QED
      BY <1>1, <1>2, <1>3, <3>2, <3>3
  <2>. QED
    BY <2>1
<1>5. ~ (q > k)
  <2>1. ASSUME q > k PROVE FALSE
    <3>1. k + 1 <= q
      BY <1>3, <2>1
    <3>2. d * (k + 1) <= d * q
      BY <1>1, <1>3, <3>1
    <3>3. d * (k + 1) = k * d + d
      BY <1>1
    <3>. QED
      BY <1>1, <1>2, <1>3, <3>2, <3>3
  <2>. QED
    BY <2>1
<1>6. q = k
  BY <1>3, <1>4, <1>5
<1>. QED
  BY <1>6 DEF q, x, d

\* An amount in whole cents is one of the amounts, and what is rounded stays so.
LEMMA RoundedAmount ==
  ASSUME Shop, NEW a \in Nat
  PROVE  /\ Sale!Rounded(a) \in Nat
         /\ Sale!Rounded(Sale!Rounded(a)) = Sale!Rounded(a)
         /\ Sale!Rounded(0) = 0
<1>1. Cent \in Nat /\ Cent >= 1
  BY DEF Shop
<1>2. PICK k \in Int : k = (2 * a + Cent) \div (2 * Cent)
  BY <1>1
<1>3. k >= 0
  <2>1. 2 * Cent * k <= 2 * a + Cent /\ 2 * a + Cent < 2 * Cent * k + 2 * Cent
    BY <1>1, <1>2
  <2>2. ASSUME k < 0 PROVE FALSE
    <3>1. k + 1 <= 0
      BY <2>2
    <3>2. 2 * Cent * (k + 1) <= 0
      BY <1>1, <3>1
    <3>3. 2 * Cent * (k + 1) = 2 * Cent * k + 2 * Cent
      BY <1>1
    <3>. QED
      BY <1>1, <2>1, <3>2, <3>3
  <2>. QED
    BY <2>2
<1>4. Sale!Rounded(a) = k * Cent
  BY <1>2 DEF Sale!Rounded
<1>5. k * Cent \in Nat
  BY <1>1, <1>3
<1>6. (2 * (k * Cent) + Cent) \div (2 * Cent) = k
  BY <1>1, WholeCents
<1>7. Sale!Rounded(Sale!Rounded(a)) = k * Cent
  BY <1>4, <1>6 DEF Sale!Rounded
<1>8. Sale!Rounded(0) = 0
  <2>1. (2 * (0 * Cent) + Cent) \div (2 * Cent) = 0
    BY <1>1, WholeCents
  <2>2. 0 * Cent = 0
    BY <1>1
  <2>. QED
    BY <1>1, <2>1, <2>2 DEF Sale!Rounded
<1>. QED
  BY <1>4, <1>5, <1>7, <1>8

\* What an input is read as.
LEMMA MoneyAmount ==
  ASSUME Shop, NEW a \in Totals
  PROVE  /\ Sale!Money(a) \in Nat
         /\ Sale!Rounded(Sale!Money(a)) = Sale!Money(a)
         /\ Sale!Money(Sale!Money(a)) = Sale!Money(a)
         /\ Sale!Money(Sale!NaN) = 0
<1>1. PICK n \in Nat : n = Sale!Number(a)
  BY DEF Totals, Sale!Number, Sale!NaN
<1>2. PICK m \in Nat : m = Sale!Rounded(n) /\ Sale!Rounded(m) = m /\ Sale!Rounded(0) = 0
  BY RoundedAmount
<1>3. Sale!Number(m) = m /\ Sale!Number(Sale!NaN) = 0
  BY DEF Sale!Number, Sale!NaN
<1>4. Sale!Money(a) = m
  BY <1>1, <1>2 DEF Sale!Money
<1>5. Sale!Money(m) = m
  BY <1>2, <1>3 DEF Sale!Money
<1>6. Sale!Money(Sale!NaN) = 0
  BY <1>2, <1>3 DEF Sale!Money
<1>. QED
  BY <1>2, <1>4, <1>5, <1>6

\* The amounts of lines add up to a total, and that is theirs.
LEMMA GoodTotal ==
  ASSUME Shop, NEW lines \in Seq(Sale!Lines)
  PROVE  /\ Sale!ItemizedTotal(lines) \in Nat
         /\ TotalOf(lines) \in Totals /\ Fits(TotalOf(lines), lines)
<1>. DEFINE n == Len(lines)
<1>1. n \in Nat /\ DOMAIN lines = 1 .. n
  OBVIOUS
<1>2. MaxAmount \in Nat
  BY DEF Shop
<1>3. \A i \in 1 .. n : Sale!Number(lines[i].amount) \in 0 .. MaxAmount
  <2>1. ASSUME NEW i \in 1 .. n PROVE Sale!Number(lines[i].amount) \in 0 .. MaxAmount
    <3>1. lines[i] \in Sale!Lines
      BY <1>1
    <3>2. lines[i].amount \in Sale!Amounts
      BY <3>1 DEF Sale!Lines
    <3>. QED
      BY <1>2, <3>2 DEF Sale!Number, Sale!Amounts, Sale!NaN
  <2>. QED
    BY <2>1
<1>4. Sale!ItemizedTotal(lines) \in 0 .. MaxAmount * n
  BY <1>1, <1>2, <1>3, TotalBounds
<1>. HIDE DEF n
<1>5. PICK t \in Nat : t = Sale!ItemizedTotal(lines)
  <2>1. MaxAmount * n \in Int
    BY <1>1, <1>2
  <2>. QED
    BY <1>4, <2>1
<1>6. Sale!Number(TotalOf(lines)) = t
  BY <1>5 DEF TotalOf, Sale!Number, Sale!NaN
<1>7. Fits(TotalOf(lines), lines)
  BY <1>5, <1>6 DEF Fits, Sale!Money
<1>. QED
  BY <1>5, <1>7 DEF TotalOf, Totals

\* What the effects do to the fields a handler has set.
LEMMA SetKeeps ==
  ASSUME Shop, SaleInv, NEW f, GoodForm(f), Sale!Set(f),
         f.itemized /\ fields.itemized
           /\ Sale!ItemizedTotal(fields.lines) = Sale!ItemizedTotal(f.lines)
           => Fits(f.total, f.lines)
  PROVE  GoodForm(fields') /\ Follows(fields')
<1>1. PICK g : g = Sale!FollowBusiness(f)
  OBVIOUS
<1>2. g \in Forms /\ g.lines = f.lines /\ g.total = f.total /\ g.itemized = f.itemized
  <2>1. CASE g = f
    BY <2>1 DEF GoodForm
  <2>2. CASE g # f
    <3>1. PICK u \in Units : g = [f EXCEPT !.unit = u]
      <4>1. Sale!Selectable(f.business) # {}
            /\ g = [f EXCEPT !.unit = CHOOSE u \in Sale!Selectable(f.business) : TRUE]
        BY <1>1, <2>2 DEF Sale!FollowBusiness
      <4>2. Sale!Selectable(f.business) \subseteq Units
        BY DEF Sale!Selectable, SaleInv
      <4>. QED
        BY <4>1, <4>2
    <3>. QED
      BY <3>1 DEF GoodForm, Forms
  <2>. QED
    BY <2>1, <2>2
<1>3. fields' = Sale!FollowLines(fields, g)
  BY <1>1 DEF Sale!Set
<1>4. TotalOf(f.lines) \in Totals /\ Fits(TotalOf(f.lines), f.lines)
  BY GoodTotal DEF GoodForm, Forms
<1>5. CASE fields' = g
  <2>1. g.itemized => Fits(g.total, g.lines)
    <3>1. ASSUME g.itemized PROVE Fits(g.total, g.lines)
      <4>1. CASE fields.itemized
                 /\ Sale!ItemizedTotal(fields.lines) = Sale!ItemizedTotal(g.lines)
        BY <1>2, <3>1, <4>1
      <4>2. CASE ~(fields.itemized
                   /\ Sale!ItemizedTotal(fields.lines) = Sale!ItemizedTotal(g.lines))
        <5>1. g = [g EXCEPT !.total = TotalOf(g.lines)]
          BY <1>3, <1>5, <3>1, <4>2 DEF Sale!FollowLines, TotalOf
        <5>2. [g EXCEPT !.total = TotalOf(g.lines)].total = TotalOf(g.lines)
          BY <1>2 DEF Forms
        <5>. QED
          BY <1>2, <1>4, <5>1, <5>2
      <4>. QED
        BY <4>1, <4>2
    <3>. QED
      BY <3>1
  <2>. QED
    BY <1>2, <1>5, <2>1 DEF GoodForm, Follows
<1>6. CASE fields' # g
  <2>1. fields' = [g EXCEPT !.total = TotalOf(g.lines)]
    BY <1>3, <1>6 DEF Sale!FollowLines, TotalOf
  <2>2. fields' \in Forms /\ fields'.lines = g.lines /\ fields'.total = TotalOf(g.lines)
    BY <1>2, <1>4, <2>1 DEF Forms
  <2>. QED
    BY <1>2, <1>4, <2>2 DEF GoodForm, Follows
<1>. QED
  BY <1>5, <1>6

\* A line that is added is empty.
LEMMA NewLineIsGood == Sale!NewLine \in Sale!Lines
BY DEF Sale!NewLine, Sale!Lines, Sale!Amounts

\* The form of a page that is not open.
LEMMA EmptyFormIsGood ==
  ASSUME Shop
  PROVE  GoodForm(Sale!NoFields) /\ Follows(Sale!NoFields)
<1>1. Sale!NoFields.lines = <<Sale!NewLine>> /\ ~Sale!NoFields.itemized
  BY DEF Sale!NoFields
<1>2. <<Sale!NewLine>> \in Seq(Sale!Lines) /\ Len(<<Sale!NewLine>>) = 1
  BY NewLineIsGood
<1>3. Sale!NoFields \in Forms
  BY <1>2 DEF Sale!NoFields, Forms, Totals, Sale!Amounts
<1>. QED
  BY <1>1, <1>2, <1>3 DEF GoodForm, Follows, Shop

\* At first nothing is sent.
LEMMA SaleInitInv == ASSUME Shop PROVE Sale!Init => SaleInv
<1>. SUFFICES ASSUME Shop, Sale!Init PROVE SaleInv
  OBVIOUS
<1>1. fields = Sale!NoFields /\ GoodForm(fields) /\ Follows(fields)
  BY EmptyFormIsGood DEF Sale!Init
<1>2. request.kind = "none"
  BY DEF Sale!Init, Sale!NoRequest
<1>. QED
  BY <1>1, <1>2 DEF Sale!Init, SaleInv, Sale!SentAmountsAgree

\* The first fields of a form that is opened.
LEMMA InitialIsGood ==
  ASSUME Shop, NEW l, NEW all
  PROVE  GoodForm(Sale!Initial(l, all)) /\ Follows(Sale!Initial(l, all))
<1>1. PICK b \in Businesses \cup {Sale!None}, u \in Units \cup {Sale!None} :
        Sale!Initial(l, all) = [Sale!NoFields EXCEPT !.business = b, !.unit = u]
  BY DEF Sale!Initial, Shop
<1>2. Sale!NoFields \in Forms
  BY EmptyFormIsGood DEF GoodForm
<1>3. Sale!Initial(l, all) \in Forms
      /\ Sale!Initial(l, all).lines = Sale!NoFields.lines
      /\ Sale!Initial(l, all).itemized = Sale!NoFields.itemized
  BY <1>1, <1>2 DEF Forms
<1>4. ~Sale!NoFields.itemized
  BY DEF Sale!NoFields
<1>. QED
  BY <1>3, <1>4, EmptyFormIsGood DEF GoodForm, Follows

\* A page that is opened starts with the initial fields.
LEMMA SaleOpenKeeps ==
  ASSUME Shop, SaleInv, Sale!OpenAny
  PROVE  SaleInv'
<1>1. PICK d : (d = <<>> \/ \E x \in Sale!Drafts : d = <<x>>) /\ Sale!Open(d)
  BY DEF Sale!OpenAny
<1>2. GoodForm(fields)' /\ Follows(fields)'
  BY <1>1, InitialIsGood DEF Sale!Open
<1>. QED
  BY <1>1, <1>2 DEF Sale!Open, SaleInv, Sale!SentAmountsAgree

\* The unit follows what has been loaded; the lines and the total stay.
LEMMA SaleLoadKeeps ==
  ASSUME Shop, SaleInv, Sale!Loaded \/ Sale!LoadFails
  PROVE  SaleInv'
<1>1. CASE Sale!LoadFails
  BY <1>1 DEF Sale!LoadFails, SaleInv, Sale!SentAmountsAgree
<1>2. CASE Sale!Loaded
  <2>. DEFINE f == IF fields.business = Sale!None
                   THEN [fields EXCEPT !.business = BusinessOf[Home]] ELSE fields
              ok == {u \in options' : BusinessOf[u] = f.business /\ (level = "unit" => u = Home)}
  <2>1. options' \subseteq Units
    BY <1>2 DEF Sale!Loaded, Shop
  <2>2. f \in Forms /\ f.lines = fields.lines /\ f.total = fields.total
        /\ f.itemized = fields.itemized
    BY DEF SaleInv, GoodForm, Forms, Shop
  <2>3. \/ fields' = f
        \/ ok # {} /\ fields' = [f EXCEPT !.unit = CHOOSE u \in ok : TRUE]
    <3>1. fields' = IF ok # {} /\ f.unit \notin ok
                    THEN [f EXCEPT !.unit = CHOOSE u \in ok : TRUE] ELSE f
      BY <1>2, Zenon DEF Sale!Loaded
    <3>. HIDE DEF f, ok
    <3>. QED
      BY <3>1
  <2>4. ok \subseteq Units
    BY <2>1
  <2>. HIDE DEF f, ok
  <2>5. fields' \in Forms /\ fields'.lines = fields.lines /\ fields'.total = fields.total
        /\ fields'.itemized = fields.itemized
    <3>1. CASE fields' = f
      BY <2>2, <3>1
    <3>2. CASE fields' # f
      <4>1. PICK u \in Units : fields' = [f EXCEPT !.unit = u]
        BY <2>3, <2>4, <3>2
      <4>. QED
        BY <2>2, <4>1 DEF Forms
    <3>. QED
      BY <3>1, <3>2
  <2>6. GoodForm(fields)' /\ Follows(fields)'
    BY <2>5 DEF SaleInv, GoodForm, Follows
  <2>. QED
    BY <1>2, <2>1, <2>6 DEF Sale!Loaded, SaleInv, Sale!SentAmountsAgree
<1>. QED
  BY <1>1, <1>2

\* The total of two lines.
LEMMA TotalOfTwo ==
  ASSUME NEW l, DOMAIN l = {1, 2}, Sale!Number(l[1].amount) = 1, Sale!Number(l[2].amount) = 1
  PROVE  Sale!ItemizedTotal(l) = 2
<1>. DEFINE g == CHOOSE f : IsSum(f, {1, 2}, Numbers(l))
            x == Pick({1, 2})
            y == Pick({1, 2} \ {x})
<1>1. IsFiniteSet({1, 2})
  <2>1. PICK s : s = {1} /\ IsFiniteSet(s)
    BY FS_Singleton
  <2>2. IsFiniteSet(s \cup {2})
    BY <2>1, FS_AddElement
  <2>3. s \cup {2} = {1, 2}
    BY <2>1
  <2>. QED
    BY <2>2, <2>3
<1>2. IsSum(g, {1, 2}, Numbers(l))
  BY <1>1, SumExists
<1>3. Sale!ItemizedTotal(l) = g[{1, 2}]
  BY TotalIsSum
<1>. HIDE DEF g
<1>4. x \in {1, 2}
  BY PickIn
<1>5. {1, 2} \ {x} # {}
  BY <1>4
<1>6. y \in {1, 2} \ {x}
  BY <1>5, PickIn
<1>7. g[{1, 2}] = g[{1, 2} \ {x}] + Numbers(l)[x]
  <2>1. {1, 2} # {}
    OBVIOUS
  <2>. QED
    BY <1>2, <2>1 DEF IsSum
<1>8. g[{1, 2} \ {x}] = g[({1, 2} \ {x}) \ {y}] + Numbers(l)[y]
  <2>. HIDE DEF x
  <2>1. {1, 2} \ {x} \in SUBSET {1, 2}
    OBVIOUS
  <2>. QED
    BY <1>2, <1>5, <2>1 DEF IsSum
<1>. HIDE DEF x, y
<1>9. ({1, 2} \ {x}) \ {y} = {}
  BY <1>4, <1>6
<1>10. g[{}] = 0
  BY <1>2 DEF IsSum
<1>11. Numbers(l)[x] = 1 /\ Numbers(l)[y] = 1
  BY <1>4, <1>6 DEF Numbers
<1>. QED
  BY <1>3, <1>7, <1>8, <1>9, <1>10, <1>11

\* What a form is saved as.
LEMMA PayloadIsGood ==
  ASSUME Shop, NEW f \in Forms, NEW lines \in Seq(Sale!Lines), lines = Sale!SaleLines(f)
  PROVE  /\ Sale!DraftPayload(f) \in Forms
         /\ Sale!DraftPayload(f).lines = lines
         /\ Sale!DraftPayload(f).itemized = f.itemized
         /\ Sale!Money(Sale!DraftPayload(f).total) = Sale!Money(f.total)
<1>. DEFINE c == IF f.customer = "" THEN "" ELSE "typed"
            t == IF Sale!Money(f.total) = 0 THEN Sale!NaN ELSE Sale!Money(f.total)
            p == IF f.payment = "pending" THEN f.paid ELSE Sale!NaN
<1>1. Sale!DraftPayload(f) = [f EXCEPT !.customer = c, !.total = t, !.paid = p, !.lines = lines]
  BY DEF Sale!DraftPayload
<1>2. c \in {"", "typed", "known"} /\ p \in Sale!Amounts
  BY DEF Forms, Sale!Amounts
<1>4. t \in Totals /\ Sale!Money(t) = Sale!Money(f.total)
  <2>1. PICK m \in Nat : m = Sale!Money(f.total) /\ Sale!Money(m) = m /\ Sale!Money(Sale!NaN) = 0
    BY MoneyAmount DEF Forms
  <2>. QED
    BY <2>1 DEF Totals
<1>. HIDE DEF c, t, p
<1>3. /\ Sale!DraftPayload(f) \in Forms /\ Sale!DraftPayload(f).lines = lines
      /\ Sale!DraftPayload(f).itemized = f.itemized /\ Sale!DraftPayload(f).total = t
  BY <1>1, <1>2, <1>4 DEF Forms
<1>. QED
  BY <1>3, <1>4

\* The drafts there are: one without lines, and one whose total is that of its lines.
LEMMA DraftFacts ==
  ASSUME Shop, NEW d \in Sale!Drafts
  PROVE  /\ d \in Forms /\ Len(d.lines) \in 0 .. MaxLines
         /\ d.itemized => d.lines # <<>> /\ Fits(d.total, d.lines)
<1>. DEFINE empty == [Sale!NoFields EXCEPT !.business = BusinessOf[Home], !.unit = Home]
            two == [i \in 1 .. 2 |-> [item |-> "typed", amount |-> 1]]
            full == [empty EXCEPT !.customer = "typed", !.payment = "pending", !.paid = 1,
                                  !.total = 2, !.itemized = TRUE, !.lines = two]
<1>1. d = Sale!DraftPayload(empty) \/ d = Sale!DraftPayload(full)
  BY DEF Sale!Drafts
<1>2. empty \in Forms /\ ~empty.itemized /\ empty.total = Sale!NaN
  <2>1. Sale!NoFields \in Forms /\ ~Sale!NoFields.itemized /\ Sale!NoFields.total = Sale!NaN
    BY EmptyFormIsGood DEF GoodForm, Sale!NoFields
  <2>. QED
    BY <2>1 DEF Forms, Shop
<1>3. two \in Seq(Sale!Lines) /\ Len(two) = 2 /\ DOMAIN two = {1, 2}
      /\ \A i \in {1, 2} : two[i] = [item |-> "typed", amount |-> 1]
  <2>1. [item |-> "typed", amount |-> 1] \in Sale!Lines
    BY DEF Sale!Lines, Sale!Amounts, Shop
  <2>2. 1 .. 2 = {1, 2}
    OBVIOUS
  <2>. QED
    BY <2>1, <2>2
<1>4. full \in Forms /\ full.itemized /\ full.total = 2 /\ full.lines = two
  <2>1. 2 \in Totals /\ 1 \in Sale!Amounts
    BY DEF Totals, Sale!Amounts, Shop
  <2>. HIDE DEF empty, two
  <2>. QED
    BY <1>2, <1>3, <2>1 DEF Forms
<1>5. CASE d = Sale!DraftPayload(empty)
  <2>1. Sale!SaleLines(empty) = <<>>
    <3>1. Sale!Money(Sale!NaN) = 0
      BY MoneyAmount DEF Totals
    <3>. HIDE DEF empty
    <3>. QED
      BY <1>2, <3>1 DEF Sale!SaleLines
  <2>. HIDE DEF empty, full
  <2>2. PICK none : none = <<>> /\ none \in Seq(Sale!Lines)
    <3>1. <<>> \in Seq(Sale!Lines)
      OBVIOUS
    <3>. QED
      BY <3>1
  <2>3. d \in Forms /\ d.lines = none /\ ~d.itemized
    BY <1>2, <1>5, <2>1, <2>2, PayloadIsGood
  <2>. QED
    BY <2>2, <2>3 DEF Shop
<1>6. CASE d = Sale!DraftPayload(full)
  <2>1. Sale!SaleLines(full) = two
    <3>1. Sale!SaleLines(full) = [i \in DOMAIN two |-> [two[i] EXCEPT !.amount = Sale!Number(@)]]
      <4>. HIDE DEF empty, full, two
      <4>. QED
        BY <1>4 DEF Sale!SaleLines
    <3>2. \A i \in {1, 2} : [two[i] EXCEPT !.amount = Sale!Number(@)] = two[i]
      BY <1>3 DEF Sale!Number, Sale!NaN
    <3>3. two = [i \in {1, 2} |-> two[i]]
      BY <1>3
    <3>. HIDE DEF full, two
    <3>. QED
      BY <1>3, <3>1, <3>2, <3>3
  <2>. HIDE DEF empty, full, two
  <2>2. d \in Forms /\ d.lines = two /\ d.itemized /\ Sale!Money(d.total) = Sale!Money(2)
    BY <1>3, <1>4, <1>6, <2>1, PayloadIsGood
  <2>3. Sale!ItemizedTotal(two) = 2
    BY <1>3, TotalOfTwo DEF Sale!Number, Sale!NaN
  <2>4. Fits(d.total, two)
    BY <2>2, <2>3 DEF Fits, Sale!Money, Sale!Number, Sale!NaN
  <2>5. 2 \in 0 .. MaxLines
    BY DEF Shop
  <2>6. two # <<>>
    BY <1>3
  <2>. QED
    BY <1>3, <2>2, <2>4, <2>5, <2>6
<1>. QED
  BY <1>1, <1>5, <1>6

\* The draft replaces what was typed; its total is that of its lines.
LEMMA SaleDraftKeeps ==
  ASSUME Shop, SaleInv, Sale!DraftLoaded \/ Sale!DraftFails
  PROVE  SaleInv'
<1>1. CASE Sale!DraftFails
  BY <1>1 DEF Sale!DraftFails, SaleInv, Sale!SentAmountsAgree
<1>2. CASE Sale!DraftLoaded
  <2>1. PICK d \in Sale!Drafts : draft = <<d>> /\ draft[1] = d
    BY <1>2 DEF Sale!DraftLoaded, SaleInv
  <2>. DEFINE b == IF level = "unit" THEN fields.business ELSE d.business
              u == IF level = "unit" THEN fields.unit ELSE d.unit
              l == IF d.lines = <<>> THEN fields.lines ELSE d.lines
              f == [d EXCEPT !.business = b, !.unit = u, !.lines = l]
  <2>2. Sale!Set(f)
    BY <1>2, <2>1 DEF Sale!DraftLoaded
  <2>3. /\ d \in Forms /\ Len(d.lines) \in 0 .. MaxLines
        /\ d.itemized => d.lines # <<>> /\ Fits(d.total, d.lines)
    BY DraftFacts
  <2>4. /\ b \in Businesses \cup {Sale!None} /\ u \in Units \cup {Sale!None}
        /\ l \in Seq(Sale!Lines) /\ Len(l) \in 1 .. MaxLines
    <3>1. d.lines \in Seq(Sale!Lines) /\ d.lines # <<>> => Len(d.lines) \in 1 .. MaxLines
      <4>1. d.lines \in Seq(Sale!Lines)
        BY <2>3 DEF Forms
      <4>2. Len(d.lines) \in 0 .. MaxLines
        BY <2>3
      <4>. QED
        BY <4>1, <4>2
    <3>. QED
      BY <2>3, <3>1 DEF SaleInv, GoodForm, Forms
  <2>5. /\ f \in Forms /\ f.lines = l /\ f.total = d.total /\ f.itemized = d.itemized
    <3>. HIDE DEF b, u, l
    <3>. QED
      BY <2>3, <2>4 DEF Forms
  <2>6. GoodForm(f)
    BY <2>4, <2>5 DEF GoodForm
  <2>7. f.itemized => Fits(f.total, f.lines)
    BY <2>3, <2>5
  <2>. HIDE DEF f
  <2>8. GoodForm(fields') /\ Follows(fields')
    BY <2>2, <2>6, <2>7, SetKeeps
  <2>. QED
    BY <1>2, <2>8 DEF Sale!DraftLoaded, SaleInv, GoodForm, Follows, Sale!SentAmountsAgree
<1>. QED
  BY <1>1, <1>2

\* An edit sets the fields, and all else stays.
LEMMA EditKeeps ==
  ASSUME Shop, SaleInv, NEW f, GoodForm(f), Sale!Edits, Sale!Set(f),
         f.itemized /\ fields.itemized
           /\ Sale!ItemizedTotal(fields.lines) = Sale!ItemizedTotal(f.lines)
           => Fits(f.total, f.lines)
  PROVE  SaleInv'
<1>1. GoodForm(fields') /\ Follows(fields')
  BY SetKeeps
<1>. QED
  BY <1>1 DEF Sale!Edits, SaleInv, GoodForm, Follows, Sale!SentAmountsAgree

\* The inputs that are not lines.
LEMMA SaleInputKeeps ==
  ASSUME Shop, SaleInv
  PROVE  /\ \A b \in Businesses : Sale!ChooseBusiness(b) => SaleInv'
         /\ \A u \in Units : Sale!ChooseUnit(u) => SaleInv'
         /\ \A c \in {"", "typed", "known"} : Sale!TypeCustomer(c) => SaleInv'
         /\ \A a \in Sale!Amounts : Sale!TypeTotal(a) \/ Sale!TypePaid(a) => SaleInv'
         /\ Sale!ToggleItemized => SaleInv'
         /\ \A p \in {"paid", "pending"} : Sale!ChoosePayment(p) => SaleInv'
<1>p. fields \in Forms /\ GoodForm(fields) /\ Follows(fields)
  BY DEF SaleInv, GoodForm
<1>1. ASSUME NEW b \in Businesses, Sale!ChooseBusiness(b) PROVE SaleInv'
  <2>. DEFINE f == [fields EXCEPT !.business = b, !.unit = Sale!None]
  <2>1. f \in Forms /\ f.lines = fields.lines /\ f.total = fields.total
        /\ f.itemized = fields.itemized
    BY <1>p DEF Forms
  <2>. QED
    BY <1>p, <1>1, <2>1, EditKeeps DEF Sale!ChooseBusiness, GoodForm, Follows
<1>2. ASSUME NEW u \in Units, Sale!ChooseUnit(u) PROVE SaleInv'
  <2>. DEFINE f == [fields EXCEPT !.unit = u]
  <2>1. f \in Forms /\ f.lines = fields.lines /\ f.total = fields.total
        /\ f.itemized = fields.itemized
    BY <1>p DEF Forms
  <2>. QED
    BY <1>p, <1>2, <2>1, EditKeeps DEF Sale!ChooseUnit, GoodForm, Follows
<1>3. ASSUME NEW c \in {"", "typed", "known"}, Sale!TypeCustomer(c) PROVE SaleInv'
  <2>. DEFINE f == [fields EXCEPT !.customer = c]
  <2>1. f \in Forms /\ f.lines = fields.lines /\ f.total = fields.total
        /\ f.itemized = fields.itemized
    BY <1>p DEF Forms
  <2>. QED
    BY <1>p, <1>3, <2>1, EditKeeps DEF Sale!TypeCustomer, GoodForm, Follows
<1>4. ASSUME NEW a \in Sale!Amounts, Sale!TypeTotal(a) PROVE SaleInv'
  <2>. DEFINE f == [fields EXCEPT !.total = a]
  <2>1. f \in Forms /\ f.lines = fields.lines /\ f.itemized = fields.itemized
    <3>1. a \in Totals
      BY DEF Totals, Sale!Amounts, Shop
    <3>. QED
      BY <1>p, <3>1 DEF Forms
  <2>2. ~fields.itemized /\ Sale!Edits /\ Sale!Set(f)
    BY <1>4 DEF Sale!TypeTotal
  <2>. QED
    BY <1>p, <2>1, <2>2, EditKeeps DEF GoodForm
<1>5. ASSUME NEW a \in Sale!Amounts, Sale!TypePaid(a) PROVE SaleInv'
  <2>. DEFINE f == [fields EXCEPT !.paid = a]
  <2>1. f \in Forms /\ f.lines = fields.lines /\ f.total = fields.total
        /\ f.itemized = fields.itemized
    BY <1>p DEF Forms
  <2>. QED
    BY <1>p, <1>5, <2>1, EditKeeps DEF Sale!TypePaid, GoodForm, Follows
<1>6. ASSUME Sale!ToggleItemized PROVE SaleInv'
  <2>. DEFINE t == IF fields.itemized THEN Sale!NaN ELSE fields.total
              f == [fields EXCEPT !.itemized = ~fields.itemized, !.total = t]
  <2>1. t \in Totals
    BY <1>p DEF Forms, Totals, Sale!Amounts
  <2>2. f \in Forms /\ f.lines = fields.lines /\ f.itemized = ~fields.itemized
    <3>. HIDE DEF t
    <3>. QED
      BY <1>p, <2>1 DEF Forms
  <2>3. Sale!Edits /\ Sale!Set(f)
    BY <1>6 DEF Sale!ToggleItemized
  <2>. HIDE DEF f
  <2>. QED
    BY <1>p, <2>2, <2>3, EditKeeps DEF GoodForm
<1>7. ASSUME NEW p \in {"paid", "pending"}, Sale!ChoosePayment(p) PROVE SaleInv'
  <2>. DEFINE a == IF p = "paid" THEN Sale!NaN ELSE fields.paid
              f == [fields EXCEPT !.payment = p, !.paid = a]
  <2>1. a \in Sale!Amounts
    BY <1>p DEF Forms, Sale!Amounts
  <2>2. f \in Forms /\ f.lines = fields.lines /\ f.total = fields.total
        /\ f.itemized = fields.itemized
    <3>. HIDE DEF a
    <3>. QED
      BY <1>p, <2>1 DEF Forms
  <2>3. Sale!Edits /\ Sale!Set(f)
    BY <1>7 DEF Sale!ChoosePayment
  <2>. HIDE DEF f
  <2>. QED
    BY <1>p, <2>2, <2>3, EditKeeps DEF GoodForm, Follows
<1>. QED
  BY <1>1, <1>2, <1>3, <1>4, <1>5, <1>6, <1>7

\* The inputs of the lines: the total follows whatever they become.
LEMMA LinesKeep ==
  ASSUME Shop, SaleInv, NEW lines \in Seq(Sale!Lines), Len(lines) \in 1 .. MaxLines,
         Sale!Edits, Sale!Set([fields EXCEPT !.lines = lines])
  PROVE  SaleInv'
<1>. DEFINE f == [fields EXCEPT !.lines = lines]
<1>p. fields \in Forms /\ GoodForm(fields) /\ Follows(fields)
  BY DEF SaleInv, GoodForm
<1>1. f \in Forms /\ f.lines = lines /\ f.total = fields.total /\ f.itemized = fields.itemized
  BY <1>p DEF Forms
<1>2. f.itemized /\ fields.itemized
        /\ Sale!ItemizedTotal(fields.lines) = Sale!ItemizedTotal(f.lines)
        => Fits(f.total, f.lines)
  BY <1>p, <1>1 DEF Follows, Fits
<1>3. GoodForm(f) /\ Sale!Set(f)
  BY <1>1 DEF GoodForm
<1>. HIDE DEF f
<1>. QED
  BY <1>2, <1>3, EditKeeps

\* Adding, removing and editing a line.
LEMMA SaleLinesKeep ==
  ASSUME Shop, SaleInv, Sale!LineEdits \/ Sale!AddLine
  PROVE  SaleInv'
<1>p. fields \in Forms /\ fields.lines \in Seq(Sale!Lines) /\ Len(fields.lines) \in 1 .. MaxLines
  BY DEF SaleInv, GoodForm, Forms
<1>m. MaxLines \in Nat /\ MaxAmount \in Nat /\ MaxAmount >= 1
  BY DEF Shop
<1>. DEFINE old == fields.lines
<1>1. ASSUME NEW i \in DOMAIN old, NEW l \in Sale!Lines,
             Sale!Edits, Sale!Set([fields EXCEPT !.lines = [old EXCEPT ![i] = l]])
      PROVE  SaleInv'
  <2>1. [old EXCEPT ![i] = l] \in Seq(Sale!Lines) /\ Len([old EXCEPT ![i] = l]) = Len(old)
    BY <1>p
  <2>. HIDE DEF old
  <2>. QED
    BY <1>p, <1>1, <2>1, LinesKeep DEF old
<1>2. ASSUME NEW i \in DOMAIN old PROVE old[i] \in Sale!Lines
  BY <1>p
<1>3. ASSUME NEW i \in DOMAIN old, Sale!TypeItem(i) PROVE SaleInv'
  <2>1. [old[i] EXCEPT !.item = "typed"] \in Sale!Lines
    BY <1>2 DEF Sale!Lines
  <2>2. [fields EXCEPT !.lines[i].item = "typed"]
          = [fields EXCEPT !.lines = [old EXCEPT ![i] = [old[i] EXCEPT !.item = "typed"]]]
    OBVIOUS
  <2>. QED
    BY <1>1, <1>3, <2>1, <2>2 DEF Sale!TypeItem
<1>4. ASSUME NEW i \in DOMAIN old, NEW a \in Sale!Amounts, Sale!TypeAmount(i, a) PROVE SaleInv'
  <2>1. [old[i] EXCEPT !.amount = a] \in Sale!Lines
    BY <1>2 DEF Sale!Lines
  <2>2. [fields EXCEPT !.lines[i].amount = a]
          = [fields EXCEPT !.lines = [old EXCEPT ![i] = [old[i] EXCEPT !.amount = a]]]
    OBVIOUS
  <2>. QED
    BY <1>1, <1>4, <2>1, <2>2 DEF Sale!TypeAmount
<1>5. ASSUME NEW i \in DOMAIN old, NEW p \in Products, Sale!SelectProduct(i, p) PROVE SaleInv'
  <2>p. PICK a \in Sale!Amounts : a = Sale!PriceFor(fields.customer)
    BY <1>m DEF Sale!Amounts, Sale!PriceFor
  <2>. DEFINE l == [item |-> p, amount |-> a]
  <2>1. l \in Sale!Lines
    BY DEF Sale!Lines
  <2>2. [fields EXCEPT !.lines[i] = l] = [fields EXCEPT !.lines = [old EXCEPT ![i] = l]]
    OBVIOUS
  <2>. QED
    BY <1>1, <1>5, <2>p, <2>1, <2>2 DEF Sale!SelectProduct
<1>6. ASSUME Sale!AddLine PROVE SaleInv'
  <2>1. Append(old, Sale!NewLine) \in Seq(Sale!Lines)
        /\ Len(Append(old, Sale!NewLine)) \in 1 .. MaxLines
    BY <1>p, <1>m, <1>6, NewLineIsGood DEF Sale!AddLine
  <2>. QED
    BY <1>6, <2>1, LinesKeep DEF Sale!AddLine
<1>7. ASSUME NEW i \in DOMAIN old, Sale!RemoveLine(i) PROVE SaleInv'
  <2>1. Sale!RemoveAt(old, i) \in Seq(Sale!Lines)
        /\ Len(Sale!RemoveAt(old, i)) \in 1 .. MaxLines
    <3>1. PICK n \in Nat : n = Len(old) /\ i \in 1 .. n /\ n > 1 /\ n <= MaxLines
      BY <1>p, <1>m, <1>7 DEF Sale!RemoveLine
    <3>. DEFINE before == SubSeq(old, 1, i - 1)
                after  == SubSeq(old, i + 1, n)
    <3>2. before \in Seq(Sale!Lines) /\ Len(before) = i - 1
      BY <1>p, <3>1
    <3>3. after \in Seq(Sale!Lines) /\ Len(after) = n - i
      BY <1>p, <3>1
    <3>4. Sale!RemoveAt(old, i) = before \o after
      BY <3>1 DEF Sale!RemoveAt
    <3>. HIDE DEF before, after
    <3>. QED
      BY <1>m, <3>1, <3>2, <3>3, <3>4
  <2>. QED
    BY <1>7, <2>1, LinesKeep DEF Sale!RemoveLine
<1>. QED
  BY <1>3, <1>4, <1>5, <1>6, <1>7 DEF Sale!LineEdits

\* The total of a form that can be sent is positive, and so is that of the lines it is
\* sent with; in whole cents they are the same.
LEMMA SentTotal ==
  ASSUME Shop, GoodForm(fields), Follows(fields), Sale!Money(fields.total) # 0
  PROVE  LET amount == Sale!ItemizedTotal(Sale!SaleLines(fields))
         IN  /\ Sale!Money(fields.total) \in Nat /\ Sale!Money(fields.total) > 0
             /\ amount \in Nat /\ amount > 0
             /\ Sale!Rounded(amount) = Sale!Money(fields.total)
<1>1. PICK m \in Nat : m = Sale!Money(fields.total) /\ Sale!Rounded(m) = m /\ m > 0
  <2>1. fields.total \in Totals
    BY DEF GoodForm, Forms
  <2>2. Sale!Money(fields.total) \in Nat
        /\ Sale!Rounded(Sale!Money(fields.total)) = Sale!Money(fields.total)
    BY <2>1, MoneyAmount
  <2>. QED
    BY <2>2
<1>2. CASE fields.itemized
  <2>. DEFINE sent == Sale!SaleLines(fields)
  <2>1. sent = [i \in DOMAIN fields.lines |->
                  [fields.lines[i] EXCEPT !.amount = Sale!Number(fields.lines[i].amount)]]
    BY <1>2 DEF Sale!SaleLines
  <2>2. ASSUME NEW i \in DOMAIN fields.lines
        PROVE  Sale!Number(sent[i].amount) = Sale!Number(fields.lines[i].amount)
    <3>1. fields.lines[i] \in Sale!Lines
      <4>1. fields.lines \in Seq(Sale!Lines)
        BY DEF GoodForm, Forms
      <4>. QED
        BY <4>1
    <3>2. sent[i].amount = Sale!Number(fields.lines[i].amount)
      BY <2>1, <3>1 DEF Sale!Lines
    <3>. QED
      BY <3>1, <3>2 DEF Sale!Number, Sale!Lines, Sale!Amounts, Sale!NaN
  <2>3. DOMAIN sent = DOMAIN fields.lines
    BY <2>1
  <2>. HIDE DEF sent
  <2>4. Sale!ItemizedTotal(sent) = Sale!ItemizedTotal(fields.lines)
    BY <2>2, <2>3, SameTotal
  <2>5. PICK t \in Nat : t = Sale!ItemizedTotal(fields.lines)
    BY GoodTotal DEF GoodForm, Forms
  <2>6. Sale!Rounded(t) = m
    BY <1>1, <1>2, <2>5 DEF Follows, Fits
  <2>7. t # 0
    BY <1>1, <2>6, RoundedAmount
  <2>. QED
    BY <1>1, <2>4, <2>5, <2>6, <2>7 DEF sent
<1>3. CASE ~fields.itemized
  <2>. DEFINE line == [item |-> "typed", amount |-> m]
  <2>1. Sale!SaleLines(fields) = <<line>>
    BY <1>1, <1>3 DEF Sale!SaleLines
  <2>2. Sale!Number(line.amount) = m
    BY <1>1 DEF Sale!Number, Sale!NaN
  <2>. HIDE DEF line
  <2>3. PICK l : l = <<line>> /\ l[1] = line
    <3>1. <<line>>[1] = line
      OBVIOUS
    <3>. QED
      BY <3>1
  <2>4. Sale!ItemizedTotal(l) = Sale!Number(l[1].amount)
    BY <1>1, <2>2, <2>3, TotalOfOne
  <2>. QED
    BY <1>1, <2>1, <2>2, <2>3, <2>4
<1>. QED
  BY <1>1, <1>2, <1>3

\* What is sent agrees with the lines it is sent with.
LEMMA SaleSubmitKeeps ==
  ASSUME Shop, SaleInv, Sale!SubmitValid
  PROVE  SaleInv'
<1>1. Sale!Invalid(fields) = {} /\ GoodForm(fields) /\ Follows(fields)
  BY DEF Sale!SubmitValid, SaleInv
<1>2. Sale!Money(fields.total) # 0
  BY <1>1 DEF Sale!Invalid
<1>3. fields.payment = "pending" =>
        /\ fields.paid # Sale!NaN
        /\ ~(fields.total # Sale!NaN /\ fields.paid >= Sale!Money(fields.total))
  BY <1>1 DEF Sale!Invalid
<1>4. PICK t, a \in Nat : /\ t = Sale!Money(fields.total) /\ t > 0
                         /\ a = Sale!ItemizedTotal(Sale!SaleLines(fields)) /\ a > 0
                         /\ Sale!Rounded(a) = t
  BY <1>1, <1>2, SentTotal
<1>5. fields.payment \in {"paid", "pending"} /\ fields.paid \in Sale!Amounts
  BY <1>1 DEF GoodForm, Forms
<1>n. fields.total # Sale!NaN
  BY <1>2, MoneyAmount DEF Totals
<1>6. Sale!Pending(fields) =
        IF fields.payment = "paid" THEN 0 ELSE t - Sale!Number(fields.paid)
  BY <1>3, <1>4, <1>5, <1>n DEF Sale!Pending, Sale!Number, Sale!NaN, Sale!Amounts
<1>7. PICK pend : pend = Sale!Pending(fields)
  OBVIOUS
<1>8. /\ request'.payment = fields.payment /\ request'.outstanding = pend
      /\ request'.paid = Sale!Number(fields.paid) /\ request'.amount = a
  BY <1>4, <1>7 DEF Sale!SubmitValid
<1>9. Sale!SentAmountsAgree'
  BY <1>4, <1>6, <1>7, <1>8 DEF Sale!SentAmountsAgree
<1>. QED
  BY <1>9 DEF Sale!SubmitValid, SaleInv, GoodForm, Follows

\* The rest of the page sends nothing.
LEMMA SaleRestKeeps ==
  ASSUME Shop, SaleInv,
         Sale!SaveDraft \/ Sale!Refused \/ Sale!Leave \/ UNCHANGED saleVars
  PROVE  SaleInv'
<1>1. CASE Sale!SaveDraft \/ UNCHANGED saleVars
  BY <1>1 DEF Sale!SaveDraft, saleVars, SaleInv, GoodForm, Follows, Sale!SentAmountsAgree
<1>2. CASE Sale!Refused
  <2>1. request'.kind = "none"
    BY <1>2 DEF Sale!Refused, Sale!NoRequest
  <2>. QED
    BY <1>2, <2>1 DEF Sale!Refused, SaleInv, GoodForm, Follows, Sale!SentAmountsAgree
<1>3. CASE Sale!Leave
  <2>1. request'.kind = "none"
    BY <1>3 DEF Sale!Leave, Sale!NoRequest
  <2>2. GoodForm(fields') /\ Follows(fields')
    BY <1>3, EmptyFormIsGood DEF Sale!Leave
  <2>. QED
    BY <1>3, <2>1, <2>2 DEF Sale!Leave, SaleInv, GoodForm, Follows, Sale!SentAmountsAgree
<1>. QED
  BY <1>1, <1>2, <1>3

\* Every step of the page keeps the invariant.
LEMMA SaleNextInv == ASSUME Shop PROVE SaleInv /\ [Sale!Next]_saleVars => SaleInv'
<1>. SUFFICES ASSUME Shop, SaleInv, [Sale!Next]_saleVars
              PROVE  SaleInv'
  OBVIOUS
<1>. QED
  BY SaleOpenKeeps, SaleLoadKeeps, SaleDraftKeeps, SaleInputKeeps, SaleLinesKeep,
     SaleSubmitKeeps, SaleRestKeeps
  DEF Sale!Next, Sale!Step

\* A step of another page leaves this one as it is.
LEMMA SaleSteps == [Next]_vars => [Sale!Next]_saleVars
BY DEF Next, vars, SalePage, LedgerPage, ProductPage, TeamPages, BusinessPage, ReportsPages

\* SentAmountsAgree: what a sale says is still owed is the sum of the lines it is sent
\* with, in whole cents, less what was paid, into however many parts a cent is divided.
\* In whole cents the total of an itemized form is that of its lines at any time - also
\* when the lines come with a draft or the switch is set while the sum stays the same -
\* and one that is typed is sent, rounded, as the only line (parsePositiveMoney, the
\* effect of itemizedTotal and validateForm of TransactionRecordPage).  The lines are
\* not rounded: what is owed may exceed them by up to half a cent.
THEOREM SaleSendsItsLines == Spec => []SentAmountsAgree
<1>1. Init => SaleInv
  BY PagesAssumption, SaleInitInv DEF Init
<1>2. SaleInv /\ [Next]_vars => SaleInv'
  BY PagesAssumption, SaleNextInv, SaleSteps
<1>3. SaleInv => SentAmountsAgree
  BY DEF SaleInv, SentAmountsAgree
<1>. QED
  BY <1>1, <1>2, <1>3, PTL DEF Spec
=============================================================================

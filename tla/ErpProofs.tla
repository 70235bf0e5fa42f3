------------------------------ MODULE ErpProofs ------------------------------
(***************************************************************************)
(* The ERP, for any documents, units, periods and number of requests.      *)
(*                                                                         *)
(* Stock: a unit moves once, a document takes effect once, and stock and   *)
(* ledger part only where it is explained.  What makes up for the reads    *)
(* that nothing locks is that the rows of a confirmation are its own from  *)
(* its flush to its commit.                                                *)
(*                                                                         *)
(* Books: what is closed or finished is left alone but for requests that   *)
(* were under way, and every number sequence is without a gap.  Requests   *)
(* check without a lock and commit later; what makes up for it is, for     *)
(* periods and documents, that those under way are known, and for the      *)
(* numbers, the lock on the row of the sequence.                           *)
(*                                                                         *)
(* Books again: the journal, the documents and the reports tell the same   *)
(* story.  An entry is what it was made from; a document has no more       *)
(* entries than requests can overlap, since it stops being issued once it  *)
(* has one; and an allocation has read a sum that has only grown since.    *)
(* The control accounts follow by adding up the journal document by        *)
(* document, the reports by adding it up account by account.               *)
(***************************************************************************)
EXTENDS Books, Stock, SequenceTheorems, SetLemmas

Fields == {"pc", "op", "doc", "view", "entry"}
EntryFields == {"voucher", "date", "lines", "system", "source", "no", "status", "mirror"}
IsSeq(s) == \E S : s \in Seq(S)

-----------------------------------------------------------------------------
(* What entries add to the accounts *)

LEMMA SumOne ==
    ASSUME NEW x, NEW f, f[x] \in Int
    PROVE  SumFunctionOnSet(f, {x}) = f[x]
<1>1. IsFiniteSet({}) /\ {} \union {x} = {x} /\ \A y \in {} \union {x} : f[y] \in Int
  BY FS_EmptySet
<1>2. SumFunctionOnSet(f, {} \union {x}) = f[x] + SumFunctionOnSet(f, {})
  BY <1>1, SumInsert
<1> QED
  BY <1>1, <1>2, SumEmpty

\* Lines as they are stored.
LinesOK(e) == IsFiniteSet(e.lines) /\ \A l \in e.lines : l.dr \in Nat /\ l.cr \in Nat

\* What an entry adds to the accounts in A.
NetOn(e, A) == TotalDr(LinesOn(e, A)) - TotalCr(LinesOn(e, A))

LEMMA TotalType ==
    ASSUME NEW e, LinesOK(e), NEW A
    PROVE  /\ TotalDr(LinesOn(e, A)) \in Nat /\ TotalCr(LinesOn(e, A)) \in Nat
           /\ NetOn(e, A) \in Int
<1> DEFINE L == LinesOn(e, A)
<1>1. IsFiniteSet(L) /\ \A l \in L : l.dr \in Nat /\ l.cr \in Nat
  BY FS_Subset DEF LinesOK, LinesOn
<1> HIDE DEF L
<1>2. TotalDr(L) \in Nat
  <2> DEFINE f == [l \in L |-> l.dr]
  <2>1. \A l \in L : f[l] \in Nat
    BY <1>1
  <2>2. DOMAIN f = L
    OBVIOUS
  <2> HIDE DEF f
  <2>3. SumFunctionOnSet(f, L) \in Nat
    BY <1>1, <2>1, SumNat
  <2> QED
    BY <2>2, <2>3 DEF TotalDr, SumFunction, f
<1>3. TotalCr(L) \in Nat
  <2> DEFINE f == [l \in L |-> l.cr]
  <2>1. \A l \in L : f[l] \in Nat
    BY <1>1
  <2>2. DOMAIN f = L
    OBVIOUS
  <2> HIDE DEF f
  <2>3. SumFunctionOnSet(f, L) \in Nat
    BY <1>1, <2>1, SumNat
  <2> QED
    BY <2>2, <2>3 DEF TotalCr, SumFunction, f
<1> QED
  BY <1>2, <1>3 DEF L, NetOn

LEMMA TotalOfOne ==
    ASSUME NEW l, l.dr \in Nat, l.cr \in Nat
    PROVE  TotalDr({l}) = l.dr /\ TotalCr({l}) = l.cr
<1>1. TotalDr({l}) = l.dr
  <2> DEFINE f == [k \in {l} |-> k.dr]
  <2>1. f[l] = l.dr /\ DOMAIN f = {l}
    OBVIOUS
  <2> HIDE DEF f
  <2>2. SumFunctionOnSet(f, {l}) = f[l]
    BY <2>1, SumOne
  <2> QED
    BY <2>1, <2>2 DEF TotalDr, SumFunction, f
<1>2. TotalCr({l}) = l.cr
  <2> DEFINE f == [k \in {l} |-> k.cr]
  <2>1. f[l] = l.cr /\ DOMAIN f = {l}
    OBVIOUS
  <2> HIDE DEF f
  <2>2. SumFunctionOnSet(f, {l}) = f[l]
    BY <2>1, SumOne
  <2> QED
    BY <2>1, <2>2 DEF TotalCr, SumFunction, f
<1> QED
  BY <1>1, <1>2

LEMMA TotalOfNone == TotalDr({}) = 0 /\ TotalCr({}) = 0
<1>1. TotalDr({}) = 0
  <2> DEFINE f == [l \in {} |-> l.dr]
  <2>1. DOMAIN f = {}
    OBVIOUS
  <2> HIDE DEF f
  <2> QED
    BY <2>1, SumEmpty DEF TotalDr, SumFunction, f
<1>2. TotalCr({}) = 0
  <2> DEFINE f == [l \in {} |-> l.cr]
  <2>1. DOMAIN f = {}
    OBVIOUS
  <2> HIDE DEF f
  <2> QED
    BY <2>1, SumEmpty DEF TotalCr, SumFunction, f
<1> QED
  BY <1>1, <1>2

IsPair(e, x, y, v) == e.lines = {Dr(x, v), Cr(y, v)}

\* An entry of two lines moves its amount from one account to the other.
LEMMA PairNet ==
    ASSUME NEW e, NEW x, NEW y, x # y, NEW v \in Nat, IsPair(e, x, y, v)
    PROVE  LinesOK(e) /\ \A a : NetOn(e, {a}) = IF a = x THEN v ELSE IF a = y THEN -v ELSE 0
<1> SUFFICES ASSUME NEW a PROVE LinesOK(e) /\ NetOn(e, {a}) = IF a = x THEN v ELSE IF a = y THEN -v ELSE 0
  OBVIOUS
<1>1. /\ Dr(x, v).account = x /\ Dr(x, v).dr = v /\ Dr(x, v).cr = 0
      /\ Cr(y, v).account = y /\ Cr(y, v).dr = 0 /\ Cr(y, v).cr = v
  BY DEF Dr, Cr
<1>2. LinesOK(e)
  <2>1. IsFiniteSet({Dr(x, v)})
    BY FS_Singleton
  <2>2. IsFiniteSet({Dr(x, v)} \union {Cr(y, v)})
    BY <2>1, FS_AddElement
  <2>3. e.lines = {Dr(x, v)} \union {Cr(y, v)}
    BY DEF IsPair
  <2> QED
    BY <1>1, <2>2, <2>3 DEF LinesOK
<1>3. CASE a = x
  <2>1. LinesOn(e, {a}) = {Dr(x, v)}
    BY <1>1, <1>3 DEF LinesOn, IsPair
  <2>2. TotalDr({Dr(x, v)}) = v /\ TotalCr({Dr(x, v)}) = 0
    BY <1>1, TotalOfOne
  <2> QED
    BY <1>2, <1>3, <2>1, <2>2 DEF NetOn
<1>4. CASE a = y
  <2>1. LinesOn(e, {a}) = {Cr(y, v)}
    BY <1>1, <1>4 DEF LinesOn, IsPair
  <2>2. TotalDr({Cr(y, v)}) = 0 /\ TotalCr({Cr(y, v)}) = v
    BY <1>1, TotalOfOne
  <2> QED
    BY <1>2, <1>4, <2>1, <2>2 DEF NetOn
<1>5. CASE a # x /\ a # y
  <2>1. LinesOn(e, {a}) = {}
    BY <1>1, <1>5 DEF LinesOn, IsPair
  <2> QED
    BY <1>2, <1>5, <2>1, TotalOfNone DEF NetOn
<1> QED
  BY <1>3, <1>4, <1>5

PostedIn(j) == {i \in DOMAIN j : j[i].status = "posted"}
DebitsIn(j, A) == [i \in DOMAIN j |-> TotalDr(LinesOn(j[i], A))]
CreditsIn(j, A) == [i \in DOMAIN j |-> TotalCr(LinesOn(j[i], A))]
BalanceIn(j, A) ==
    SumFunctionOnSet(DebitsIn(j, A), PostedIn(j)) - SumFunctionOnSet(CreditsIn(j, A), PostedIn(j))

LEMMA BalanceIs == \A a : Balance(a) = BalanceIn(journal, {a})
BY DEF Balance, sum_by_account, LineSums, PostedEntries, BalanceIn, DebitsIn, CreditsIn, PostedIn

\* Appending puts an entry at the end.
LEMMA AppendIs ==
    ASSUME NEW j, IsSeq(j), NEW e
    PROVE  /\ IsSeq(Append(j, e)) /\ Len(j) \in Nat /\ Len(Append(j, e)) = Len(j) + 1
           /\ DOMAIN j = 1 .. Len(j) /\ DOMAIN Append(j, e) = 1 .. Len(j) + 1
           /\ \A i \in 1 .. Len(j) : Append(j, e)[i] = j[i]
           /\ Append(j, e)[Len(j) + 1] = e
<1>1. PICK T : j \in Seq(T)
  BY DEF IsSeq
<1>2. Len(j) \in Nat /\ DOMAIN j = 1 .. Len(j)
  BY <1>1, LenProperties
<1>3. j \in Seq(T \union {e})
  BY <1>1, SeqMonotonic
<1>4. /\ Append(j, e) \in Seq(T \union {e})
      /\ Len(Append(j, e)) = Len(j) + 1
      /\ \A i \in 1 .. Len(j) : Append(j, e)[i] = j[i]
      /\ Append(j, e)[Len(j) + 1] = e
  BY <1>3, AppendProperties
<1>5. DOMAIN Append(j, e) = 1 .. Len(Append(j, e))
  BY <1>4, LenProperties
<1> QED
  BY <1>2, <1>4, <1>5 DEF IsSeq

LEMMA SeqLength ==
    ASSUME NEW j, IsSeq(j)
    PROVE  Len(j) \in Nat /\ DOMAIN j = 1 .. Len(j)
<1>1. PICK T : j \in Seq(T)
  BY DEF IsSeq
<1> QED
  BY <1>1, LenProperties

AllLinesOK(j) == \A i \in DOMAIN j : LinesOK(j[i])

LEMMA BalanceType ==
    ASSUME NEW j, IsSeq(j), AllLinesOK(j), NEW A
    PROVE  BalanceIn(j, A) \in Int
<1>1. Len(j) \in Nat /\ DOMAIN j = 1 .. Len(j)
  BY SeqLength
<1>2. IsFiniteSet(PostedIn(j))
  <2>1. IsFiniteSet(DOMAIN j)
    BY <1>1, FS_Interval
  <2>2. PostedIn(j) \subseteq DOMAIN j
    BY DEF PostedIn
  <2> QED
    BY <2>1, <2>2, FS_Subset
<1>3. \A i \in PostedIn(j) : DebitsIn(j, A)[i] \in Int /\ CreditsIn(j, A)[i] \in Int
  BY TotalType DEF AllLinesOK, PostedIn, DebitsIn, CreditsIn
<1>4. /\ SumFunctionOnSet(DebitsIn(j, A), PostedIn(j)) \in Int
      /\ SumFunctionOnSet(CreditsIn(j, A), PostedIn(j)) \in Int
  BY <1>2, <1>3, SumType
<1> QED
  BY <1>4 DEF BalanceIn

\* An entry that is appended adds what it has on the accounts.
LEMMA BalanceAppend ==
    ASSUME NEW j, IsSeq(j), AllLinesOK(j), NEW e, LinesOK(e), e.status = "posted", NEW A
    PROVE  BalanceIn(Append(j, e), A) = BalanceIn(j, A) + NetOn(e, A)
<1> DEFINE n == Len(j)
           k == Append(j, e)
           U == 1 .. n + 1
           S == PostedIn(j)
           T == PostedIn(k)
<1>1. /\ n \in Nat /\ DOMAIN j = 1 .. n /\ DOMAIN k = U
      /\ \A i \in 1 .. n : k[i] = j[i]
      /\ k[n + 1] = e
  BY AppendIs
<1> HIDE DEF n, k
<1>2. IsFiniteSet(U) /\ S \in SUBSET U /\ T \in SUBSET U /\ n + 1 \in U
  <2>1. IsFiniteSet(U)
    BY <1>1, FS_Interval
  <2>2. 1 .. n \subseteq U /\ n + 1 \in U
    BY <1>1
  <2> QED
    BY <1>1, <2>1, <2>2 DEF PostedIn
<1>3. \A i \in U \ {n + 1} : (i \in S <=> i \in T) /\ (i \in S => k[i] = j[i])
  BY <1>1 DEF PostedIn
<1>4. n + 1 \notin S /\ n + 1 \in T
  BY <1>1 DEF PostedIn
<1>5. /\ \A i \in S : DebitsIn(j, A)[i] = TotalDr(LinesOn(j[i], A)) /\ CreditsIn(j, A)[i] = TotalCr(LinesOn(j[i], A))
      /\ \A i \in T : DebitsIn(k, A)[i] = TotalDr(LinesOn(k[i], A)) /\ CreditsIn(k, A)[i] = TotalCr(LinesOn(k[i], A))
  BY DEF PostedIn, DebitsIn, CreditsIn
<1>6. \A i \in S : LinesOK(j[i])
  BY DEF AllLinesOK, PostedIn
<1>7. \A i \in T : LinesOK(k[i])
  BY <1>1, <1>2, <1>3, <1>6
<1>8. /\ \A i \in S : DebitsIn(j, A)[i] \in Int /\ CreditsIn(j, A)[i] \in Int
      /\ \A i \in T : DebitsIn(k, A)[i] \in Int /\ CreditsIn(k, A)[i] \in Int
  BY <1>5, <1>6, <1>7, TotalType
<1>9. IsFiniteSet(S) /\ IsFiniteSet(T)
  BY <1>2, FS_Subset
<1> HIDE DEF S, T, U
<1>10. SumFunctionOnSet(DebitsIn(k, A), T) = SumFunctionOnSet(DebitsIn(j, A), S) + TotalDr(LinesOn(e, A))
  <2> DEFINE f == DebitsIn(j, A)
             h == DebitsIn(k, A)
  <2>1. \A i \in U \ {n + 1} : (i \in S <=> i \in T) /\ (i \in S => f[i] = h[i])
    BY <1>3, <1>5
  <2>2. /\ \A i \in S : f[i] \in Int
        /\ \A i \in T : h[i] \in Int
    BY <1>8
  <2>3. h[n + 1] = TotalDr(LinesOn(e, A))
    BY <1>1, <1>4, <1>5
  <2> HIDE DEF f, h
  <2> DEFINE m == n + 1
  <2>4. m \in U /\ \A i \in U \ {m} : (i \in S <=> i \in T) /\ (i \in S => f[i] = h[i])
    BY <1>2, <2>1
  <2> HIDE DEF m
  <2>5. SumFunctionOnSet(h, T) + Share(m \in S, f[m])
            = SumFunctionOnSet(f, S) + Share(m \in T, h[m])
    BY <1>2, <2>4, <2>2, SumStep
  <2>6. Share(m \in S, f[m]) = 0 /\ Share(m \in T, h[m]) = h[m]
    BY <1>4 DEF Share, m
  <2>7. SumFunctionOnSet(h, T) \in Int /\ SumFunctionOnSet(f, S) \in Int
    BY <1>9, <2>2, SumType
  <2> QED
    BY <2>3, <2>5, <2>6, <2>7 DEF f, h, m
<1>11. SumFunctionOnSet(CreditsIn(k, A), T) = SumFunctionOnSet(CreditsIn(j, A), S) + TotalCr(LinesOn(e, A))
  <2> DEFINE f == CreditsIn(j, A)
             h == CreditsIn(k, A)
  <2>1. \A i \in U \ {n + 1} : (i \in S <=> i \in T) /\ (i \in S => f[i] = h[i])
    BY <1>3, <1>5
  <2>2. /\ \A i \in S : f[i] \in Int
        /\ \A i \in T : h[i] \in Int
    BY <1>8
  <2>3. h[n + 1] = TotalCr(LinesOn(e, A))
    BY <1>1, <1>4, <1>5
  <2> HIDE DEF f, h
  <2> DEFINE m == n + 1
  <2>4. m \in U /\ \A i \in U \ {m} : (i \in S <=> i \in T) /\ (i \in S => f[i] = h[i])
    BY <1>2, <2>1
  <2> HIDE DEF m
  <2>5. SumFunctionOnSet(h, T) + Share(m \in S, f[m])
            = SumFunctionOnSet(f, S) + Share(m \in T, h[m])
    BY <1>2, <2>4, <2>2, SumStep
  <2>6. Share(m \in S, f[m]) = 0 /\ Share(m \in T, h[m]) = h[m]
    BY <1>4 DEF Share, m
  <2>7. SumFunctionOnSet(h, T) \in Int /\ SumFunctionOnSet(f, S) \in Int
    BY <1>9, <2>2, SumType
  <2> QED
    BY <2>3, <2>5, <2>6, <2>7 DEF f, h, m
<1>12. SumFunctionOnSet(DebitsIn(j, A), S) \in Int /\ SumFunctionOnSet(CreditsIn(j, A), S) \in Int
  BY <1>8, <1>9, SumType
<1>13. TotalDr(LinesOn(e, A)) \in Int /\ TotalCr(LinesOn(e, A)) \in Int
  BY TotalType
<1> QED
  BY <1>10, <1>11, <1>12, <1>13 DEF BalanceIn, NetOn, S, T, k
-----------------------------------------------------------------------------
(* The inductive invariant of Stock *)

Busy == {"accepted", "numbered", "unposted", "covered", "uncovered"}

\* What a confirmation or an adjustment books.
Booking(d) ==
    IF d \in Receipts THEN {Dr("1200", Value(d)), Cr("2200", Value(d))}
    ELSE IF d \in Dispatches THEN {Dr("5100", Value(d)), Cr("1200", Value(d))}
    ELSE {Dr("5200", 1), Cr("1200", 1)}

VoucherOK(row) ==
    /\ DOMAIN row.entry = EntryFields
    /\ row.entry.voucher = "journal_entry" /\ row.entry.date \in Periods
    /\ row.entry.status = "posted" /\ row.entry.mirror = 0
    /\ row.entry.source = row.doc /\ row.entry.lines = Booking(row.doc)
    /\ row.pc = "numbered" => row.entry.no \in Nat \ {0}

\* What a request can be doing.
RowOK(row) ==
    /\ DOMAIN row = Fields /\ row.view \in Int
    /\ \/ row = Idle
       \/ row.op = "open" /\ row.pc = "begun" /\ row.doc \in Orders
       \/ row.op = "confirm" /\ row.pc \in {"begun"} \union Busy /\ row.doc \in Documents
       \/ row.op = "confirm" /\ row.pc = "read" /\ row.doc \in Receipts
       \/ /\ row.op \in {"found", "lost"} /\ row.pc \in {"read", "accepted", "numbered", "unposted"}
          /\ row.doc = None
    /\ row.pc \in {"accepted", "numbered"} => VoucherOK(row)

Rows == DOMAIN request = Requests /\ \A r \in Requests : RowOK(request[r])

\* A row of the database is written by one transaction at a time.
Exclusive == \A r, q \in Requests : r # q => Locked(r) \cap Locked(q) = {}

\* What a confirmation has read under its locks is still so.
Held(r) ==
    request[r].op = "confirm" /\ request[r].pc \in Busy =>
        /\ request[r].doc \in Receipts =>
              \A s \in Lines[request[r].doc].serials : unit[s] = "NONE"
        /\ request[r].doc \in Dispatches =>
              /\ \A s \in Lines[request[r].doc].serials : unit[s] = "IN_STOCK"
              /\ Qty(request[r].doc) > 0 =>
                    /\ request[r].view = bal
                    /\ \A i \in DOMAIN Lines[request[r].doc].bulk :
                          bal >= Lines[request[r].doc].bulk[i]

TwoLines == \E d \in Dispatches : confirms[d] > 0 /\ Len(Lines[d].bulk) > 1

\* What was read of the balance before any lock, it was at some time.
LookedAt(r) ==
    /\ request[r].view < 0 => TwoLines
    /\ request[r].op = "lost" => request[r].view >= 1

\* A confirmation that found its order covered will not find it less so.
SeenCovered(r) ==
    request[r].op = "confirm" /\ request[r].pc = "covered" =>
        /\ Lines[request[r].doc].order # None
        /\ Covered(Lines[request[r].doc].order, request[r].doc)

Confirming(d) == {r \in Requests : request[r].op = "confirm" /\ request[r].doc = d}

DocumentOK(d) ==
    /\ doc[d] # "confirmed" => confirms[d] = 0
    /\ confirms[d] > 0 => \A s \in Lines[d].serials :
                             IF d \in Receipts THEN unit[s] # "NONE" ELSE unit[s] = "SOLD"
    /\ confirms[d] + Cardinality(Confirming(d)) <= Cardinality(Requests)

\* Units that are in the warehouse or under way, and what is booked for them.
OnHand == {s \in Serials : unit[s] \in {"IN_STOCK", "IN_TRANSIT"}}
ValueTies == Cardinality(OnHand) + moved = Balance("1200") + unposted + 2 * gained + Miscounted

JournalOK ==
    /\ IsSeq(journal) /\ AllLinesOK(journal)
    /\ \A i \in DOMAIN journal : journal[i].status = "posted"

StockInv ==
    /\ StockTypeOK /\ Rows /\ JournalOK /\ Exclusive
    /\ \A r \in Requests : Held(r) /\ LookedAt(r) /\ SeenCovered(r)
    /\ \A d \in Documents : DocumentOK(d)
    /\ UnitsMoveOnce /\ PostedOncePerOverlap
    /\ CoveredIsDone /\ BalanceIsSum /\ NeverNegative /\ ValueTies

-----------------------------------------------------------------------------
(* Quantities *)

LEMMA QtyType ==
    ASSUME NEW d \in Documents
    PROVE  /\ Qty(d) \in Nat /\ Value(d) \in Nat /\ IsFiniteSet(Lines[d].serials)
           /\ Cardinality(Lines[d].serials) \in Nat
           /\ Lines[d].qty \in Nat
           /\ Value(d) = Qty(d) + IF d \in Receipts THEN Lines[d].qty ELSE Cardinality(Lines[d].serials)
           /\ Len(Lines[d].bulk) = 0 => Qty(d) = 0
           /\ Len(Lines[d].bulk) = 1 => 1 \in DOMAIN Lines[d].bulk /\ Qty(d) = Lines[d].bulk[1]
           /\ Len(Lines[d].bulk) \in Nat
<1> DEFINE b == Lines[d].bulk
<1>1. /\ b \in Seq(Nat \ {0}) /\ Lines[d].serials \subseteq Serials /\ IsFiniteSet(Serials)
      /\ Lines[d].qty \in Nat
  BY StockAssumption DEF Documents
<1>2. Len(b) \in Nat /\ DOMAIN b = 1 .. Len(b) /\ \A i \in DOMAIN b : b[i] \in Nat
  BY <1>1, LenProperties, ElementOfSeq
<1>3. IsFiniteSet(DOMAIN b)
  BY <1>2, FS_Interval
<1> HIDE DEF b
<1>4. SumFunctionOnSet(b, DOMAIN b) \in Nat
  BY <1>2, <1>3, SumNat
<1>5. Qty(d) = SumFunctionOnSet(b, DOMAIN b)
  BY DEF Qty, SumFunction, b
<1>6. IsFiniteSet(Lines[d].serials) /\ Cardinality(Lines[d].serials) \in Nat
  BY <1>1, CountType
<1>7. ASSUME Len(b) = 0 PROVE Qty(d) = 0
  <2>1. DOMAIN b = {}
    BY <1>2, <1>7
  <2> QED
    BY <1>5, <2>1, SumEmpty
<1>8. ASSUME Len(b) = 1 PROVE 1 \in DOMAIN b /\ Qty(d) = b[1]
  <2>1. DOMAIN b = {1} /\ b[1] \in Int
    BY <1>2, <1>8
  <2> QED
    BY <1>5, <2>1, SumOne
<1> QED
  BY <1>1, <1>2, <1>4, <1>5, <1>6, <1>7, <1>8 DEF b, Value

LEMMA BroughtMore ==
    ASSUME NEW T \in SUBSET Documents, NEW S \in SUBSET T
    PROVE  Brought(S) \in Nat /\ Brought(T) \in Nat /\ Brought(S) <= Brought(T)
<1> DEFINE f == [d \in Documents |-> Qty(d)]
<1>1. IsFiniteSet(Documents)
  BY StockAssumption, FS_Union DEF Documents
<1>2. IsFiniteSet(T) /\ IsFiniteSet(S) /\ S \in SUBSET T
  BY <1>1, FS_Subset
<1>3. \A x \in T : f[x] \in Nat
  BY QtyType
<1>4. \A x \in S : f[x] \in Nat
  BY <1>3
<1> HIDE DEF f
<1>5. /\ SumFunctionOnSet(f, S) <= SumFunctionOnSet(f, T)
      /\ SumFunctionOnSet(f, S) \in Nat /\ SumFunctionOnSet(f, T) \in Nat
  BY <1>2, <1>3, <1>4, SumMore, SumNat
<1> QED
  BY <1>5 DEF Brought, f

-----------------------------------------------------------------------------
(* What the steps of Stock do, seen from the invariant *)

Counters ==
    /\ period \in [Periods -> {"open", "closed"}] /\ stragglers \in [Periods -> SUBSET Requests]
    /\ sequence \in [DocTypes -> Nat] /\ holder \in [DocTypes -> Requests \union {None}]
    /\ requests \in 0 .. MaxRequests /\ periodMoves \in 0 .. MaxPeriodMoves
    /\ adjustments \in 0 .. MaxAdjustments

\* A request goes on, or gives up: nothing but its row changes.
RowMoves(r) ==
    /\ request' = [request EXCEPT ![r] = request'[r]]
    /\ RowOK(request'[r])
    /\ Locked(r)' = {} \/ Locked(r)' = Locked(r) \/ Free(r, Locked(r)')
    /\ Held(r)' /\ LookedAt(r)' /\ SeenCovered(r)'
    /\ request'[r].op = "confirm" =>
          \/ doc[request'[r].doc] # "confirmed"
          \/ request[r].op = "confirm" /\ request[r].doc = request'[r].doc
    /\ UNCHANGED <<journal, order, doc, unit, bal, arrived, sold, moved, confirms,
                   unposted, gained, overtaken, missed>>

\* The confirmation of d commits, with or without an entry.
Takes(r, d, completes, posted) ==
    /\ request[r].op = "confirm" /\ request[r].pc \in Busy /\ request[r].doc = d /\ d \in Documents
    /\ completes => Lines[d].order # None /\ Covered(Lines[d].order, d)
    /\ IF posted THEN request[r].pc = "numbered" /\ journal' = Append(journal, request[r].entry)
                 ELSE UNCHANGED journal
    /\ Confirmed(r, d, completes, posted)

\* So does an adjustment.
Settles(r, posted) ==
    /\ request[r].op \in {"found", "lost"} /\ request[r].doc = None
    /\ request[r].pc \in {"numbered", "unposted"}
    /\ IF posted THEN request[r].pc = "numbered" /\ journal' = Append(journal, request[r].entry)
                 ELSE UNCHANGED journal
    /\ bal' = request[r].view + Sign(r) /\ moved' = moved + Sign(r)
    /\ overtaken' = (overtaken \/ request[r].view # bal)
    /\ unposted' = IF posted THEN unposted ELSE unposted + Sign(r)
    /\ gained' = IF posted /\ Sign(r) = 1 THEN gained + 1 ELSE gained
    /\ Respond(r)
    /\ UNCHANGED <<order, doc, unit, arrived, sold, confirms, missed>>

\* An order opens; an order or a document is created.
OrderOpens(r) ==
    /\ request[r].op = "open" /\ request[r].doc \in Orders
    /\ order' = [order EXCEPT ![request[r].doc] = "open"]
    /\ missed \subseteq missed' /\ missed' \subseteq missed \union {request[r].doc}
    /\ ConfirmedFor(request[r].doc) # {} => request[r].doc \in missed'
    /\ Respond(r)
    /\ UNCHANGED <<journal, doc, unit, bal, arrived, sold, moved, confirms, unposted,
                   gained, overtaken>>

OrderDrafted(o) ==
    /\ o \in Orders /\ order[o] = "none" /\ order' = [order EXCEPT ![o] = "draft"]
    /\ UNCHANGED <<journal, request, doc, unit, bal, arrived, sold, moved, confirms, unposted,
                   gained, overtaken, missed>>

DocumentCreated(d) ==
    /\ d \in Documents /\ doc[d] = "none" /\ doc' = [doc EXCEPT ![d] = "draft"]
    /\ UNCHANGED <<journal, request, order, unit, bal, arrived, sold, moved, confirms, unposted,
                   gained, overtaken, missed>>

\* A unit leaves.
UnitMoves(r, s) ==
    /\ Free(r, {s}) /\ request[r].pc = "idle" /\ s \in Serials
    /\ unit[s] = "IN_STOCK" /\ unit' = [unit EXCEPT ![s] = "IN_TRANSIT"]
    /\ UNCHANGED <<journal, request, order, doc, bal, arrived, sold, moved, confirms, unposted,
                   gained, overtaken, missed>>

Nothing ==
    UNCHANGED <<journal, request, order, doc, unit, bal, arrived, sold, moved, confirms, unposted,
                gained, overtaken, missed>>

StockStep ==
    \/ \E r \in Requests : \/ RowMoves(r) \/ OrderOpens(r)
                           \/ \E d \in Documents, c, p \in BOOLEAN : Takes(r, d, c, p)
                           \/ \E p \in BOOLEAN : Settles(r, p)
                           \/ \E s \in Serials : UnitMoves(r, s)
    \/ \E o \in Orders : OrderDrafted(o)
    \/ \E d \in Documents : DocumentCreated(d)
    \/ Nothing

LEMMA LockedIs ==
    ASSUME NEW r \in Requests
    PROVE  /\ request[r].pc \notin Busy => Locked(r) = {}
           /\ request[r].pc \in Busy /\ request[r].doc \in Documents => Locked(r) = RowsOf(request[r].doc)
           /\ request[r].pc \in Busy /\ request[r].doc \notin Documents => Locked(r) = {"balance"}
BY DEF Locked, Busy

LEMMA IdleIs ==
    /\ DOMAIN Idle = Fields /\ Idle.pc = "idle" /\ Idle.op = "none" /\ Idle.doc = None
    /\ Idle.view = 0 /\ Idle.entry = None /\ RowOK(Idle)
BY DEF Idle, Fields, RowOK

-----------------------------------------------------------------------------
(* Each action is one of these steps *)

LEMMA CountersStep ==
    ASSUME Counters, Rows, [StockNext]_stockVars
    PROVE  Counters'
<1> USE DEF Counters
<1>1. ASSUME NEW r \in Requests, holder' = Release(r) PROVE holder' \in [DocTypes -> Requests \union {None}]
  BY <1>1 DEF Release
<1>2. ASSUME NEW r \in Requests, request[r].pc = "numbered",
             sequence' = [sequence EXCEPT ![request[r].entry.voucher] = @ + 1]
      PROVE  sequence' \in [DocTypes -> Nat]
  <2> DEFINE v == request[r].entry.voucher
  <2>1. sequence' = [sequence EXCEPT ![v] = sequence[v] + 1]
    BY <1>2
  <2> HIDE DEF v
  <2>2. ASSUME NEW w \in DocTypes
        PROVE  sequence'[w] = IF w = v THEN sequence[w] + 1 ELSE sequence[w]
    BY <2>1
  <2>3. \A w \in DocTypes : sequence'[w] \in Nat
    BY <2>2
  <2>4. sequence' = [w \in DocTypes |-> sequence'[w]]
    BY <2>1
  <2> QED
    BY <2>3, <2>4
<1>3. ASSUME NEW o \in Orders, CreatePO(o) \/ CreateSO(o) PROVE Counters'
  BY <1>3 DEF CreatePO, CreateSO, Draft, ledger
<1>4. ASSUME NEW d \in Documents, CreateGRN(d) \/ CreateDispatch(d) PROVE Counters'
  BY <1>4 DEF CreateGRN, CreateDispatch, CreateDocument, ledger
<1>5. ASSUME NEW r \in Requests, NEW o \in Orders, IssuePO(r, o) \/ ConfirmSO(r, o) PROVE Counters'
  BY <1>5, LedgerAssumption DEF IssuePO, ConfirmSO, Enter, ledger, stock
<1>6. ASSUME NEW r \in Requests, NEW d \in Documents, Confirm(r, d) PROVE Counters'
  BY <1>6, LedgerAssumption DEF Confirm, Enter, ledger, stock
<1>7. ASSUME NEW r \in Requests, CommitOpenOrder(r) PROVE Counters'
  BY <1>7 DEF CommitOpenOrder, ledger
<1>8. ASSUME NEW r \in Requests, ReadBalance(r) \/ Receive(r) \/ Pick(r) \/ CheckOrder(r) PROVE Counters'
  BY <1>8 DEF ReadBalance, Receive, Pick, CheckOrder, ledger, stock
<1>9. ASSUME NEW r \in Requests, CommitConfirmation(r) PROVE Counters'
  BY <1>1, <1>2, <1>9 DEF CommitConfirmation, Posted, Confirmed, At
<1>10. ASSUME NEW r \in Requests, CommitUnposted(r) PROVE Counters'
  BY <1>10 DEF CommitUnposted, Confirmed, ledger
<1>11. ASSUME NEW r \in Requests, NEW op \in {"found", "lost"}, Adjust(r, op) PROVE Counters'
  BY <1>11, LedgerAssumption, StockAssumption DEF Adjust, Enter, ledger
<1>12. ASSUME NEW r \in Requests, NEW p \in Periods, WriteAdjustment(r, p) PROVE Counters'
  BY <1>12 DEF WriteAdjustment, ledger, stock
<1>13. ASSUME NEW r \in Requests, CommitAdjustment(r) PROVE Counters'
  BY <1>1, <1>2, <1>13 DEF CommitAdjustment, Posted
<1>14. ASSUME NEW r \in Requests, NEW s \in Serials, Transfer(r, s) PROVE Counters'
  BY <1>14, LedgerAssumption DEF Transfer, ledger
<1>15. ASSUME NEW r \in Requests, NextEntryNo(r), UNCHANGED stock PROVE Counters'
  BY <1>15 DEF NextEntryNo, stock
<1>16. ASSUME NEW r \in Requests, Rollback(r), UNCHANGED stock PROVE Counters'
  BY <1>1, <1>16 DEF Rollback, stock
<1>17. ASSUME NEW p \in Periods, ClosePeriod(p), UNCHANGED stock PROVE Counters'
  <2>1. Passed(p) \in SUBSET Requests
    BY DEF Passed
  <2> QED
    BY <1>17, <2>1, LedgerAssumption DEF ClosePeriod, stock
<1>18. ASSUME NEW p \in Periods, ReopenPeriod(p), UNCHANGED stock PROVE Counters'
  BY <1>18, LedgerAssumption DEF ReopenPeriod, stock
<1>19. ASSUME UNCHANGED stockVars PROVE Counters'
  BY <1>19 DEF stockVars, ledger, stock
<1> QED
  BY <1>3, <1>4, <1>5, <1>6, <1>7, <1>8, <1>9, <1>10, <1>11, <1>12, <1>13, <1>14, <1>15, <1>16,
     <1>17, <1>18, <1>19 DEF StockNext

\* A request that holds no locks yet.
LEMMA Entering ==
    ASSUME Rows, NEW r \in Requests, NEW pc, pc \in {"begun", "read"}, NEW op, NEW d, NEW v \in Int,
           request' = [request EXCEPT ![r] =
                          [pc |-> pc, op |-> op, doc |-> d, view |-> v, entry |-> None]],
           \/ op = "open" /\ pc = "begun" /\ d \in Orders
           \/ op = "confirm" /\ pc = "begun" /\ d \in Documents /\ doc[d] # "confirmed"
           \/ op \in {"found", "lost"} /\ pc = "read" /\ d = None,
           v < 0 => TwoLines', op = "lost" => v >= 1,
           UNCHANGED <<journal, order, doc, unit, bal, arrived, sold, moved, confirms,
                       unposted, gained, overtaken, missed>>
    PROVE  RowMoves(r)
<1> DEFINE row == [pc |-> pc, op |-> op, doc |-> d, view |-> v, entry |-> None]
<1>1. request'[r] = row
  BY DEF Rows
<1>2. /\ DOMAIN row = Fields /\ row.pc = pc /\ row.op = op /\ row.doc = d /\ row.view = v
  BY DEF Fields
<1> HIDE DEF row
<1>3. request' = [request EXCEPT ![r] = request'[r]]
  BY <1>1 DEF row
<1>4. pc \notin Busy
  BY DEF Busy
<1>5. RowOK(row)
  BY <1>2, <1>4 DEF RowOK, Busy
<1>6. Locked(r)' = {}
  BY <1>1, <1>2, <1>4 DEF Locked, Busy
<1>7. Held(r)' /\ LookedAt(r)' /\ SeenCovered(r)'
  BY <1>1, <1>2, <1>4 DEF Held, LookedAt, SeenCovered
<1> QED
  BY <1>1, <1>2, <1>3, <1>5, <1>6, <1>7 DEF RowMoves

LEMMA GivingUp ==
    ASSUME Rows, NEW r \in Requests, Respond(r),
           UNCHANGED <<journal, order, doc, unit, bal, arrived, sold, moved, confirms,
                       unposted, gained, overtaken, missed>>
    PROVE  RowMoves(r)
<1>1. request' = [request EXCEPT ![r] = Idle] /\ request'[r] = Idle
  BY DEF Rows, Respond
<1>2. Locked(r)' = {}
  BY <1>1, IdleIs DEF Locked
<1>3. Held(r)' /\ LookedAt(r)' /\ SeenCovered(r)'
  BY <1>1, IdleIs DEF Held, LookedAt, SeenCovered
<1> QED
  BY <1>1, <1>2, <1>3, IdleIs DEF RowMoves

\* The row after the bridge has been called.
Emitted(r, e, v) ==
    /\ request' = [request EXCEPT ![r] = request'[r]]
    /\ DOMAIN request'[r] = Fields
    /\ request'[r].pc \in {"accepted", "unposted"}
    /\ request'[r].op = request[r].op /\ request'[r].doc = request[r].doc
    /\ request'[r].view = v
    /\ request'[r].pc = "accepted" => request'[r].entry = e

LEMMA EmitRow ==
    ASSUME Rows, NEW r \in Requests, NEW e, NEW v, Emit(r, e, v)
    PROVE  Emitted(r, e, v)
<1>1. DOMAIN request[r] = Fields /\ r \in DOMAIN request
  BY DEF Rows, RowOK
<1> DEFINE pc == IF Acceptable(e) THEN "accepted" ELSE "unposted"
           en == IF Acceptable(e) THEN e ELSE None
<1>2. request' = [request EXCEPT ![r].pc = pc, ![r].entry = en, ![r].view = v]
  BY DEF Emit
<1>3. pc \in {"accepted", "unposted"} /\ (pc = "accepted" => en = e)
  OBVIOUS
<1> HIDE DEF pc, en
<1>4. /\ DOMAIN request'[r] = Fields /\ request'[r].pc = pc /\ request'[r].entry = en
      /\ request'[r].op = request[r].op /\ request'[r].doc = request[r].doc /\ request'[r].view = v
  BY <1>1, <1>2 DEF Fields
<1>5. request' = [request EXCEPT ![r] = request'[r]]
  BY <1>1, <1>2
<1> QED
  BY <1>3, <1>4, <1>5 DEF Emitted

LEMMA Emitting ==
    ASSUME Rows, NEW r \in Requests, NEW e, NEW v \in Int, Emit(r, e, v),
           \/ request[r].op = "confirm" /\ request[r].doc \in Documents
           \/ request[r].op \in {"found", "lost"} /\ request[r].doc = None,
           NEW date \in Periods,
           e = Entry("journal_entry", date, Booking(request[r].doc), TRUE, request[r].doc),
           Free(r, Locked(r)'), Held(r)', v < 0 => TwoLines', request[r].op = "lost" => v >= 1,
           UNCHANGED <<journal, order, doc, unit, bal, arrived, sold, moved, confirms,
                       unposted, gained, overtaken, missed>>
    PROVE  RowMoves(r)
<1>1. /\ request' = [request EXCEPT ![r] = request'[r]]
      /\ DOMAIN request'[r] = Fields
      /\ request'[r].pc \in {"accepted", "unposted"}
      /\ request'[r].op = request[r].op /\ request'[r].doc = request[r].doc
      /\ request'[r].view = v
      /\ request'[r].pc = "accepted" => request'[r].entry = e
  <2>1. Emitted(r, e, v)
    BY EmitRow, Zenon
  <2> QED
    BY <2>1 DEF Emitted
<1> DEFINE row == request'[r]
<1>2. /\ DOMAIN e = EntryFields /\ e.voucher = "journal_entry" /\ e.date = date
      /\ e.status = "posted" /\ e.mirror = 0 /\ e.source = request[r].doc
      /\ e.lines = Booking(request[r].doc)
  BY DEF Entry, EntryFields
<1> HIDE DEF row
<1>3. row.pc \in {"accepted", "numbered"} => VoucherOK(row)
  BY <1>1, <1>2 DEF VoucherOK, row
<1>4. RowOK(row)
  BY <1>1, <1>3 DEF RowOK, Busy, row
<1>5. LookedAt(r)' /\ SeenCovered(r)'
  BY <1>1 DEF LookedAt, SeenCovered, row
<1> QED
  BY <1>1, <1>4, <1>5 DEF RowMoves, row

LEMMA ReadingKinds ==
    ASSUME StockInv, NEW r \in Requests,
           \/ \E o \in Orders : IssuePO(r, o) \/ ConfirmSO(r, o)
           \/ \E d \in Documents : Confirm(r, d)
           \/ ReadBalance(r)
           \/ \E op \in {"found", "lost"} : Adjust(r, op)
    PROVE  RowMoves(r)
<1>1. Rows /\ bal \in Int /\ RowOK(request[r]) /\ DOMAIN request[r] = Fields /\ r \in DOMAIN request
  BY DEF StockInv, StockTypeOK, Rows, RowOK
<1>2. bal < 0 => TwoLines
  BY DEF StockInv, NeverNegative, TwoLines
<1>3. ASSUME NEW o \in Orders, IssuePO(r, o) \/ ConfirmSO(r, o) PROVE RowMoves(r)
  <2>1. /\ request' = [request EXCEPT ![r] =
               [pc |-> "begun", op |-> "open", doc |-> o, view |-> 0, entry |-> None]]
        /\ UNCHANGED <<journal, stock>>
    BY <1>3 DEF IssuePO, ConfirmSO, Enter, ledger
  <2>2. 0 \in Int /\ (0 < 0 => TwoLines') /\ ("open" = "lost" => 0 >= 1) /\ "begun" \in {"begun", "read"}
    OBVIOUS
  <2>3. UNCHANGED <<journal, order, doc, unit, bal, arrived, sold, moved, confirms,
                    unposted, gained, overtaken, missed>>
    BY <2>1 DEF stock
  <2> QED
    BY <1>1, <2>1, <2>2, <2>3, Entering, Zenon
<1>4. ASSUME NEW d \in Documents, Confirm(r, d) PROVE RowMoves(r)
  <2>1. /\ request' = [request EXCEPT ![r] =
               [pc |-> "begun", op |-> "confirm", doc |-> d, view |-> 0, entry |-> None]]
        /\ UNCHANGED <<journal, stock>> /\ doc[d] # "confirmed"
    BY <1>4 DEF Confirm, Enter, ledger
  <2>2. 0 \in Int /\ (0 < 0 => TwoLines') /\ ("confirm" = "lost" => 0 >= 1) /\ "begun" \in {"begun", "read"}
    OBVIOUS
  <2>3. UNCHANGED <<journal, order, doc, unit, bal, arrived, sold, moved, confirms,
                    unposted, gained, overtaken, missed>>
    BY <2>1 DEF stock
  <2> QED
    BY <1>1, <2>1, <2>2, <2>3, Entering, Zenon
<1>5. ASSUME NEW op \in {"found", "lost"}, Adjust(r, op) PROVE RowMoves(r)
  <2>1. /\ request' = [request EXCEPT ![r] =
               [pc |-> "read", op |-> op, doc |-> None, view |-> bal, entry |-> None]]
        /\ UNCHANGED <<journal, order, doc, unit, bal, arrived, sold, moved, confirms,
                       unposted, gained, overtaken, missed>>
        /\ op = "lost" => bal >= 1
    BY <1>5 DEF Adjust, Enter, ledger
  <2>2. bal < 0 => TwoLines'
    BY <1>2, <2>1 DEF TwoLines
  <2> QED
    BY <1>1, <2>1, <2>2, Entering
<1>6. ASSUME ReadBalance(r) PROVE RowMoves(r)
  <2>1. /\ request[r].pc = "begun" /\ request[r].op = "confirm" /\ request[r].doc \in Receipts
        /\ request' = [request EXCEPT ![r].pc = "read", ![r].view = bal]
        /\ UNCHANGED <<journal, stock>>
    BY <1>6 DEF ReadBalance, At, ledger
  <2>2. /\ DOMAIN request'[r] = Fields /\ request'[r].pc = "read" /\ request'[r].op = "confirm"
        /\ request'[r].doc = request[r].doc /\ request'[r].view = bal
        /\ request' = [request EXCEPT ![r] = request'[r]]
    BY <1>1, <2>1 DEF Fields
  <2>3. RowOK(request'[r])
    BY <1>1, <2>1, <2>2 DEF RowOK
  <2>4. Locked(r)' = {}
    BY <2>2 DEF Locked
  <2>5. TwoLines' = TwoLines
    BY <2>1 DEF TwoLines, stock
  <2>6. Held(r)' /\ LookedAt(r)' /\ SeenCovered(r)'
    BY <1>2, <2>2, <2>5 DEF Held, LookedAt, SeenCovered, Busy
  <2> QED
    BY <2>1, <2>2, <2>3, <2>4, <2>6 DEF RowMoves, stock
<1> QED
  BY <1>3, <1>4, <1>5, <1>6

LEMMA EmittingKinds ==
    ASSUME StockInv, NEW r \in Requests,
           Receive(r) \/ Pick(r) \/ \E p \in Periods : WriteAdjustment(r, p)
    PROVE  RowMoves(r)
<1>1. Rows /\ bal \in Int /\ RowOK(request[r]) /\ request[r].view \in Int
  BY DEF StockInv, StockTypeOK, Rows, RowOK
<1>2. LookedAt(r) /\ (bal < 0 => TwoLines)
  BY DEF StockInv, NeverNegative, TwoLines
<1> DEFINE d == request[r].doc
<1>3. \A g \in Documents : Lines[g].date \in Periods
  BY StockAssumption DEF Documents
<1>4. ASSUME Receive(r) PROVE RowMoves(r)
  <2>1. /\ request[r].pc = "read" /\ request[r].op = "confirm" /\ Free(r, RowsOf(d))
        /\ \A s \in Lines[d].serials : unit[s] = "NONE"
        /\ Emit(r, _on_grn_confirmed(d), request[r].view) /\ UNCHANGED <<journal, stock>>
    BY <1>4 DEF Receive, At, ledger
  <2>2. d \in Receipts /\ d \in Documents /\ d \notin Dispatches
    BY <1>1, <2>1, IdleIs, StockAssumption DEF RowOK, Busy, Documents
  <2>3. /\ request'[r].pc \in {"accepted", "unposted"}
        /\ request'[r].op = request[r].op /\ request'[r].doc = request[r].doc
        /\ request'[r].view = request[r].view
    BY <1>1, <2>1, EmitRow DEF Emitted
  <2>4. Locked(r)' = RowsOf(d)
    BY <2>2, <2>3 DEF Locked
  <2>5. Held(r)'
    BY <2>1, <2>2, <2>3 DEF Held, stock
  <2>6. _on_grn_confirmed(d) = Entry("journal_entry", Lines[d].date, Booking(d), TRUE, d)
    BY <2>2 DEF _on_grn_confirmed, Booking
  <2>7. request[r].view < 0 => TwoLines'
    BY <1>2, <2>1 DEF LookedAt, TwoLines, stock
  <2> QED
    BY <1>1, <1>3, <2>1, <2>2, <2>4, <2>5, <2>6, <2>7, Emitting DEF stock
<1>5. ASSUME Pick(r) PROVE RowMoves(r)
  <2>1. /\ request[r].pc = "begun" /\ request[r].op = "confirm" /\ Free(r, RowsOf(d))
        /\ d \in Dispatches /\ \A s \in Lines[d].serials : unit[s] = "IN_STOCK"
        /\ \A i \in DOMAIN Lines[d].bulk : bal >= Lines[d].bulk[i]
        /\ Emit(r, _on_unit_dispatched(d), bal) /\ UNCHANGED <<journal, stock>>
    BY <1>5 DEF Pick, At, ledger
  <2>2. d \notin Receipts /\ d \in Documents
    BY <2>1, StockAssumption DEF Documents
  <2>3. /\ request'[r].pc \in {"accepted", "unposted"}
        /\ request'[r].op = request[r].op /\ request'[r].doc = request[r].doc
        /\ request'[r].view = bal
    BY <1>1, <2>1, EmitRow DEF Emitted
  <2>4. Locked(r)' = RowsOf(d)
    BY <2>2, <2>3 DEF Locked
  <2>5. Held(r)'
    BY <2>1, <2>2, <2>3 DEF Held, stock
  <2>6. _on_unit_dispatched(d) = Entry("journal_entry", Lines[d].date, Booking(d), TRUE, d)
    BY <2>1, <2>2 DEF _on_unit_dispatched, Booking
  <2>7. bal < 0 => TwoLines'
    BY <1>2, <2>1 DEF TwoLines, stock
  <2> QED
    BY <1>1, <1>3, <2>1, <2>2, <2>4, <2>5, <2>6, <2>7, Emitting DEF stock
<1>6. ASSUME NEW p \in Periods, WriteAdjustment(r, p) PROVE RowMoves(r)
  <2>1. /\ request[r].pc = "read" /\ request[r].op \in {"found", "lost"} /\ Free(r, {"balance"})
        /\ Emit(r, _on_adjustment_confirmed(p, 1), request[r].view) /\ UNCHANGED <<journal, stock>>
    BY <1>6 DEF WriteAdjustment, ledger
  <2>2. d = None /\ d \notin Documents
    BY <1>1, <2>1, IdleIs, StockAssumption DEF RowOK, Documents
  <2>3. /\ request'[r].pc \in {"accepted", "unposted"}
        /\ request'[r].op = request[r].op /\ request'[r].doc = request[r].doc
        /\ request'[r].view = request[r].view
    BY <1>1, <2>1, EmitRow DEF Emitted
  <2>4. Locked(r)' = {"balance"}
    BY <2>2, <2>3 DEF Locked
  <2>5. Held(r)'
    BY <2>1, <2>3 DEF Held
  <2>6. _on_adjustment_confirmed(p, 1) = Entry("journal_entry", p, Booking(d), TRUE, d)
    <3>1. ~(1 < 0)
      OBVIOUS
    <3> QED
      BY <2>2, <3>1 DEF _on_adjustment_confirmed, Booking, Documents
  <2>7. request[r].view < 0 => TwoLines'
    BY <1>2, <2>1 DEF LookedAt, TwoLines, stock
  <2>8. request[r].op = "lost" => request[r].view >= 1
    BY <1>2 DEF LookedAt
  <2> QED
    BY <1>1, <2>1, <2>2, <2>4, <2>5, <2>6, <2>7, <2>8, Emitting DEF stock
<1> QED
  BY <1>4, <1>5, <1>6

LEMMA NumberingKinds ==
    ASSUME StockInv, NEW r \in Requests,
           CheckOrder(r) \/ ((NextEntryNo(r) \/ Rollback(r)) /\ UNCHANGED stock)
    PROVE  RowMoves(r)
<1>1. /\ Rows /\ RowOK(request[r]) /\ request[r].view \in Int /\ DOMAIN request[r] = Fields
      /\ r \in DOMAIN request
  BY DEF StockInv, Rows, RowOK
<1>2. LookedAt(r) /\ Held(r) /\ sequence \in [DocTypes -> Nat]
  BY DEF StockInv, StockTypeOK, LedgerTypeOK
<1>3. ASSUME NEW pc \in Busy, UNCHANGED <<journal, stock>>, request[r].pc \in Busy,
             request' = [request EXCEPT ![r] = request'[r]], DOMAIN request'[r] = Fields,
             request'[r].pc = pc, request'[r].op = request[r].op, request'[r].doc = request[r].doc,
             request'[r].view = request[r].view,
             pc \in {"numbered"} => VoucherOK(request'[r]),
             \/ pc = "numbered" /\ request[r].pc = "accepted"
             \/ pc \in {"covered", "uncovered"} /\ request[r].op = "confirm",
             SeenCovered(r)'
      PROVE  RowMoves(r)
  <2>1. RowOK(request'[r])
    BY <1>1, <1>3, IdleIs DEF RowOK, Busy
  <2>2. Locked(r)' = Locked(r)
    BY <1>3 DEF Locked, Busy
  <2>3. Held(r)'
    BY <1>2, <1>3 DEF Held, stock
  <2>4. LookedAt(r)'
    BY <1>2, <1>3 DEF LookedAt, TwoLines, stock
  <2> QED
    BY <1>3, <2>1, <2>2, <2>3, <2>4 DEF RowMoves, stock
<1>4. ASSUME CheckOrder(r) PROVE RowMoves(r)
  <2> DEFINE d == request[r].doc
             pc == IF Completes(d) THEN "covered" ELSE "uncovered"
  <2>1. /\ request[r].pc = "unposted" /\ request[r].op = "confirm"
        /\ request' = [request EXCEPT ![r].pc = pc] /\ UNCHANGED <<journal, stock>>
    BY <1>4 DEF CheckOrder, At, Goto, ledger
  <2>2. pc \in {"covered", "uncovered"} /\ (pc = "covered" => Completes(d))
    OBVIOUS
  <2> HIDE DEF pc
  <2>3. /\ request' = [request EXCEPT ![r] = request'[r]] /\ DOMAIN request'[r] = Fields
        /\ request'[r].pc = pc /\ request'[r].op = request[r].op
        /\ request'[r].doc = request[r].doc /\ request'[r].view = request[r].view
    BY <1>1, <2>1 DEF Fields
  <2>4. Completes(d) => Lines[d].order # None /\ Covered(Lines[d].order, d)
    BY DEF Completes, _maybe_receive_po, _maybe_mark_so_dispatched
  <2>5. SeenCovered(r)'
    BY <2>1, <2>2, <2>3, <2>4 DEF SeenCovered, stock, Covered, ConfirmedFor
  <2> QED
    BY <1>3, <2>1, <2>2, <2>3, <2>5 DEF Busy
<1>5. ASSUME NextEntryNo(r), UNCHANGED stock PROVE RowMoves(r)
  <2> DEFINE n == sequence[request[r].entry.voucher] + 1
  <2>1. /\ request[r].pc = "accepted" /\ UNCHANGED <<journal, stock>>
        /\ request' = [request EXCEPT ![r].pc = "numbered", ![r].entry.no = n]
    BY <1>5 DEF NextEntryNo
  <2>2. VoucherOK(request[r])
    BY <1>1, <2>1 DEF RowOK
  <2>3. n \in Nat \ {0}
    BY <1>2, <2>2 DEF VoucherOK, DocTypes, Vouchers
  <2> HIDE DEF n
  <2>4. /\ request' = [request EXCEPT ![r] = request'[r]] /\ DOMAIN request'[r] = Fields
        /\ request'[r].pc = "numbered" /\ request'[r].op = request[r].op
        /\ request'[r].doc = request[r].doc /\ request'[r].view = request[r].view
        /\ request'[r].entry = [request[r].entry EXCEPT !.no = n]
    BY <1>1, <2>1 DEF Fields
  <2>5. VoucherOK(request'[r])
    BY <2>2, <2>3, <2>4 DEF VoucherOK, EntryFields
  <2>6. SeenCovered(r)'
    BY <2>4 DEF SeenCovered
  <2> QED
    BY <1>3, <2>1, <2>4, <2>5, <2>6 DEF Busy
<1>6. ASSUME Rollback(r), UNCHANGED stock PROVE RowMoves(r)
  BY <1>1, <1>6, GivingUp DEF Rollback, stock
<1> QED
  BY <1>4, <1>5, <1>6

LEMMA CommittingKinds ==
    ASSUME StockInv, NEW r \in Requests,
           CommitConfirmation(r) \/ CommitUnposted(r) \/ CommitAdjustment(r) \/ CommitOpenOrder(r)
    PROVE  \/ OrderOpens(r)
           \/ \E d \in Documents, c, p \in BOOLEAN : Takes(r, d, c, p)
           \/ \E p \in BOOLEAN : Settles(r, p)
<1>1. RowOK(request[r]) /\ SeenCovered(r)
  BY DEF StockInv, Rows
<1> DEFINE d == request[r].doc
<1>2. ASSUME CommitConfirmation(r) PROVE \E g \in Documents, c, p \in BOOLEAN : Takes(r, g, c, p)
  <2>1. /\ request[r].pc = "numbered" /\ request[r].op = "confirm"
        /\ journal' = Append(journal, request[r].entry) /\ Confirmed(r, d, Completes(d), TRUE)
    BY <1>2 DEF CommitConfirmation, At, Posted
  <2>2. d \in Documents
    BY <1>1, <2>1, IdleIs DEF RowOK, Documents
  <2>3. Completes(d) => Lines[d].order # None /\ Covered(Lines[d].order, d)
    BY DEF Completes, _maybe_receive_po, _maybe_mark_so_dispatched
  <2>4. Takes(r, d, Completes(d), TRUE)
    BY <2>1, <2>2, <2>3 DEF Takes, Busy
  <2>5. Completes(d) \in BOOLEAN
    BY DEF Completes, _maybe_receive_po, _maybe_mark_so_dispatched
  <2> QED
    BY <2>2, <2>4, <2>5, Zenon
<1>3. ASSUME CommitUnposted(r)
      PROVE  \E g \in Documents, c, p \in BOOLEAN : Takes(r, g, c, p)
  <2>1. /\ request[r].pc \in {"covered", "uncovered"} /\ request[r].op = "confirm"
        /\ UNCHANGED journal /\ Confirmed(r, d, request[r].pc = "covered", FALSE)
    BY <1>3 DEF CommitUnposted, At, ledger
  <2>2. d \in Documents
    BY <1>1, <2>1, IdleIs DEF RowOK, Documents
  <2>3. request[r].pc = "covered" => Lines[d].order # None /\ Covered(Lines[d].order, d)
    BY <1>1, <2>1 DEF SeenCovered
  <2>4. Takes(r, d, request[r].pc = "covered", FALSE)
    BY <2>1, <2>2, <2>3 DEF Takes, Busy
  <2>5. (request[r].pc = "covered") \in BOOLEAN
    OBVIOUS
  <2> QED
    BY <2>2, <2>4, <2>5, Zenon
<1>4. ASSUME CommitAdjustment(r) PROVE \E p \in BOOLEAN : Settles(r, p)
  <2>1. /\ request[r].op \in {"found", "lost"} /\ request[r].pc \in {"numbered", "unposted"}
        /\ IF request[r].pc = "numbered" THEN journal' = Append(journal, request[r].entry)
                                         ELSE UNCHANGED journal
    BY <1>4 DEF CommitAdjustment, Posted
  <2>2. d = None
    BY <1>1, <2>1, IdleIs DEF RowOK
  <2>3. Settles(r, request[r].pc = "numbered")
    BY <1>4, <2>1, <2>2 DEF Settles, CommitAdjustment
  <2>4. (request[r].pc = "numbered") \in BOOLEAN
    OBVIOUS
  <2> QED
    BY <2>3, <2>4, Zenon
<1>5. ASSUME CommitOpenOrder(r) PROVE OrderOpens(r)
  <2>1. request[r].op = "open" /\ request[r].pc = "begun" /\ d \in Orders
    BY <1>1, <1>5, IdleIs DEF CommitOpenOrder, At, RowOK
  <2>2. missed \subseteq missed' /\ missed' \subseteq missed \union {d}
    BY <1>5 DEF CommitOpenOrder
  <2>3. ConfirmedFor(d) # {} => d \in missed'
    BY <1>5 DEF CommitOpenOrder, ConfirmedFor
  <2> QED
    BY <1>5, <2>1, <2>2, <2>3 DEF OrderOpens, CommitOpenOrder, ledger
<1> QED
  BY <1>2, <1>3, <1>4, <1>5

LEMMA StockKinds ==
    ASSUME StockInv, [StockNext]_stockVars
    PROVE  StockStep
<1>1. ASSUME NEW o \in Orders, CreatePO(o) \/ CreateSO(o) PROVE OrderDrafted(o)
  BY <1>1 DEF CreatePO, CreateSO, Draft, OrderDrafted, ledger
<1>2. ASSUME NEW d \in Documents, CreateGRN(d) \/ CreateDispatch(d) PROVE DocumentCreated(d)
  BY <1>2 DEF CreateGRN, CreateDispatch, CreateDocument, DocumentCreated, ledger
<1>3. ASSUME NEW r \in Requests, NEW s \in Serials, Transfer(r, s) PROVE UnitMoves(r, s)
  BY <1>3 DEF Transfer, UnitMoves, ledger
<1>4. ASSUME NEW p \in Periods, ClosePeriod(p) \/ ReopenPeriod(p), UNCHANGED stock PROVE Nothing
  BY <1>4 DEF ClosePeriod, ReopenPeriod, stock, Nothing
<1>5. ASSUME UNCHANGED stockVars PROVE Nothing
  BY <1>5 DEF stockVars, stock, ledger, Nothing
<1>6. ASSUME NEW r \in Requests,
             CommitConfirmation(r) \/ CommitUnposted(r) \/ CommitAdjustment(r) \/ CommitOpenOrder(r)
      PROVE  StockStep
  BY <1>6, CommittingKinds, Zenon DEF StockStep
<1>7. ASSUME NEW r \in Requests, Receive(r) \/ Pick(r) PROVE StockStep
  BY <1>7, EmittingKinds, Zenon DEF StockStep
<1>8. ASSUME NEW r \in Requests, NEW p \in Periods, WriteAdjustment(r, p) PROVE StockStep
  BY <1>8, EmittingKinds, Zenon DEF StockStep
<1>9. ASSUME NEW r \in Requests, CheckOrder(r) PROVE StockStep
  BY <1>9, NumberingKinds DEF StockStep
<1>10. ASSUME NEW r \in Requests, NextEntryNo(r) \/ Rollback(r), UNCHANGED stock PROVE StockStep
  BY <1>10, NumberingKinds, Zenon DEF StockStep
<1>11. ASSUME NEW r \in Requests, NEW o \in Orders, IssuePO(r, o) \/ ConfirmSO(r, o) PROVE StockStep
  BY <1>11, ReadingKinds, Zenon DEF StockStep
<1>12. ASSUME NEW r \in Requests, NEW d \in Documents, Confirm(r, d) PROVE StockStep
  BY <1>12, ReadingKinds, Zenon DEF StockStep
<1>13. ASSUME NEW r \in Requests, NEW op \in {"found", "lost"}, Adjust(r, op) PROVE StockStep
  BY <1>13, ReadingKinds, Zenon DEF StockStep
<1>14. ASSUME NEW r \in Requests, ReadBalance(r) PROVE StockStep
  BY <1>14, ReadingKinds, Zenon DEF StockStep
<1>15. ASSUME NEW o \in Orders, CreatePO(o) \/ CreateSO(o) PROVE StockStep
  BY <1>1, <1>15 DEF StockStep
<1>16. ASSUME NEW d \in Documents, CreateGRN(d) \/ CreateDispatch(d) PROVE StockStep
  BY <1>2, <1>16 DEF StockStep
<1>17. ASSUME NEW r \in Requests, NEW s \in Serials, Transfer(r, s) PROVE StockStep
  BY <1>3, <1>17 DEF StockStep
<1>18. ASSUME NEW p \in Periods, ClosePeriod(p) \/ ReopenPeriod(p), UNCHANGED stock PROVE StockStep
  BY <1>4, <1>18 DEF StockStep
<1>19. ASSUME UNCHANGED stockVars PROVE StockStep
  BY <1>5, <1>19 DEF StockStep
<1> QED
  BY <1>6, <1>7, <1>8, <1>9, <1>10, <1>11, <1>12, <1>13, <1>14, <1>15, <1>16, <1>17, <1>18, <1>19
  DEF StockNext

-----------------------------------------------------------------------------
(* Each part of the invariant is preserved *)

LEMMA TakesEffect ==
    ASSUME NEW r \in Requests, NEW d \in Documents, NEW c \in BOOLEAN, NEW p \in BOOLEAN, Takes(r, d, c, p)
    PROVE  /\ request' = [request EXCEPT ![r] = Idle]
           /\ doc' = [doc EXCEPT ![d] = "confirmed"]
           /\ unit' = [s \in Serials |-> IF s \notin Lines[d].serials THEN unit[s]
                                         ELSE IF d \in Receipts THEN "IN_STOCK" ELSE "SOLD"]
           /\ bal' = IF Qty(d) > 0 THEN request[r].view + (IF d \in Receipts THEN 1 ELSE -1) * Qty(d) ELSE bal
           /\ confirms' = [confirms EXCEPT ![d] = @ + 1]
           /\ order' = IF c THEN [order EXCEPT ![Lines[d].order] = "done"] ELSE order
           /\ gained' = gained
BY DEF Takes, Confirmed, Respond

LEMMA RequestStep ==
    ASSUME StockStep
    PROVE  \/ \E r \in Requests : RowMoves(r) \/ request' = [request EXCEPT ![r] = Idle]
           \/ request' = request
<1>1. ASSUME NEW r \in Requests, OrderOpens(r) \/ \E p \in BOOLEAN : Settles(r, p)
      PROVE  request' = [request EXCEPT ![r] = Idle]
  BY <1>1 DEF OrderOpens, Settles, Respond
<1>2. ASSUME NEW r \in Requests, NEW s \in Serials, UnitMoves(r, s) PROVE request' = request
  BY <1>2 DEF UnitMoves
<1>3. ASSUME \/ \E o \in Orders : OrderDrafted(o)
             \/ \E d \in Documents : DocumentCreated(d)
             \/ Nothing
      PROVE  request' = request
  BY <1>3 DEF OrderDrafted, DocumentCreated, Nothing
<1> QED
  BY <1>1, <1>2, <1>3, TakesEffect DEF StockStep

LEMMA RowsStep ==
    ASSUME Rows, StockStep
    PROVE  Rows'
<1> USE DEF Rows
<1>1. ASSUME NEW r \in Requests, RowMoves(r) PROVE Rows'
  BY <1>1 DEF RowMoves
<1>2. ASSUME NEW r \in Requests, request' = [request EXCEPT ![r] = Idle] PROVE Rows'
  BY <1>2, IdleIs
<1>3. ASSUME request' = request PROVE Rows'
  BY <1>3
<1> QED
  BY <1>1, <1>2, <1>3, RequestStep

LEMMA ExclusiveStep ==
    ASSUME Rows, Exclusive, StockStep
    PROVE  Exclusive'
<1>1. ASSUME NEW r \in Requests, request' = [request EXCEPT ![r] = request'[r]],
             \/ Locked(r)' = {} \/ Locked(r)' = Locked(r) \/ Free(r, Locked(r)')
      PROVE  Exclusive'
  <2>1. \A q \in Requests \ {r} : Locked(q)' = Locked(q)
    BY <1>1 DEF Rows, Locked
  <2>2. \A q \in Requests \ {r} : Locked(r)' \cap Locked(q)' = {}
    BY <1>1, <2>1 DEF Exclusive, Free
  <2>3. \A q, k \in Requests \ {r} : q # k => Locked(q)' \cap Locked(k)' = {}
    BY <2>1 DEF Exclusive
  <2> QED
    BY <2>2, <2>3 DEF Exclusive
<1>2. ASSUME NEW r \in Requests, request' = [request EXCEPT ![r] = Idle] PROVE Exclusive'
  <2>1. request'[r] = Idle
    BY <1>2 DEF Rows
  <2>2. Locked(r)' = {}
    BY <2>1, IdleIs DEF Locked
  <2> QED
    BY <1>1, <1>2, <2>1, <2>2
<1>3. ASSUME request' = request PROVE Exclusive'
  BY <1>3 DEF Exclusive, Locked
<1> QED
  BY <1>1, <1>2, <1>3, RequestStep DEF RowMoves

\* What a request holds stays as it is, if nothing it has locked is written.
LEMMA HeldBy ==
    ASSUME Rows, NEW q \in Requests, Held(q), request'[q] = request[q],
           \A s \in Serials \cap Locked(q) : unit'[s] = unit[s],
           "balance" \in Locked(q) => bal' = bal
    PROVE  Held(q)'
<1> SUFFICES ASSUME request[q].op = "confirm", request[q].pc \in Busy
             PROVE  Held(q)'
  BY DEF Held
<1> DEFINE d == request[q].doc
<1>1. d \in Documents
  BY IdleIs DEF Rows, RowOK, Documents, Busy
<1>2. Locked(q) = RowsOf(d)
  BY <1>1, LockedIs
<1>3. Lines[d].serials \subseteq Serials /\ Lines[d].serials \subseteq RowsOf(d)
  BY <1>1, StockAssumption DEF RowsOf, Documents
<1>4. \A s \in Lines[d].serials : unit'[s] = unit[s]
  BY <1>2, <1>3
<1>5. Qty(d) > 0 => bal' = bal
  BY <1>2 DEF RowsOf
<1> QED
  BY <1>1, <1>4, <1>5 DEF Held

LEMMA HeldStep ==
    ASSUME StockInv, StockStep
    PROVE  \A q \in Requests : Held(q)'
<1>1. /\ Rows /\ Exclusive /\ unit \in [Serials -> {"NONE", "IN_STOCK", "SOLD", "IN_TRANSIT"}]
      /\ \A q \in Requests : Held(q)
  BY DEF StockInv, StockTypeOK
<1>2. ASSUME NEW r \in Requests, RowMoves(r), NEW q \in Requests PROVE Held(q)'
  <2>1. CASE q = r
    BY <1>2, <2>1 DEF RowMoves
  <2>2. CASE q # r
    <3>1. request'[q] = request[q] /\ unit' = unit /\ bal' = bal
      BY <1>1, <1>2, <2>2 DEF RowMoves, Rows
    <3> QED
      BY <1>1, <3>1, HeldBy
  <2> QED
    BY <2>1, <2>2
<1>3. ASSUME NEW r \in Requests, request' = [request EXCEPT ![r] = Idle], NEW q \in Requests,
             q # r => /\ \A s \in Serials \cap Locked(q) : unit'[s] = unit[s]
                      /\ "balance" \in Locked(q) => bal' = bal
      PROVE  Held(q)'
  <2>1. CASE q = r
    <3>1. request'[q] = Idle
      BY <1>1, <1>3, <2>1 DEF Rows
    <3> QED
      BY <3>1, IdleIs DEF Held
  <2>2. CASE q # r
    <3>1. request'[q] = request[q]
      BY <1>1, <1>3, <2>2 DEF Rows
    <3> QED
      BY <1>1, <1>3, <2>2, <3>1, HeldBy
  <2> QED
    BY <2>1, <2>2
<1>4. ASSUME NEW r \in Requests, NEW d \in Documents, NEW c \in BOOLEAN, NEW p \in BOOLEAN,
             Takes(r, d, c, p), NEW q \in Requests
      PROVE  Held(q)'
  <2>1. /\ request' = [request EXCEPT ![r] = Idle]
        /\ unit' = [s \in Serials |-> IF s \notin Lines[d].serials THEN unit[s]
                                      ELSE IF d \in Receipts THEN "IN_STOCK" ELSE "SOLD"]
        /\ ~(Qty(d) > 0) => bal' = bal
    BY <1>4, TakesEffect
  <2>2. Locked(r) = RowsOf(d)
    BY <1>4, LockedIs DEF Takes
  <2>3. q # r => Locked(q) \cap RowsOf(d) = {}
    BY <1>1, <2>2 DEF Exclusive
  <2>4. Lines[d].serials \subseteq RowsOf(d) /\ (Qty(d) > 0 => "balance" \in RowsOf(d))
    BY DEF RowsOf
  <2> QED
    BY <1>3, <2>1, <2>3, <2>4
<1>5. ASSUME NEW r \in Requests, NEW p \in BOOLEAN, Settles(r, p), NEW q \in Requests
      PROVE  Held(q)'
  <2>1. request' = [request EXCEPT ![r] = Idle] /\ unit' = unit
    BY <1>5 DEF Settles, Respond
  <2>2. Locked(r) = {"balance"}
    BY <1>5, LockedIs, StockAssumption DEF Settles, Busy, Documents
  <2>3. q # r => "balance" \notin Locked(q)
    BY <1>1, <2>2 DEF Exclusive
  <2> QED
    BY <1>3, <2>1, <2>3
<1>6. ASSUME NEW r \in Requests, OrderOpens(r), NEW q \in Requests PROVE Held(q)'
  BY <1>3, <1>6 DEF OrderOpens, Respond
<1>7. ASSUME NEW r \in Requests, NEW s \in Serials, UnitMoves(r, s), NEW q \in Requests PROVE Held(q)'
  <2>1. request' = request /\ bal' = bal /\ unit' = [unit EXCEPT ![s] = "IN_TRANSIT"]
    BY <1>7 DEF UnitMoves
  <2>2. s \notin Locked(q)
    <3>1. CASE q = r
      BY <1>7, <3>1, LockedIs DEF UnitMoves, Busy
    <3>2. CASE q # r
      BY <1>7, <3>2 DEF UnitMoves, Free
    <3> QED
      BY <3>1, <3>2
  <2>3. \A t \in Serials \cap Locked(q) : unit'[t] = unit[t]
    BY <1>1, <2>1, <2>2
  <2> QED
    BY <1>1, <2>1, <2>3, HeldBy
<1>8. ASSUME \/ \E o \in Orders : OrderDrafted(o)
             \/ \E d \in Documents : DocumentCreated(d)
             \/ Nothing,
             NEW q \in Requests
      PROVE  Held(q)'
  <2>1. request' = request /\ bal' = bal /\ unit' = unit
    BY <1>8 DEF OrderDrafted, DocumentCreated, Nothing
  <2> QED
    BY <1>1, <2>1, HeldBy
<1> QED
  BY <1>2, <1>4, <1>5, <1>6, <1>7, <1>8 DEF StockStep

\* Confirmations only grow.
LEMMA Growing ==
    ASSUME confirms \in [Documents -> Nat], doc \in [Documents -> {"none", "draft", "confirmed"}],
           StockStep
    PROVE  /\ \A d \in Documents : confirms'[d] \in Nat /\ confirms'[d] >= confirms[d]
           /\ \A d \in Documents : doc[d] = "confirmed" => doc'[d] = "confirmed"
           /\ confirms' \in [Documents -> Nat] /\ doc' \in [Documents -> {"none", "draft", "confirmed"}]
<1>1. ASSUME NEW r \in Requests, NEW d \in Documents, NEW c \in BOOLEAN, NEW p \in BOOLEAN, Takes(r, d, c, p)
      PROVE  /\ doc' = [doc EXCEPT ![d] = "confirmed"]
             /\ confirms' = [confirms EXCEPT ![d] = confirms[d] + 1]
  BY <1>1, TakesEffect
<1>2. ASSUME NEW d \in Documents, DocumentCreated(d)
      PROVE  confirms' = confirms /\ doc[d] = "none" /\ doc' = [doc EXCEPT ![d] = "draft"]
  BY <1>2 DEF DocumentCreated
<1>3. ASSUME \/ \E r \in Requests : \/ RowMoves(r) \/ OrderOpens(r)
                                    \/ \E p \in BOOLEAN : Settles(r, p)
                                    \/ \E s \in Serials : UnitMoves(r, s)
             \/ \E o \in Orders : OrderDrafted(o)
             \/ Nothing
      PROVE  confirms' = confirms /\ doc' = doc
  BY <1>3 DEF RowMoves, OrderOpens, Settles, UnitMoves, OrderDrafted, Nothing
<1>4. CASE \E r \in Requests, d \in Documents, c, p \in BOOLEAN : Takes(r, d, c, p)
  <2>1. PICK d \in Documents : /\ doc' = [doc EXCEPT ![d] = "confirmed"]
                               /\ confirms' = [confirms EXCEPT ![d] = confirms[d] + 1]
    BY <1>1, <1>4
  <2> QED
    BY <2>1
<1>5. CASE \E d \in Documents : DocumentCreated(d)
  BY <1>2, <1>5
<1>6. CASE confirms' = confirms /\ doc' = doc
  BY <1>6
<1> QED
  BY <1>3, <1>4, <1>5, <1>6 DEF StockStep

LEMMA LookedAtStep ==
    ASSUME StockInv, StockStep
    PROVE  \A q \in Requests : LookedAt(q)'
<1>1. /\ Rows /\ confirms \in [Documents -> Nat] /\ doc \in [Documents -> {"none", "draft", "confirmed"}]
      /\ \A q \in Requests : LookedAt(q)
  BY DEF StockInv, StockTypeOK
<1>2. TwoLines => TwoLines'
  <2>1. \A d \in Dispatches : confirms[d] > 0 => confirms'[d] > 0
    BY <1>1, Growing DEF Documents
  <2> QED
    BY <2>1 DEF TwoLines
<1>3. ASSUME NEW q \in Requests, request'[q] = request[q] \/ request'[q] = Idle PROVE LookedAt(q)'
  BY <1>1, <1>2, <1>3, IdleIs DEF LookedAt
<1>4. ASSUME NEW r \in Requests, RowMoves(r), NEW q \in Requests PROVE LookedAt(q)'
  BY <1>1, <1>3, <1>4 DEF RowMoves, Rows
<1> QED
  BY <1>1, <1>3, <1>4, RequestStep DEF Rows

LEMMA CoveredMore ==
    ASSUME doc \in [Documents -> {"none", "draft", "confirmed"}],
           doc' \in [Documents -> {"none", "draft", "confirmed"}],
           \A d \in Documents : doc[d] = "confirmed" => doc'[d] = "confirmed",
           NEW o \in Orders
    PROVE  /\ Brought(ConfirmedFor(o)) >= Ordered[o] => Brought(ConfirmedFor(o)') >= Ordered[o]
           /\ \A d \in Documents : Covered(o, d) => Covered(o, d)'
           /\ \A d \in Documents : d \in ConfirmedFor(o)' /\ Covered(o, d)
                                      => Brought(ConfirmedFor(o)') >= Ordered[o]
<1>1. ConfirmedFor(o) \subseteq ConfirmedFor(o)' /\ ConfirmedFor(o)' \subseteq Documents
  BY DEF ConfirmedFor
<1>2. Ordered[o] \in Nat
  BY StockAssumption DEF Orders
<1>3. ASSUME NEW T \in SUBSET Documents, NEW S \in SUBSET T, Brought(S) >= Ordered[o]
      PROVE  Brought(T) >= Ordered[o]
  BY <1>2, <1>3, BroughtMore
<1>4. Brought(ConfirmedFor(o)) >= Ordered[o] => Brought(ConfirmedFor(o)') >= Ordered[o]
  BY <1>1, <1>3
<1>5. ASSUME NEW d \in Documents, Covered(o, d) PROVE Covered(o, d)'
  <2>1. /\ ConfirmedFor(o) \union {d} \subseteq ConfirmedFor(o)' \union {d}
        /\ ConfirmedFor(o)' \union {d} \in SUBSET Documents
    BY <1>1
  <2> QED
    BY <1>3, <1>5, <2>1 DEF Covered
<1>6. ASSUME NEW d \in Documents, d \in ConfirmedFor(o)', Covered(o, d)
      PROVE  Brought(ConfirmedFor(o)') >= Ordered[o]
  <2>1. ConfirmedFor(o) \union {d} \subseteq ConfirmedFor(o)'
    BY <1>1, <1>6
  <2> QED
    BY <1>1, <1>3, <1>6, <2>1 DEF Covered
<1> QED
  BY <1>4, <1>5, <1>6

LEMMA SeenCoveredStep ==
    ASSUME StockInv, StockStep
    PROVE  \A q \in Requests : SeenCovered(q)'
<1>1. /\ Rows /\ confirms \in [Documents -> Nat] /\ doc \in [Documents -> {"none", "draft", "confirmed"}]
      /\ \A q \in Requests : SeenCovered(q)
  BY DEF StockInv, StockTypeOK
<1>2. /\ doc' \in [Documents -> {"none", "draft", "confirmed"}]
      /\ \A d \in Documents : doc[d] = "confirmed" => doc'[d] = "confirmed"
  BY <1>1, Growing
<1>3. ASSUME NEW q \in Requests, request'[q] = request[q] PROVE SeenCovered(q)'
  <2> SUFFICES ASSUME NEW d, d = request[q].doc, request[q].op = "confirm", request[q].pc = "covered"
               PROVE  Lines[d].order # None /\ Covered(Lines[d].order, d)'
    BY <1>3 DEF SeenCovered
  <2>1. d \in Documents
    BY <1>1, IdleIs DEF Rows, RowOK, Documents, Busy
  <2>2. Lines[d].order # None /\ Covered(Lines[d].order, d)
    BY <1>1 DEF SeenCovered
  <2>3. Lines[d].order \in Orders
    BY <2>1, <2>2, StockAssumption DEF Orders, Documents
  <2> QED
    BY <1>1, <1>2, <2>1, <2>2, <2>3, CoveredMore
<1>4. ASSUME NEW q \in Requests, request'[q] = Idle PROVE SeenCovered(q)'
  BY <1>4, IdleIs DEF SeenCovered
<1>5. ASSUME NEW r \in Requests, RowMoves(r), NEW q \in Requests PROVE SeenCovered(q)'
  BY <1>1, <1>3, <1>5 DEF RowMoves, Rows
<1> QED
  BY <1>1, <1>3, <1>4, <1>5, RequestStep DEF Rows

\* What a voucher adds to the inventory account.
LEMMA VoucherLines ==
    ASSUME NEW row, VoucherOK(row), row.pc = "numbered", row.doc \in Documents \union {None}
    PROVE  /\ LinesOK(row.entry) /\ JournalEntryRow(row.entry) /\ row.entry.status = "posted"
           /\ row.entry.source = row.doc
           /\ NetOn(row.entry, {"1200"}) = IF row.doc \in Receipts THEN Value(row.doc)
                                           ELSE IF row.doc \in Dispatches THEN -Value(row.doc)
                                           ELSE -1
<1> DEFINE e == row.entry
<1>1. /\ e.voucher = "journal_entry" /\ e.date \in Periods /\ e.status = "posted" /\ e.mirror = 0
      /\ e.source = row.doc /\ e.lines = Booking(row.doc) /\ e.no \in Nat \ {0}
  BY DEF VoucherOK
<1> HIDE DEF e
<1>2. ASSUME NEW x \in Accounts, NEW y \in Accounts, x # y, NEW v \in Nat, e.lines = {Dr(x, v), Cr(y, v)}
      PROVE  /\ LinesOK(e) /\ \A l \in e.lines : JournalLineRow(l)
             /\ "1200" = x => NetOn(e, {"1200"}) = v
             /\ "1200" = y => NetOn(e, {"1200"}) = -v
  <2>1. LinesOK(e) /\ NetOn(e, {"1200"}) = IF "1200" = x THEN v ELSE IF "1200" = y THEN -v ELSE 0
    <3>1. IsPair(e, x, y, v) /\ x # y
      BY <1>2 DEF IsPair
    <3> QED
      BY <3>1, PairNet
  <2>2. \A l \in e.lines : JournalLineRow(l)
    BY <1>2 DEF Dr, Cr, JournalLineRow
  <2> QED
    BY <1>2, <2>1, <2>2
<1>3. CASE row.doc \in Receipts
  <2>1. Value(row.doc) \in Nat
    BY <1>3, QtyType DEF Documents
  <2>2. e.lines = {Dr("1200", Value(row.doc)), Cr("2200", Value(row.doc))}
    BY <1>1, <1>3 DEF Booking
  <2>3. LinesOK(e) /\ (\A l \in e.lines : JournalLineRow(l)) /\ NetOn(e, {"1200"}) = Value(row.doc)
    BY <1>2, <2>1, <2>2 DEF Accounts
  <2> QED
    BY <1>1, <1>3, <2>3 DEF JournalEntryRow, Vouchers, e, JournalOK
<1>4. CASE row.doc \in Dispatches
  <2>1. Value(row.doc) \in Nat
    BY <1>4, QtyType DEF Documents
  <2>2. row.doc \notin Receipts
    BY <1>4, StockAssumption
  <2>3. e.lines = {Dr("5100", Value(row.doc)), Cr("1200", Value(row.doc))}
    BY <1>1, <1>4, <2>2 DEF Booking
  <2>4. LinesOK(e) /\ (\A l \in e.lines : JournalLineRow(l)) /\ NetOn(e, {"1200"}) = -Value(row.doc)
    BY <1>2, <2>1, <2>3 DEF Accounts
  <2> QED
    BY <1>1, <1>4, <2>2, <2>4 DEF JournalEntryRow, Vouchers, e
<1>5. CASE row.doc \notin Documents
  <2>1. row.doc \notin Receipts /\ row.doc \notin Dispatches
    BY <1>5 DEF Documents
  <2>2. e.lines = {Dr("5200", 1), Cr("1200", 1)}
    BY <1>1, <2>1 DEF Booking
  <2>3. LinesOK(e) /\ (\A l \in e.lines : JournalLineRow(l)) /\ NetOn(e, {"1200"}) = -1
    BY <1>2, <2>2 DEF Accounts
  <2> QED
    BY <1>1, <2>1, <2>3 DEF JournalEntryRow, Vouchers, e
<1> QED
  BY <1>3, <1>4, <1>5 DEF Documents

\* A step leaves the journal as it is, or appends the voucher of a request.
Appends(r) ==
    /\ request[r].pc = "numbered" /\ VoucherOK(request[r])
    /\ request[r].doc \in Documents \union {None}
    /\ journal' = Append(journal, request[r].entry)

LEMMA JournalKinds ==
    ASSUME Rows, StockStep
    PROVE  journal' = journal \/ \E r \in Requests : Appends(r)
<1>1. ASSUME NEW r \in Requests, NEW d \in Documents, NEW c \in BOOLEAN, NEW p \in BOOLEAN, Takes(r, d, c, p)
      PROVE  journal' = journal \/ Appends(r)
  BY <1>1 DEF Takes, Appends, Rows, RowOK
<1>2. ASSUME NEW r \in Requests, NEW p \in BOOLEAN, Settles(r, p)
      PROVE  journal' = journal \/ Appends(r)
  BY <1>2 DEF Settles, Appends, Rows, RowOK
<1>3. ASSUME \/ \E r \in Requests : \/ RowMoves(r) \/ OrderOpens(r)
                                    \/ \E s \in Serials : UnitMoves(r, s)
             \/ \E o \in Orders : OrderDrafted(o)
             \/ \E d \in Documents : DocumentCreated(d)
             \/ Nothing
      PROVE  journal' = journal
  BY <1>3 DEF RowMoves, OrderOpens, UnitMoves, OrderDrafted, DocumentCreated, Nothing
<1> QED
  BY <1>1, <1>2, <1>3 DEF StockStep

EntryRows == \A i \in DOMAIN journal : JournalEntryRow(journal[i])

LEMMA JournalStep ==
    ASSUME Rows, JournalOK, EntryRows, StockStep
    PROVE  JournalOK' /\ EntryRows'
<1>1. CASE journal' = journal
  BY <1>1 DEF JournalOK, AllLinesOK, EntryRows, JournalEntryRow, LinesOK, IsSeq
<1>2. ASSUME NEW r \in Requests, Appends(r)
      PROVE  JournalOK' /\ EntryRows'
  <2> DEFINE e == request[r].entry
             n == Len(journal)
  <2>1. LinesOK(e) /\ JournalEntryRow(e) /\ e.status = "posted"
    BY <1>2, VoucherLines DEF Appends
  <2>2. journal' = Append(journal, e)
    BY <1>2 DEF Appends
  <2> HIDE DEF e
  <2>3. /\ IsSeq(journal') /\ n \in Nat /\ Len(journal') = n + 1
        /\ DOMAIN journal = 1 .. n /\ DOMAIN journal' = 1 .. n + 1
        /\ \A i \in 1 .. n : journal'[i] = journal[i]
        /\ journal'[n + 1] = e
    BY <2>2, AppendIs DEF JournalOK
  <2>4. \A i \in DOMAIN journal' : (i \in DOMAIN journal /\ journal'[i] = journal[i]) \/ journal'[i] = e
    BY <2>3
  <2>5. \A i \in DOMAIN journal' : LinesOK(journal'[i]) /\ journal'[i].status = "posted"
    BY <2>1, <2>4 DEF JournalOK, AllLinesOK
  <2>6. \A i \in DOMAIN journal' : JournalEntryRow(journal'[i])
    BY <2>1, <2>4 DEF EntryRows
  <2>7. 0 .. Len(journal) \subseteq 0 .. Len(journal')
    BY <2>3
  <2>8. EntryRows'
    BY <2>6, <2>7 DEF EntryRows, JournalEntryRow
  <2>9. JournalOK'
    BY <2>3, <2>5 DEF JournalOK, AllLinesOK
  <2> QED
    BY <2>8, <2>9
<1> QED
  BY <1>1, <1>2, JournalKinds

\* The effects of an adjustment's commit.
LEMMA SettlesEffect ==
    ASSUME NEW r \in Requests, NEW p \in BOOLEAN, Settles(r, p)
    PROVE  /\ Sign(r) = (IF request[r].op = "found" THEN 1 ELSE -1)
           /\ bal' = request[r].view + Sign(r) /\ moved' = moved + Sign(r)
           /\ overtaken' = (overtaken \/ request[r].view # bal)
           /\ unposted' = IF p THEN unposted ELSE unposted + Sign(r)
           /\ gained' = IF p /\ Sign(r) = 1 THEN gained + 1 ELSE gained
           /\ order' = order /\ doc' = doc /\ unit' = unit /\ arrived' = arrived /\ sold' = sold
           /\ confirms' = confirms /\ missed' = missed
BY DEF Settles, Sign

DataTypes ==
    /\ order \in [Orders -> {"none", "draft", "open", "done"}]
    /\ doc \in [Documents -> {"none", "draft", "confirmed"}]
    /\ unit \in [Serials -> {"NONE", "IN_STOCK", "SOLD", "IN_TRANSIT"}]
    /\ bal \in Int /\ moved \in Int /\ unposted \in Int /\ gained \in Nat
    /\ arrived \in [Serials -> Nat] /\ sold \in [Serials -> Nat]
    /\ confirms \in [Documents -> Nat]
    /\ overtaken \in BOOLEAN /\ missed \subseteq Orders

LEMMA TypesAre == StockTypeOK <=> Counters /\ EntryRows /\ DataTypes
BY DEF StockTypeOK, LedgerTypeOK, Counters, EntryRows, DataTypes

LEMMA DataTypesStep ==
    ASSUME Rows, DataTypes, StockStep
    PROVE  DataTypes'
<1> USE DEF DataTypes
<1>1. \A r \in Requests : request[r].view \in Int
  BY DEF Rows, RowOK
<1>2. ASSUME NEW r \in Requests, NEW d \in Documents, NEW c \in BOOLEAN, NEW p \in BOOLEAN, Takes(r, d, c, p)
      PROVE  DataTypes'
  <2>1. Qty(d) \in Nat /\ Value(d) \in Nat
    BY QtyType
  <2>2. Lines[d].order # None => Lines[d].order \in Orders
    BY StockAssumption DEF Orders, Documents
  <2>3. order' \in [Orders -> {"none", "draft", "open", "done"}] /\ missed' \subseteq Orders
    BY <1>2, <2>2 DEF Takes, Confirmed
  <2>4. /\ doc' \in [Documents -> {"none", "draft", "confirmed"}]
        /\ unit' \in [Serials -> {"NONE", "IN_STOCK", "SOLD", "IN_TRANSIT"}]
        /\ arrived' \in [Serials -> Nat] /\ sold' \in [Serials -> Nat]
    BY <1>2 DEF Takes, Confirmed
  <2>5. confirms' \in [Documents -> Nat]
    BY <1>2 DEF Takes, Confirmed
  <2>6. bal' \in Int
    BY <1>1, <1>2, <2>1, TakesEffect
  <2>7. moved' \in Int /\ unposted' \in Int /\ gained' \in Nat
    BY <1>2, <2>1 DEF Takes, Confirmed
  <2>8. overtaken' \in BOOLEAN
    BY <1>2 DEF Takes, Confirmed
  <2> QED
    BY <2>3, <2>4, <2>5, <2>6, <2>7, <2>8
<1>3. ASSUME NEW r \in Requests, NEW p \in BOOLEAN, Settles(r, p) PROVE DataTypes'
  <2>1. Sign(r) \in {1, -1}
    BY DEF Sign
  <2>2. bal' \in Int /\ moved' \in Int
    BY <1>1, <1>3, <2>1, SettlesEffect
  <2>3. /\ overtaken' = (overtaken \/ request[r].view # bal)
        /\ unposted' \in {unposted, unposted + Sign(r)}
        /\ gained' \in {gained, gained + 1}
    BY <1>3, SettlesEffect
  <2>4. unposted' \in Int /\ gained' \in Nat
    BY <2>1, <2>3
  <2>5. overtaken' \in BOOLEAN
    BY <2>3, Zenon
  <2> QED
    BY <1>3, <2>2, <2>4, <2>5, SettlesEffect
<1>4. ASSUME NEW r \in Requests, RowMoves(r) PROVE DataTypes'
  BY <1>4 DEF RowMoves
<1>5. ASSUME NEW r \in Requests, OrderOpens(r) PROVE DataTypes'
  BY <1>5 DEF OrderOpens
<1>6. ASSUME NEW r \in Requests, NEW s \in Serials, UnitMoves(r, s) PROVE DataTypes'
  BY <1>6 DEF UnitMoves
<1>7. ASSUME NEW o \in Orders, OrderDrafted(o) PROVE DataTypes'
  BY <1>7 DEF OrderDrafted
<1>8. ASSUME NEW d \in Documents, DocumentCreated(d) PROVE DataTypes'
  BY <1>8 DEF DocumentCreated
<1>9. ASSUME Nothing PROVE DataTypes'
  BY <1>9 DEF Nothing
<1> QED
  BY <1>2, <1>3, <1>4, <1>5, <1>6, <1>7, <1>8, <1>9 DEF StockStep

\* The confirmations of d that are under way, after a step.
LEMMA ConfirmingStep ==
    ASSUME StockInv, StockStep, NEW d \in Documents
    PROVE  /\ IsFiniteSet(Confirming(d)) /\ Cardinality(Confirming(d)) \in Nat
           /\ Cardinality(Confirming(d)') \in Nat
           /\ Cardinality(Confirming(d)') <= Cardinality(Requests)
           /\ Cardinality(Requests) \in Nat
           /\ \/ Cardinality(Confirming(d)') <= Cardinality(Confirming(d))
              \/ doc[d] # "confirmed" /\ \E r \in Requests : RowMoves(r)
           /\ \A r \in Requests, c, p \in BOOLEAN :
                 Takes(r, d, c, p) => Cardinality(Confirming(d)') + 1 <= Cardinality(Confirming(d))
<1>1. Rows /\ IsFiniteSet(Requests)
  BY LedgerAssumption DEF StockInv
<1>2. Confirming(d) \in SUBSET Requests /\ Confirming(d)' \in SUBSET Requests
  BY DEF Confirming
<1>3. /\ IsFiniteSet(Confirming(d)) /\ Cardinality(Confirming(d)) \in Nat
      /\ IsFiniteSet(Confirming(d)') /\ Cardinality(Confirming(d)') \in Nat
      /\ Cardinality(Confirming(d)') <= Cardinality(Requests) /\ Cardinality(Requests) \in Nat
  BY <1>1, <1>2, FS_Subset, FS_CardinalityType
<1>4. ASSUME Confirming(d)' \subseteq Confirming(d)
      PROVE  Cardinality(Confirming(d)') <= Cardinality(Confirming(d))
  BY <1>3, <1>4, FS_Subset
<1>5. ASSUME NEW r \in Requests, RowMoves(r)
      PROVE  Confirming(d)' \subseteq Confirming(d) \/ doc[d] # "confirmed"
  BY <1>1, <1>5 DEF RowMoves, Confirming, Rows
<1>6. ASSUME NEW r \in Requests, request' = [request EXCEPT ![r] = Idle]
      PROVE  Confirming(d)' = Confirming(d) \ {r}
  <2>1. /\ request'[r].op # "confirm"
        /\ \A q \in Requests \ {r} : request'[q] = request[q]
    BY <1>1, <1>6, IdleIs DEF Rows
  <2> QED
    BY <2>1 DEF Confirming
<1>7. request' = request => Confirming(d)' = Confirming(d)
  BY DEF Confirming
<1>8. \/ Confirming(d)' \subseteq Confirming(d)
      \/ doc[d] # "confirmed" /\ \E r \in Requests : RowMoves(r)
  BY <1>5, <1>6, <1>7, RequestStep
<1>9. ASSUME NEW r \in Requests, NEW c \in BOOLEAN, NEW p \in BOOLEAN, Takes(r, d, c, p)
      PROVE  Cardinality(Confirming(d)') + 1 <= Cardinality(Confirming(d))
  <2>1. Confirming(d)' = Confirming(d) \ {r}
    BY <1>6, <1>9, TakesEffect
  <2>2. r \in Confirming(d)
    BY <1>9 DEF Takes, Confirming
  <2>3. Cardinality(Confirming(d) \ {r}) = Cardinality(Confirming(d)) - 1
    BY <1>3, <2>2, FS_RemoveElement
  <2> QED
    BY <1>3, <2>1, <2>3
<1> QED
  BY <1>3, <1>4, <1>8, <1>9

\* The entries of a document.
LEMMA EntriesStep ==
    ASSUME JournalOK, NEW r \in Requests, Appends(r), NEW d
    PROVE  /\ Entries(d)' \in Nat /\ Entries(d)' <= Entries(d) + 1
           /\ request[r].doc # d => Entries(d)' = Entries(d)
<1> DEFINE e == request[r].entry
           n == Len(journal)
           S == {i \in DOMAIN journal : journal[i].source = d}
           T == {i \in DOMAIN journal' : journal'[i].source = d}
           U == 1 .. n + 1
<1>1. e.source = request[r].doc /\ journal' = Append(journal, e)
  BY DEF Appends, VoucherOK
<1> HIDE DEF e
<1>2. /\ n \in Nat /\ DOMAIN journal = 1 .. n /\ DOMAIN journal' = U
      /\ \A i \in 1 .. n : journal'[i] = journal[i]
      /\ journal'[n + 1] = e
  BY <1>1, AppendIs DEF JournalOK
<1> HIDE DEF n
<1>3. /\ IsFiniteSet(U) /\ S \in SUBSET U /\ T \in SUBSET U /\ n + 1 \in U
  <2>1. n + 1 \in Int /\ 1 \in Int
    BY <1>2
  <2>2. IsFiniteSet(1 .. (n + 1))
    BY <2>1, FS_Interval
  <2> QED
    BY <1>2, <2>2
<1>4. \A i \in U \ {n + 1} : i \in S <=> i \in T
  BY <1>2
<1>5. n + 1 \notin S /\ (n + 1 \in T <=> request[r].doc = d)
  BY <1>1, <1>2
<1> HIDE DEF S, T, U
<1>6. Cardinality(T) + Bit(n + 1 \in S) = Cardinality(S) + Bit(n + 1 \in T)
  BY <1>3, <1>4, CountStep
<1>7. Cardinality(S) \in Nat /\ Cardinality(T) \in Nat
  BY <1>3, CountType
<1>8. Bit(n + 1 \in S) = 0 /\ Bit(n + 1 \in T) = IF request[r].doc = d THEN 1 ELSE 0
  BY <1>5 DEF Bit
<1>9. Cardinality(T) = Cardinality(S) + IF request[r].doc = d THEN 1 ELSE 0
  BY <1>6, <1>7, <1>8
<1> QED
  BY <1>7, <1>9 DEF Entries, S, T

\* What holds of a document, its units and the balance when its confirmation commits.
LEMMA TakesHeld ==
    ASSUME StockInv, NEW r \in Requests, NEW d \in Documents, NEW c \in BOOLEAN, NEW p \in BOOLEAN,
           Takes(r, d, c, p)
    PROVE  /\ d \in Receipts \/ d \in Dispatches
           /\ d \in Receipts => d \notin Dispatches /\ \A s \in Lines[d].serials : unit[s] = "NONE"
           /\ d \notin Receipts => d \in Dispatches /\ \A s \in Lines[d].serials : unit[s] = "IN_STOCK"
           /\ d \in Dispatches /\ Qty(d) > 0 =>
                 /\ request[r].view = bal
                 /\ \A i \in DOMAIN Lines[d].bulk : bal >= Lines[d].bulk[i]
           /\ confirms[d] > 0 => Lines[d].serials = {}
           /\ Lines[d].serials \subseteq Serials
<1>1. Held(r) /\ DocumentOK(d)
  BY DEF StockInv
<1>2. request[r].op = "confirm" /\ request[r].pc \in Busy /\ request[r].doc = d
  BY DEF Takes
<1>3. /\ d \in Receipts \/ d \in Dispatches
      /\ d \in Receipts => d \notin Dispatches
      /\ Lines[d].serials \subseteq Serials
  BY StockAssumption DEF Documents
<1>4. confirms[d] > 0 => Lines[d].serials = {}
  BY <1>1, <1>2, <1>3 DEF Held, DocumentOK
<1> QED
  BY <1>1, <1>2, <1>3, <1>4 DEF Held

LEMMA DocumentStep ==
    ASSUME StockInv, StockStep, NEW d \in Documents
    PROVE  DocumentOK(d)'
<1>1. DocumentOK(d) /\ DataTypes /\ Rows
  BY TypesAre DEF StockInv
<1>2. /\ Cardinality(Confirming(d)) \in Nat /\ Cardinality(Confirming(d)') \in Nat
      /\ Cardinality(Confirming(d)') <= Cardinality(Requests) /\ Cardinality(Requests) \in Nat
      /\ \/ Cardinality(Confirming(d)') <= Cardinality(Confirming(d))
         \/ doc[d] # "confirmed" /\ \E r \in Requests : RowMoves(r)
  BY ConfirmingStep
<1>3. confirms[d] \in Nat /\ confirms[d] + Cardinality(Confirming(d)) <= Cardinality(Requests)
  BY <1>1 DEF DocumentOK, DataTypes
<1>4. ASSUME NEW r \in Requests, RowMoves(r) PROVE DocumentOK(d)'
  <2>1. doc' = doc /\ confirms' = confirms /\ unit' = unit
    BY <1>4 DEF RowMoves
  <2>2. confirms'[d] + Cardinality(Confirming(d)') <= Cardinality(Requests)
    BY <1>1, <1>2, <1>3, <2>1 DEF DocumentOK
  <2> QED
    BY <1>1, <2>1, <2>2 DEF DocumentOK
<1>5. ASSUME doc' = doc, confirms' = confirms, unit' = unit, ~\E r \in Requests : RowMoves(r)
      PROVE  DocumentOK(d)'
  <2>1. confirms'[d] + Cardinality(Confirming(d)') <= Cardinality(Requests)
    BY <1>2, <1>3, <1>5
  <2> QED
    BY <1>1, <1>5, <2>1 DEF DocumentOK
<1>6. ASSUME NEW r \in Requests, NEW k \in Documents, NEW c \in BOOLEAN, NEW p \in BOOLEAN,
             Takes(r, k, c, p), ~\E q \in Requests : RowMoves(q)
      PROVE  DocumentOK(d)'
  <2>1. /\ doc' = [doc EXCEPT ![k] = "confirmed"]
        /\ unit' = [s \in Serials |-> IF s \notin Lines[k].serials THEN unit[s]
                                      ELSE IF k \in Receipts THEN "IN_STOCK" ELSE "SOLD"]
        /\ confirms' = [confirms EXCEPT ![k] = confirms[k] + 1]
    BY <1>6, TakesEffect
  <2>2. doc'[d] # "confirmed" => confirms'[d] = 0
    BY <1>1, <2>1 DEF DocumentOK, DataTypes
  <2>3. /\ k \in Receipts => \A s \in Lines[k].serials : unit[s] = "NONE"
        /\ k \notin Receipts => \A s \in Lines[k].serials : unit[s] = "IN_STOCK"
    BY <1>6, TakesHeld
  <2>4. Lines[d].serials \subseteq Serials
    BY StockAssumption DEF Documents
  <2>5. ASSUME confirms'[d] > 0, NEW s \in Lines[d].serials
        PROVE  IF d \in Receipts THEN unit'[s] # "NONE" ELSE unit'[s] = "SOLD"
    <3>1. CASE d = k
      BY <2>1, <2>4, <3>1
    <3>2. CASE d # k
      <4>1. confirms[d] > 0
        BY <1>1, <2>1, <2>5, <3>2 DEF DataTypes
      <4>2. IF d \in Receipts THEN unit[s] # "NONE" ELSE unit[s] = "SOLD"
        BY <1>1, <4>1 DEF DocumentOK
      <4>3. unit'[s] = IF s \notin Lines[k].serials THEN unit[s]
                       ELSE IF k \in Receipts THEN "IN_STOCK" ELSE "SOLD"
        BY <2>1, <2>4
      <4> QED
        BY <2>3, <4>2, <4>3
    <3> QED
      BY <3>1, <3>2
  <2>6. confirms'[d] + Cardinality(Confirming(d)') <= Cardinality(Requests)
    <3>1. CASE d = k
      <4>1. Cardinality(Confirming(d)') + 1 <= Cardinality(Confirming(d))
        BY <1>6, <3>1, ConfirmingStep
      <4>2. confirms'[d] = confirms[d] + 1
        BY <1>1, <2>1, <3>1 DEF DataTypes
      <4> QED
        BY <1>2, <1>3, <4>1, <4>2
    <3>2. CASE d # k
      <4>1. confirms'[d] = confirms[d]
        BY <1>1, <2>1, <3>2 DEF DataTypes
      <4> QED
        BY <1>2, <1>3, <1>6, <4>1
    <3> QED
      BY <3>1, <3>2
  <2> QED
    BY <2>2, <2>5, <2>6 DEF DocumentOK
<1>7. ASSUME NEW r \in Requests, NEW p \in BOOLEAN, Settles(r, p), ~\E q \in Requests : RowMoves(q)
      PROVE  DocumentOK(d)'
  BY <1>5, <1>7, SettlesEffect
<1>8. ASSUME NEW r \in Requests, OrderOpens(r), ~\E q \in Requests : RowMoves(q) PROVE DocumentOK(d)'
  BY <1>5, <1>8 DEF OrderOpens
<1>9. ASSUME NEW r \in Requests, NEW s \in Serials, UnitMoves(r, s), ~\E q \in Requests : RowMoves(q)
      PROVE  DocumentOK(d)'
  <2>1. /\ doc' = doc /\ confirms' = confirms /\ unit[s] = "IN_STOCK"
        /\ unit' = [unit EXCEPT ![s] = "IN_TRANSIT"]
    BY <1>9 DEF UnitMoves
  <2>2. confirms'[d] + Cardinality(Confirming(d)') <= Cardinality(Requests)
    BY <1>2, <1>3, <1>9, <2>1
  <2>3. ASSUME confirms'[d] > 0, NEW t \in Lines[d].serials
        PROVE  IF d \in Receipts THEN unit'[t] # "NONE" ELSE unit'[t] = "SOLD"
    <3>1. t \in Serials
      BY StockAssumption DEF Documents
    <3>2. IF d \in Receipts THEN unit[t] # "NONE" ELSE unit[t] = "SOLD"
      BY <1>1, <2>1, <2>3 DEF DocumentOK
    <3> QED
      BY <1>1, <2>1, <3>1, <3>2 DEF DataTypes
  <2> QED
    BY <1>1, <2>1, <2>2, <2>3 DEF DocumentOK
<1>10. ASSUME NEW o \in Orders, OrderDrafted(o), ~\E q \in Requests : RowMoves(q) PROVE DocumentOK(d)'
  BY <1>5, <1>10 DEF OrderDrafted
<1>11. ASSUME NEW k \in Documents, DocumentCreated(k), ~\E q \in Requests : RowMoves(q)
       PROVE  DocumentOK(d)'
  <2>1. /\ doc[k] = "none" /\ doc' = [doc EXCEPT ![k] = "draft"]
        /\ confirms' = confirms /\ unit' = unit
    BY <1>11 DEF DocumentCreated
  <2>2. confirms'[d] + Cardinality(Confirming(d)') <= Cardinality(Requests)
    BY <1>2, <1>3, <1>11, <2>1
  <2>3. doc'[d] # "confirmed" => confirms'[d] = 0
    BY <1>1, <2>1 DEF DocumentOK, DataTypes
  <2> QED
    BY <1>1, <2>1, <2>2, <2>3 DEF DocumentOK
<1>12. ASSUME Nothing, ~\E q \in Requests : RowMoves(q) PROVE DocumentOK(d)'
  BY <1>5, <1>12 DEF Nothing
<1> QED
  BY <1>4, <1>6, <1>7, <1>8, <1>9, <1>10, <1>11, <1>12 DEF StockStep

LEMMA PostedStep ==
    ASSUME StockInv, StockStep, NEW d \in Documents
    PROVE  /\ Entries(d)' <= confirms'[d] /\ confirms'[d] <= Cardinality(Requests)
           /\ Lines[d].serials # {} => confirms'[d] <= 1
<1>1. /\ DataTypes /\ Rows /\ JournalOK
      /\ Entries(d) <= confirms[d] /\ confirms[d] <= Cardinality(Requests)
      /\ Lines[d].serials # {} => confirms[d] <= 1
  BY TypesAre DEF StockInv, PostedOncePerOverlap
<1>2. confirms[d] \in Nat /\ confirms'[d] \in Nat /\ confirms'[d] >= confirms[d] /\ DataTypes'
  BY <1>1, DataTypesStep, Growing DEF DataTypes
<1>3. confirms'[d] <= Cardinality(Requests)
  <2>1. DocumentOK(d)'
    BY DocumentStep
  <2>2. confirms'[d] + Cardinality(Confirming(d)') <= Cardinality(Requests)
    BY <2>1 DEF DocumentOK
  <2>3. Cardinality(Confirming(d)') \in Nat /\ Cardinality(Requests) \in Nat
    BY ConfirmingStep
  <2> QED
    BY <1>2, <2>2, <2>3
<1>4. Entries(d) \in Nat
  <2>1. DOMAIN journal = 1 .. Len(journal) /\ Len(journal) \in Nat
    BY <1>1, SeqLength DEF JournalOK
  <2>2. IsFiniteSet(DOMAIN journal)
    BY <2>1, FS_Interval
  <2> DEFINE S == {i \in DOMAIN journal : journal[i].source = d}
  <2>3. S \in SUBSET DOMAIN journal
    OBVIOUS
  <2> HIDE DEF S
  <2>4. Cardinality(S) \in Nat
    BY <2>2, <2>3, CountType
  <2> QED
    BY <2>4 DEF Entries, S
<1>5. ASSUME NEW r \in Requests, NEW k \in Documents, NEW c \in BOOLEAN, NEW p \in BOOLEAN, Takes(r, k, c, p)
      PROVE  Entries(d)' <= confirms'[d] /\ (Lines[d].serials # {} => confirms'[d] <= 1)
  <2>1. /\ request[r].doc = k /\ confirms' = [confirms EXCEPT ![k] = confirms[k] + 1]
        /\ journal' = journal \/ Appends(r)
    BY <1>1, <1>5, TakesEffect DEF Takes, Appends, Rows, RowOK
  <2>2. confirms[k] > 0 => Lines[k].serials = {}
    BY <1>5, TakesHeld
  <2>3. CASE d = k
    <3>1. confirms'[d] = confirms[d] + 1
      BY <1>1, <2>1, <2>3 DEF DataTypes
    <3>2. Lines[d].serials # {} => confirms[d] = 0
      BY <1>2, <2>2, <2>3
    <3>3. Entries(d)' <= Entries(d) + 1 /\ Entries(d)' \in Nat
      <4>1. journal' = journal => Entries(d)' = Entries(d)
        BY DEF Entries
      <4> QED
        BY <1>1, <1>4, <2>1, <4>1, EntriesStep
    <3> QED
      BY <1>1, <1>2, <1>4, <3>1, <3>2, <3>3
  <2>4. CASE d # k
    <3>1. confirms'[d] = confirms[d]
      BY <1>1, <2>1, <2>4 DEF DataTypes
    <3>2. Entries(d)' = Entries(d)
      <4>1. journal' = journal => Entries(d)' = Entries(d)
        BY DEF Entries
      <4> QED
        BY <1>1, <2>1, <2>4, <4>1, EntriesStep
    <3> QED
      BY <1>1, <3>1, <3>2
  <2> QED
    BY <2>3, <2>4
<1>6. ASSUME NEW r \in Requests, NEW p \in BOOLEAN, Settles(r, p)
      PROVE  Entries(d)' = Entries(d) /\ confirms' = confirms
  <2>1. /\ request[r].doc = None /\ None # d /\ confirms' = confirms
        /\ journal' = journal \/ Appends(r)
    BY <1>1, <1>6, StockAssumption DEF Settles, Appends, Rows, RowOK, Documents
  <2>2. journal' = journal => Entries(d)' = Entries(d)
    BY DEF Entries
  <2> QED
    BY <1>1, <2>1, <2>2, EntriesStep
<1>7. ASSUME journal' = journal, confirms' = confirms
      PROVE  Entries(d)' = Entries(d) /\ confirms' = confirms
  BY <1>7 DEF Entries
<1>8. ASSUME \/ \E r \in Requests : \/ RowMoves(r) \/ OrderOpens(r)
                                    \/ \E s \in Serials : UnitMoves(r, s)
             \/ \E o \in Orders : OrderDrafted(o)
             \/ \E k \in Documents : DocumentCreated(k)
             \/ Nothing
      PROVE  journal' = journal /\ confirms' = confirms
  BY <1>8 DEF RowMoves, OrderOpens, UnitMoves, OrderDrafted, DocumentCreated, Nothing
<1>9. \/ \E r \in Requests, k \in Documents, c, p \in BOOLEAN : Takes(r, k, c, p)
      \/ Entries(d)' = Entries(d) /\ confirms' = confirms
  BY <1>6, <1>7, <1>8 DEF StockStep
<1> QED
  BY <1>1, <1>3, <1>5, <1>9

UnitOK(s) ==
    /\ arrived[s] = (IF unit[s] = "NONE" THEN 0 ELSE 1)
    /\ sold[s] = (IF unit[s] = "SOLD" THEN 1 ELSE 0)
    /\ sold[s] = 1 => \E d \in Dispatches : s \in Lines[d].serials /\ confirms[d] = 1

LEMMA UnitsAre == UnitsMoveOnce <=> \A s \in Serials : UnitOK(s)
BY DEF UnitsMoveOnce, UnitOK, Lifecycle

LEMMA UnitStep ==
    ASSUME StockInv, StockStep, NEW s \in Serials
    PROVE  UnitOK(s)'
<1>1. UnitOK(s) /\ DataTypes
  BY TypesAre, UnitsAre DEF StockInv
<1>2. ASSUME NEW r \in Requests, NEW k \in Documents, NEW c \in BOOLEAN, NEW p \in BOOLEAN, Takes(r, k, c, p)
      PROVE  UnitOK(s)'
  <2>1. /\ unit' = [t \in Serials |-> IF t \notin Lines[k].serials THEN unit[t]
                                      ELSE IF k \in Receipts THEN "IN_STOCK" ELSE "SOLD"]
        /\ confirms' = [confirms EXCEPT ![k] = confirms[k] + 1]
    BY <1>2, TakesEffect
  <2>2. /\ arrived' = [t \in Serials |-> IF k \in Receipts /\ t \in Lines[k].serials
                                         THEN arrived[t] + 1 ELSE arrived[t]]
        /\ sold' = [t \in Serials |-> IF k \notin Receipts /\ t \in Lines[k].serials
                                      THEN sold[t] + 1 ELSE sold[t]]
    BY <1>2 DEF Takes, Confirmed
  <2>3. /\ k \in Receipts => k \notin Dispatches /\ \A t \in Lines[k].serials : unit[t] = "NONE"
        /\ k \notin Receipts => k \in Dispatches /\ \A t \in Lines[k].serials : unit[t] = "IN_STOCK"
        /\ confirms[k] > 0 => Lines[k].serials = {}
    BY <1>2, TakesHeld
  <2>4. CASE s \in Lines[k].serials
    <3>1. confirms[k] = 0 /\ confirms'[k] = 1
      BY <1>1, <2>1, <2>3, <2>4 DEF DataTypes
    <3>2. CASE k \in Receipts
      <4>1. unit[s] = "NONE" /\ unit'[s] = "IN_STOCK" /\ arrived'[s] = arrived[s] + 1 /\ sold'[s] = sold[s]
        BY <2>1, <2>2, <2>3, <2>4, <3>2
      <4> QED
        BY <1>1, <4>1 DEF UnitOK
    <3>3. CASE k \notin Receipts
      <4>1. /\ unit[s] = "IN_STOCK" /\ unit'[s] = "SOLD" /\ arrived'[s] = arrived[s]
            /\ sold'[s] = sold[s] + 1 /\ k \in Dispatches
        BY <2>1, <2>2, <2>3, <2>4, <3>3
      <4> QED
        BY <1>1, <2>4, <3>1, <4>1 DEF UnitOK
    <3> QED
      BY <3>2, <3>3
  <2>5. CASE s \notin Lines[k].serials
    <3>1. unit'[s] = unit[s] /\ arrived'[s] = arrived[s] /\ sold'[s] = sold[s]
      BY <2>1, <2>2, <2>5
    <3>2. \A d \in Dispatches : s \in Lines[d].serials => confirms'[d] = confirms[d]
      BY <1>1, <2>1, <2>5 DEF DataTypes, Documents
    <3> QED
      BY <1>1, <3>1, <3>2 DEF UnitOK
  <2> QED
    BY <2>4, <2>5
<1>3. ASSUME NEW r \in Requests, NEW t \in Serials, UnitMoves(r, t) PROVE UnitOK(s)'
  BY <1>1, <1>3 DEF UnitMoves, UnitOK, DataTypes
<1>4. ASSUME unit' = unit, arrived' = arrived, sold' = sold, confirms' = confirms PROVE UnitOK(s)'
  BY <1>1, <1>4 DEF UnitOK
<1>5. ASSUME NEW r \in Requests, NEW p \in BOOLEAN, Settles(r, p) PROVE UnitOK(s)'
  BY <1>4, <1>5, SettlesEffect
<1>6. ASSUME \/ \E r \in Requests : RowMoves(r) \/ OrderOpens(r)
             \/ \E o \in Orders : OrderDrafted(o)
             \/ \E k \in Documents : DocumentCreated(k)
             \/ Nothing
      PROVE  UnitOK(s)'
  <2>1. unit' = unit /\ arrived' = arrived /\ sold' = sold /\ confirms' = confirms
    BY <1>6 DEF RowMoves, OrderOpens, OrderDrafted, DocumentCreated, Nothing
  <2> QED
    BY <1>4, <2>1
<1> QED
  BY <1>2, <1>3, <1>5, <1>6 DEF StockStep

OrderOK(o) ==
    /\ order[o] = "done" => Brought(ConfirmedFor(o)) >= Ordered[o]
    /\ order[o] = "open" /\ Brought(ConfirmedFor(o)) >= Ordered[o] => o \in missed \/ ConfirmedFor(o) = {}

LEMMA OrdersAre == CoveredIsDone <=> \A o \in Orders : OrderOK(o)
BY DEF CoveredIsDone, OrderOK

LEMMA OrderStep ==
    ASSUME StockInv, StockStep, NEW o \in Orders
    PROVE  OrderOK(o)'
<1>1. OrderOK(o) /\ DataTypes /\ Rows
  BY TypesAre, OrdersAre DEF StockInv
<1>2. /\ doc' \in [Documents -> {"none", "draft", "confirmed"}]
      /\ \A d \in Documents : doc[d] = "confirmed" => doc'[d] = "confirmed"
  BY <1>1, Growing DEF DataTypes
<1>3. /\ Brought(ConfirmedFor(o)) >= Ordered[o] => Brought(ConfirmedFor(o)') >= Ordered[o]
      /\ \A d \in Documents : d \in ConfirmedFor(o)' /\ Covered(o, d)
                                 => Brought(ConfirmedFor(o)') >= Ordered[o]
  BY <1>1, <1>2, CoveredMore DEF DataTypes
<1>4. ASSUME doc' = doc, order'[o] = order[o], missed \subseteq missed' PROVE OrderOK(o)'
  <2>1. ConfirmedFor(o)' = ConfirmedFor(o)
    BY <1>4 DEF ConfirmedFor
  <2> QED
    BY <1>1, <1>4, <2>1 DEF OrderOK
<1>5. ASSUME NEW r \in Requests, NEW d \in Documents, NEW c \in BOOLEAN, NEW p \in BOOLEAN, Takes(r, d, c, p)
      PROVE  OrderOK(o)'
  <2> DEFINE x == Lines[d].order
  <2>1. /\ doc' = [doc EXCEPT ![d] = "confirmed"]
        /\ order' = IF c THEN [order EXCEPT ![x] = "done"] ELSE order
    BY <1>5, TakesEffect
  <2>2. /\ missed \subseteq missed'
        /\ x # None /\ Completes(d) /\ ~c => x \in missed'
    BY <1>5 DEF Takes, Confirmed
  <2>3. d \in Receipts \/ d \in Dispatches
    BY DEF Documents
  <2>4. None \notin Orders
    BY StockAssumption DEF Orders
  <2>5. CASE o = x /\ c
    <3>1. order'[o] = "done"
      BY <1>1, <2>1, <2>5 DEF DataTypes
    <3>2. Covered(o, d) /\ d \in ConfirmedFor(o)'
      BY <1>1, <1>5, <2>1, <2>5 DEF Takes, ConfirmedFor, DataTypes
    <3> QED
      BY <1>3, <3>1, <3>2 DEF OrderOK
  <2>6. CASE o = x /\ ~c
    <3>1. order' = order
      BY <2>1, <2>6
    <3>2. ConfirmedFor(o)' = ConfirmedFor(o) \union {d}
      BY <1>1, <2>1, <2>6 DEF ConfirmedFor, DataTypes
    <3>3. Covered(o, d) <=> Brought(ConfirmedFor(o)') >= Ordered[o]
      BY <3>2 DEF Covered
    <3>4. ASSUME order[o] = "open", Brought(ConfirmedFor(o)') >= Ordered[o] PROVE o \in missed'
      <4>1. Completes(d)
        BY <2>3, <2>4, <2>6, <3>3, <3>4 DEF Completes, _maybe_receive_po, _maybe_mark_so_dispatched
      <4> QED
        BY <2>2, <2>4, <2>6, <4>1
    <3> QED
      BY <1>1, <1>3, <3>1, <3>4 DEF OrderOK
  <2>7. CASE o # x
    <3>1. ConfirmedFor(o)' = ConfirmedFor(o)
      BY <1>1, <2>1, <2>7 DEF ConfirmedFor, DataTypes
    <3>2. order'[o] = order[o]
      BY <1>1, <2>1, <2>7 DEF DataTypes
    <3> QED
      BY <1>1, <2>2, <3>1, <3>2 DEF OrderOK
  <2> QED
    BY <2>5, <2>6, <2>7
<1>6. ASSUME NEW r \in Requests, OrderOpens(r) PROVE OrderOK(o)'
  <2> DEFINE x == request[r].doc
  <2>1. /\ x \in Orders /\ order' = [order EXCEPT ![x] = "open"] /\ doc' = doc
        /\ missed \subseteq missed' /\ (ConfirmedFor(x) # {} => x \in missed')
    BY <1>6 DEF OrderOpens
  <2>2. CASE o = x
    <3>1. order'[o] = "open"
      BY <1>1, <2>1, <2>2 DEF DataTypes
    <3>2. ConfirmedFor(o)' = ConfirmedFor(o)
      BY <2>1 DEF ConfirmedFor
    <3> QED
      BY <2>1, <2>2, <3>1, <3>2 DEF OrderOK
  <2>3. CASE o # x
    <3>1. order'[o] = order[o]
      BY <1>1, <2>1, <2>3 DEF DataTypes
    <3> QED
      BY <1>4, <2>1, <3>1
  <2> QED
    BY <2>2, <2>3
<1>7. ASSUME NEW k \in Orders, OrderDrafted(k) PROVE OrderOK(o)'
  <2>1. order' = [order EXCEPT ![k] = "draft"] /\ doc' = doc /\ missed' = missed
    BY <1>7 DEF OrderDrafted
  <2>2. CASE o = k
    <3>1. order'[o] = "draft"
      BY <1>1, <2>1, <2>2 DEF DataTypes
    <3> QED
      BY <3>1 DEF OrderOK
  <2>3. CASE o # k
    <3>1. order'[o] = order[o]
      BY <1>1, <2>1, <2>3 DEF DataTypes
    <3> QED
      BY <1>4, <2>1, <3>1
  <2> QED
    BY <2>2, <2>3
<1>8. ASSUME NEW d \in Documents, DocumentCreated(d) PROVE OrderOK(o)'
  <2>1. /\ doc[d] = "none" /\ doc' = [doc EXCEPT ![d] = "draft"] /\ order' = order
        /\ missed' = missed
    BY <1>8 DEF DocumentCreated
  <2>2. ConfirmedFor(o)' = ConfirmedFor(o)
    BY <1>1, <2>1 DEF ConfirmedFor, DataTypes
  <2> QED
    BY <1>1, <2>1, <2>2 DEF OrderOK
<1>9. ASSUME \/ \E r \in Requests : \/ RowMoves(r)
                                    \/ \E p \in BOOLEAN : Settles(r, p)
                                    \/ \E s \in Serials : UnitMoves(r, s)
             \/ Nothing
      PROVE  OrderOK(o)'
  <2>1. doc' = doc /\ order' = order /\ missed' = missed
    BY <1>9 DEF RowMoves, Settles, UnitMoves, Nothing
  <2> QED
    BY <1>4, <2>1
<1> QED
  BY <1>5, <1>6, <1>7, <1>8, <1>9 DEF StockStep

LEMMA BalanceStep ==
    ASSUME StockInv, StockStep
    PROVE  BalanceIsSum' /\ NeverNegative'
<1>1. /\ DataTypes /\ Rows /\ BalanceIsSum /\ NeverNegative /\ Opening \in Nat
      /\ \A r \in Requests : request[r].view \in Int /\ LookedAt(r)
  BY TypesAre, StockAssumption DEF StockInv, Rows, RowOK
<1>2. /\ bal \in Int /\ moved \in Int
      /\ ~overtaken => bal = Opening + moved
      /\ bal < 0 => TwoLines
  BY <1>1 DEF DataTypes, BalanceIsSum, NeverNegative, TwoLines
<1>3. TwoLines => TwoLines'
  <2>1. \A d \in Dispatches : confirms[d] > 0 => confirms'[d] > 0
    BY <1>1, Growing DEF Documents, DataTypes
  <2> QED
    BY <2>1 DEF TwoLines
<1>4. SUFFICES (~overtaken' => bal' = Opening + moved') /\ (bal' < 0 => TwoLines')
  BY DEF BalanceIsSum, NeverNegative, TwoLines
<1>5. ASSUME NEW r \in Requests, NEW d \in Documents, NEW c \in BOOLEAN, NEW p \in BOOLEAN, Takes(r, d, c, p)
      PROVE  (~overtaken' => bal' = Opening + moved') /\ (bal' < 0 => TwoLines')
  <2> DEFINE v == request[r].view
             sign == IF d \in Receipts THEN 1 ELSE -1
  <2>1. v \in Int /\ (v < 0 => TwoLines)
    BY <1>1 DEF LookedAt
  <2>2. /\ bal' = IF Qty(d) > 0 THEN v + sign * Qty(d) ELSE bal
        /\ moved' = moved + sign * Qty(d)
        /\ ~overtaken' => ~overtaken /\ (d \in Receipts /\ Qty(d) > 0 => v = bal)
    BY <1>5, TakesEffect DEF Takes, Confirmed
  <2>3. /\ Qty(d) \in Nat
        /\ Len(Lines[d].bulk) \in Nat
        /\ Len(Lines[d].bulk) = 0 => Qty(d) = 0
        /\ Len(Lines[d].bulk) = 1 => 1 \in DOMAIN Lines[d].bulk /\ Qty(d) = Lines[d].bulk[1]
    BY QtyType
  <2>4. /\ d \in Receipts \/ d \in Dispatches
        /\ d \in Receipts => d \notin Dispatches
        /\ d \in Dispatches /\ Qty(d) > 0 =>
              v = bal /\ \A i \in DOMAIN Lines[d].bulk : bal >= Lines[d].bulk[i]
    BY <1>5, TakesHeld
  <2> HIDE DEF v
  <2>5. CASE d \in Receipts
    <3>1. sign = 1
      BY <2>5
    <3>2. ~overtaken' => bal' = Opening + moved'
      BY <1>1, <1>2, <2>1, <2>2, <2>3, <2>5, <3>1
    <3>3. bal' < 0 => TwoLines'
      BY <1>2, <1>3, <2>1, <2>2, <2>3, <3>1
    <3> QED
      BY <3>2, <3>3
  <2>6. CASE d \in Dispatches
    <3>1. sign = -1 /\ d \in Dispatches
      BY <2>4, <2>6
    <3>2. ~overtaken' => bal' = Opening + moved'
      BY <1>1, <1>2, <2>1, <2>2, <2>3, <2>4, <3>1
    <3>3. ASSUME bal' < 0 PROVE TwoLines'
      <4>1. CASE Qty(d) = 0
        BY <1>2, <1>3, <2>2, <2>3, <3>3, <4>1
      <4>2. CASE Qty(d) > 0 /\ Len(Lines[d].bulk) = 1
        BY <1>2, <2>1, <2>2, <2>3, <2>4, <3>1, <3>3, <4>2
      <4>3. CASE Len(Lines[d].bulk) > 1
        <5>1. confirms'[d] > 0
          BY <1>1, <1>5, TakesEffect DEF DataTypes
        <5> QED
          BY <3>1, <4>3, <5>1 DEF TwoLines
      <4>4. Qty(d) = 0 \/ (Qty(d) > 0 /\ Len(Lines[d].bulk) = 1) \/ Len(Lines[d].bulk) > 1
        <5> DEFINE n == Len(Lines[d].bulk)
        <5>1. n \in Nat /\ Qty(d) \in Nat /\ (n = 0 => Qty(d) = 0)
          BY <2>3
        <5> HIDE DEF n
        <5>2. Qty(d) = 0 \/ (Qty(d) > 0 /\ n = 1) \/ n > 1
          BY <5>1
        <5> QED
          BY <5>2 DEF n
      <4> QED
        BY <4>1, <4>2, <4>3, <4>4
    <3> QED
      BY <3>2, <3>3
  <2> QED
    BY <2>4, <2>5, <2>6
<1>6. ASSUME NEW r \in Requests, NEW p \in BOOLEAN, Settles(r, p)
      PROVE  (~overtaken' => bal' = Opening + moved') /\ (bal' < 0 => TwoLines')
  <2> DEFINE v == request[r].view
  <2>1. v \in Int /\ (v < 0 => TwoLines) /\ (request[r].op = "lost" => v >= 1)
    BY <1>1 DEF LookedAt
  <2>2. request[r].op \in {"found", "lost"}
    BY <1>6 DEF Settles
  <2>3. /\ bal' = v + Sign(r) /\ moved' = moved + Sign(r)
        /\ ~overtaken' => ~overtaken /\ v = bal
        /\ Sign(r) = IF request[r].op = "found" THEN 1 ELSE -1
    BY <1>6, SettlesEffect
  <2> HIDE DEF v
  <2>4. Sign(r) \in Int
    BY <2>3
  <2>5. ~overtaken' => bal' = Opening + moved'
    BY <1>1, <1>2, <2>3, <2>4
  <2>6. bal' < 0 => TwoLines'
    BY <1>3, <2>1, <2>2, <2>3
  <2> QED
    BY <2>5, <2>6
<1>7. ASSUME bal' = bal, moved' = moved, overtaken' = overtaken
      PROVE  (~overtaken' => bal' = Opening + moved') /\ (bal' < 0 => TwoLines')
  BY <1>2, <1>3, <1>7
<1>8. ASSUME \/ \E r \in Requests : \/ RowMoves(r) \/ OrderOpens(r)
                                    \/ \E s \in Serials : UnitMoves(r, s)
             \/ \E o \in Orders : OrderDrafted(o)
             \/ \E k \in Documents : DocumentCreated(k)
             \/ Nothing
      PROVE  bal' = bal /\ moved' = moved /\ overtaken' = overtaken
  BY <1>8 DEF RowMoves, OrderOpens, UnitMoves, OrderDrafted, DocumentCreated, Nothing
<1> QED
  BY <1>5, <1>6, <1>7, <1>8 DEF StockStep

LEMMA MiscountedType ==
    ASSUME DataTypes
    PROVE  Miscounted \in Int
<1> DEFINE f == [g \in Receipts |-> confirms[g] * (Cardinality(Lines[g].serials) - Lines[g].qty)]
<1>1. IsFiniteSet(Receipts)
  BY StockAssumption
<1>2. ASSUME NEW g \in Receipts PROVE f[g] \in Int
  <2>1. confirms[g] \in Nat /\ Cardinality(Lines[g].serials) - Lines[g].qty \in Int
    BY QtyType DEF DataTypes, Documents
  <2>2. confirms[g] * (Cardinality(Lines[g].serials) - Lines[g].qty) \in Int
    BY <2>1
  <2> QED
    BY <2>2
<1> HIDE DEF f
<1>3. SumFunctionOnSet(f, Receipts) \in Int
  BY <1>1, <1>2, SumType
<1> QED
  BY <1>3 DEF Miscounted, f

\* A sum in which one term has changed.
LEMMA SumChanged ==
    ASSUME NEW S, IsFiniteSet(S), NEW d \in S, NEW f, NEW h,
           \A x \in S : f[x] \in Int /\ h[x] \in Int, \A x \in S \ {d} : f[x] = h[x]
    PROVE  SumFunctionOnSet(h, S) = SumFunctionOnSet(f, S) + (h[d] - f[d])
<1>1. /\ S \in SUBSET S
      /\ \A x \in S : f[x] \in Int
      /\ \A x \in S : h[x] \in Int
      /\ \A x \in S \ {d} : (x \in S <=> x \in S) /\ (x \in S => f[x] = h[x])
  OBVIOUS
<1>2. SumFunctionOnSet(h, S) + Share(d \in S, f[d]) = SumFunctionOnSet(f, S) + Share(d \in S, h[d])
  BY <1>1, SumStep
<1>3. SumFunctionOnSet(h, S) \in Int /\ SumFunctionOnSet(f, S) \in Int
  BY <1>1, SumType
<1>4. f[d] \in Int /\ h[d] \in Int
  OBVIOUS
<1> QED
  BY <1>2, <1>3, <1>4 DEF Share

\* A receipt adds its own difference to those of the receipts before it.
LEMMA MiscountedStep ==
    ASSUME DataTypes, DataTypes'
    PROVE  /\ Miscounted \in Int
           /\ confirms' = confirms => Miscounted' = Miscounted
           /\ \A d \in Documents : confirms' = [confirms EXCEPT ![d] = @ + 1] =>
                 Miscounted' = Miscounted + IF d \in Receipts THEN Cardinality(Lines[d].serials) - Lines[d].qty ELSE 0
<1> DEFINE k == [g \in Receipts |-> Cardinality(Lines[g].serials) - Lines[g].qty]
           f == [g \in Receipts |-> confirms[g] * (Cardinality(Lines[g].serials) - Lines[g].qty)]
           h == [g \in Receipts |-> confirms'[g] * (Cardinality(Lines[g].serials) - Lines[g].qty)]
<1>1. IsFiniteSet(Receipts) /\ Miscounted = SumFunctionOnSet(f, Receipts)
      /\ Miscounted' = SumFunctionOnSet(h, Receipts)
  BY StockAssumption DEF Miscounted
<1>2. ASSUME NEW g \in Receipts
      PROVE  /\ g \in Documents /\ k[g] \in Int /\ confirms[g] \in Nat /\ confirms'[g] \in Nat
             /\ f[g] = confirms[g] * k[g] /\ h[g] = confirms'[g] * k[g]
             /\ k[g] = Cardinality(Lines[g].serials) - Lines[g].qty
  BY <1>2, QtyType DEF DataTypes, Documents
<1>3. ASSUME NEW a \in Nat, NEW c \in Int
      PROVE  a * c \in Int /\ (a + 1) * c = a * c + c
  OBVIOUS
<1> HIDE DEF k, f, h
<1>4. \A g \in Receipts : f[g] \in Int /\ h[g] \in Int
  BY <1>2, <1>3
<1>5. Miscounted \in Int
  BY MiscountedType
<1>6. ASSUME confirms' = confirms PROVE Miscounted' = Miscounted
  <2>1. \A g \in Receipts : h[g] = f[g] /\ h[g] \in Int
    BY <1>2, <1>4, <1>6
  <2> QED
    BY <1>1, <2>1, SumSame
<1>7. ASSUME NEW d \in Documents, confirms' = [confirms EXCEPT ![d] = @ + 1]
      PROVE  Miscounted' = Miscounted + IF d \in Receipts THEN Cardinality(Lines[d].serials) - Lines[d].qty ELSE 0
  <2>1. ASSUME NEW g \in Receipts, g # d PROVE f[g] = h[g]
    BY <1>2, <1>7, <2>1 DEF DataTypes
  <2>2. CASE d \notin Receipts
    <3>1. \A g \in Receipts : h[g] = f[g] /\ h[g] \in Int
      BY <1>4, <2>1, <2>2
    <3>2. Miscounted' = Miscounted
      BY <1>1, <3>1, SumSame
    <3> QED
      BY <1>5, <2>2, <3>2
  <2>3. CASE d \in Receipts
    <3>1. confirms'[d] = confirms[d] + 1
      BY <1>7 DEF DataTypes
    <3>2. h[d] = f[d] + k[d]
      BY <1>2, <1>3, <2>3, <3>1
    <3>3. /\ \A g \in Receipts : f[g] \in Int /\ h[g] \in Int
          /\ \A g \in Receipts \ {d} : f[g] = h[g]
      BY <1>4, <2>1
    <3>4. SumFunctionOnSet(h, Receipts) = SumFunctionOnSet(f, Receipts) + (h[d] - f[d])
      BY <1>1, <2>3, <3>3, SumChanged
    <3>5. f[d] \in Int /\ k[d] \in Int
      BY <1>2, <1>4, <2>3
    <3>6. h[d] - f[d] = k[d]
      BY <3>2, <3>5
    <3>7. k[d] = Cardinality(Lines[d].serials) - Lines[d].qty
      BY <1>2, <2>3
    <3> QED
      BY <1>1, <2>3, <3>4, <3>6, <3>7
  <2> QED
    BY <2>2, <2>3
<1> QED
  BY <1>5, <1>6, <1>7

LEMMA ValueStep ==
    ASSUME StockInv, StockStep
    PROVE  ValueTies'
<1> DEFINE B == BalanceIn(journal, {"1200"})
           C == BalanceIn(journal', {"1200"})
           N == Cardinality(OnHand)
           M == Cardinality(OnHand')
           X == Miscounted
           Y == Miscounted'
<1>1. DataTypes /\ Rows /\ JournalOK /\ ValueTies /\ DataTypes'
  BY TypesAre, DataTypesStep DEF StockInv
<1>2. Balance("1200") = B /\ Balance("1200")' = C
  BY DEF Balance, sum_by_account, LineSums, PostedEntries, BalanceIn, DebitsIn, CreditsIn, PostedIn
<1>3. B \in Int /\ (journal' = journal => C = B)
  BY <1>1, BalanceType DEF JournalOK
<1>4. ASSUME NEW r \in Requests, Appends(r)
      PROVE  C = B + (IF request[r].doc \in Receipts THEN Value(request[r].doc)
                      ELSE IF request[r].doc \in Dispatches THEN -Value(request[r].doc) ELSE -1)
  <2> DEFINE e == request[r].entry
  <2>1. /\ LinesOK(e) /\ e.status = "posted"
        /\ NetOn(e, {"1200"}) = IF request[r].doc \in Receipts THEN Value(request[r].doc)
                                ELSE IF request[r].doc \in Dispatches THEN -Value(request[r].doc) ELSE -1
    BY <1>4, VoucherLines DEF Appends
  <2>2. journal' = Append(journal, e)
    BY <1>4 DEF Appends
  <2> HIDE DEF e
  <2>3. BalanceIn(Append(journal, e), {"1200"}) = BalanceIn(journal, {"1200"}) + NetOn(e, {"1200"})
    BY <1>1, <2>1, BalanceAppend DEF JournalOK
  <2> QED
    BY <2>1, <2>2, <2>3
<1>5. N \in Nat /\ M \in Nat /\ IsFiniteSet(OnHand) /\ IsFiniteSet(OnHand')
  <2>1. OnHand \in SUBSET Serials /\ OnHand' \in SUBSET Serials /\ IsFiniteSet(Serials)
    BY StockAssumption DEF OnHand
  <2> QED
    BY <2>1, CountType
<1>6. N + moved = B + unposted + 2 * gained + X
  BY <1>1, <1>2 DEF ValueTies
<1>7. moved \in Int /\ unposted \in Int /\ gained \in Nat
  BY <1>1 DEF DataTypes
<1>8. SUFFICES M + moved' = C + unposted' + 2 * gained' + Y
  BY <1>2 DEF ValueTies
<1>14. X \in Int /\ (confirms' = confirms => Y = X)
  BY <1>1, MiscountedStep
<1> HIDE DEF B, C, N, M, X, Y
<1>9. ASSUME NEW r \in Requests, NEW d \in Documents, NEW c \in BOOLEAN, NEW p \in BOOLEAN, Takes(r, d, c, p)
      PROVE  M + moved' = C + unposted' + 2 * gained' + Y
  <2> DEFINE S == Lines[d].serials
             sign == IF d \in Receipts THEN 1 ELSE -1
  <2>1. /\ unit' = [s \in Serials |-> IF s \notin S THEN unit[s]
                                      ELSE IF d \in Receipts THEN "IN_STOCK" ELSE "SOLD"]
        /\ gained' = gained /\ confirms' = [confirms EXCEPT ![d] = @ + 1]
    BY <1>9, TakesEffect
  <2>2. /\ moved' = moved + sign * Qty(d)
        /\ unposted' = IF p THEN unposted ELSE unposted + sign * Value(d)
        /\ p => Appends(r) /\ request[r].doc = d
        /\ ~p => journal' = journal
    BY <1>1, <1>9 DEF Takes, Confirmed, Appends, Rows, RowOK
  <2>3. /\ Qty(d) \in Nat /\ Value(d) \in Nat /\ IsFiniteSet(S) /\ Cardinality(S) \in Nat
        /\ Lines[d].qty \in Nat
        /\ Value(d) = Qty(d) + IF d \in Receipts THEN Lines[d].qty ELSE Cardinality(S)
    BY QtyType
  <2>4. /\ S \subseteq Serials
        /\ d \in Receipts \/ d \in Dispatches
        /\ d \in Receipts => d \notin Dispatches /\ \A s \in S : unit[s] = "NONE"
        /\ d \notin Receipts => d \in Dispatches /\ \A s \in S : unit[s] = "IN_STOCK"
    BY <1>9, TakesHeld
  <2>10. Y = X + IF d \in Receipts THEN Cardinality(S) - Lines[d].qty ELSE 0
    BY <1>1, <2>1, MiscountedStep DEF X, Y
  <2> HIDE DEF S
  <2>5. p => C = B + sign * Value(d) /\ unposted' = unposted
    <3>1. p => C = B + (IF d \in Receipts THEN Value(d) ELSE IF d \in Dispatches THEN -Value(d) ELSE -1)
      BY <1>4, <2>2
    <3> QED
      BY <2>2, <2>3, <2>4, <3>1
  <2>6. ~p => C = B /\ unposted' = unposted + sign * Value(d)
    BY <1>3, <2>2
  <2>7. C + unposted' = B + unposted + sign * Value(d)
    <3>1. sign * Value(d) \in Int
      BY <2>3
    <3> QED
      BY <1>3, <1>7, <2>5, <2>6, <3>1
  <2>8. CASE d \in Receipts
    <3>1. OnHand' = OnHand \union S /\ OnHand \cap S = {}
      BY <1>1, <2>1, <2>4, <2>8 DEF OnHand, DataTypes
    <3>2. Cardinality(OnHand \union S) = N + Cardinality(S)
      BY <1>5, <2>3, <3>1, CountDisjoint DEF N
    <3>3. M = N + Cardinality(S)
      BY <3>1, <3>2 DEF M
    <3> QED
      BY <1>3, <1>5, <1>6, <1>7, <1>14, <2>1, <2>2, <2>3, <2>7, <2>8, <2>10, <3>3
  <2>9. CASE d \notin Receipts
    <3>1. OnHand = OnHand' \union S /\ OnHand' \cap S = {}
      BY <1>1, <2>1, <2>4, <2>9 DEF OnHand, DataTypes
    <3>2. Cardinality(OnHand' \union S) = M + Cardinality(S)
      BY <1>5, <2>3, <3>1, CountDisjoint DEF M
    <3>3. N = M + Cardinality(S)
      BY <3>1, <3>2 DEF N
    <3> QED
      BY <1>3, <1>5, <1>6, <1>7, <1>14, <2>1, <2>2, <2>3, <2>7, <2>9, <2>10, <3>3
  <2> QED
    BY <2>8, <2>9
<1>10. ASSUME NEW r \in Requests, NEW p \in BOOLEAN, Settles(r, p)
       PROVE  M + moved' = C + unposted' + 2 * gained' + Y
  <2>1. /\ moved' = moved + Sign(r) /\ unit' = unit
        /\ unposted' = IF p THEN unposted ELSE unposted + Sign(r)
        /\ gained' = IF p /\ Sign(r) = 1 THEN gained + 1 ELSE gained
    BY <1>10, SettlesEffect
  <2>2. Sign(r) \in {1, -1}
    BY DEF Sign
  <2>3. M = N /\ Y = X
    BY <1>10, <1>14, <2>1 DEF M, N, OnHand, Settles
  <2>4. /\ p => Appends(r) /\ request[r].doc = None
        /\ ~p => journal' = journal
    BY <1>1, <1>10 DEF Settles, Appends, Rows, RowOK
  <2>5. p => C = B - 1
    BY <1>3, <1>4, <2>4, StockAssumption
  <2>6. ~p => C = B
    BY <1>3, <2>4
  <2>7. CASE p
    BY <1>3, <1>5, <1>6, <1>7, <1>14, <2>1, <2>2, <2>3, <2>5, <2>7
  <2>8. CASE ~p
    <3>1. /\ C = B /\ M = N /\ Y = X /\ gained' = gained
          /\ moved' = moved + Sign(r) /\ unposted' = unposted + Sign(r)
      BY <2>1, <2>3, <2>6, <2>8
    <3> QED
      BY <1>3, <1>5, <1>6, <1>7, <1>14, <2>2, <3>1
  <2> QED
    BY <2>7, <2>8
<1>11. ASSUME OnHand' = OnHand, journal' = journal, moved' = moved, unposted' = unposted, gained' = gained,
              confirms' = confirms
       PROVE  M + moved' = C + unposted' + 2 * gained' + Y
  BY <1>3, <1>6, <1>11, <1>14 DEF M, N
<1>12. ASSUME NEW r \in Requests, NEW s \in Serials, UnitMoves(r, s)
       PROVE  M + moved' = C + unposted' + 2 * gained' + Y
  <2>1. OnHand' = OnHand
    BY <1>1, <1>12 DEF UnitMoves, OnHand, DataTypes
  <2> QED
    BY <1>11, <1>12, <2>1 DEF UnitMoves
<1>13. ASSUME \/ \E r \in Requests : RowMoves(r) \/ OrderOpens(r)
              \/ \E o \in Orders : OrderDrafted(o)
              \/ \E k \in Documents : DocumentCreated(k)
              \/ Nothing
       PROVE  /\ OnHand' = OnHand /\ journal' = journal /\ moved' = moved
              /\ unposted' = unposted /\ gained' = gained /\ confirms' = confirms
  BY <1>13 DEF RowMoves, OrderOpens, OrderDrafted, DocumentCreated, Nothing, OnHand
<1> QED
  BY <1>9, <1>10, <1>11, <1>12, <1>13 DEF StockStep

LEMMA VarianceIs ==
    ASSUME DataTypes, JournalOK
    PROVE  VarianceExplained <=> ValueTies
<1> DEFINE P == {s \in Serials : unit[s] = "IN_STOCK"}
           Q == {s \in Serials : unit[s] = "IN_TRANSIT"}
           B == Balance("1200")
           X == Miscounted
<1>1. IsFiniteSet(P) /\ IsFiniteSet(Q) /\ Cardinality(P) \in Nat /\ Cardinality(Q) \in Nat
  BY StockAssumption, CountType
<1>2. OnHand = P \union Q /\ P \cap Q = {}
  BY DEF OnHand
<1>3. Cardinality(OnHand) = Cardinality(P) + Cardinality(Q)
  <2> HIDE DEF P, Q
  <2> QED
    BY <1>1, <1>2, CountDisjoint
<1>4. B \in Int
  BY BalanceIs, BalanceType DEF JournalOK
<1>5. bal \in Int /\ moved \in Int /\ unposted \in Int /\ gained \in Nat /\ Opening \in Nat
  BY StockAssumption DEF DataTypes
<1>8. X \in Int
  BY MiscountedType
<1> HIDE DEF P, Q, B, X
<1>6. VarianceExplained <=> Cardinality(P) + bal - (Opening + B)
                               = unposted + 2 * gained - Cardinality(Q) - (Opening + moved - bal) + X
  <2>1. Variance = Cardinality(P) + bal - (Opening + B)
    <3>1. StockValue = Cardinality(P) + bal
      BY Zenon DEF StockValue, P
    <3>2. Variance = StockValue - (Opening + B)
      BY Zenon DEF Variance, B
    <3> QED
      BY <1>1, <1>4, <1>5, <3>1, <3>2
  <2>2. VarianceExplained <=> Variance = unposted + 2 * gained - Cardinality(Q) - (Opening + moved - bal) + X
    BY Zenon DEF VarianceExplained, Q, X
  <2> QED
    BY <2>1, <2>2
<1>7. ValueTies <=> Cardinality(P) + Cardinality(Q) + moved = B + unposted + 2 * gained + X
  BY <1>3 DEF ValueTies, B, X
<1> DEFINE p == Cardinality(P)
           q == Cardinality(Q)
<1>9. p \in Int /\ q \in Int
  BY <1>1
<1>10. /\ VarianceExplained <=> p + bal - (Opening + B)
                                 = unposted + 2 * gained - q - (Opening + moved - bal) + X
       /\ ValueTies <=> p + q + moved = B + unposted + 2 * gained + X
  BY <1>6, <1>7
<1> HIDE DEF p, q
<1>11. p + bal - (Opening + B) = unposted + 2 * gained - q - (Opening + moved - bal) + X
         <=> p + q + moved = B + unposted + 2 * gained + X
  BY <1>4, <1>5, <1>8, <1>9
<1> QED
  BY <1>10, <1>11, Zenon

-----------------------------------------------------------------------------
(* The invariant *)

LEMMA InitStockInv == StockInit => StockInv
<1> SUFFICES ASSUME StockInit PROVE StockInv
  OBVIOUS
<1> USE DEF StockInit, LedgerInit
<1>1. \A r \in Requests : request[r] = Idle
  OBVIOUS
<1>2. Rows /\ \A r \in Requests : Locked(r) = {}
  BY <1>1, IdleIs, LockedIs DEF Rows, Busy
<1>3. journal = << >> /\ DOMAIN journal = {} /\ IsSeq(journal) /\ JournalOK /\ EntryRows
  <2>1. journal = << >> /\ DOMAIN journal = {}
    OBVIOUS
  <2>2. IsSeq(journal)
    BY <2>1, EmptySeq DEF IsSeq
  <2> QED
    BY <2>1, <2>2 DEF JournalOK, AllLinesOK, EntryRows
<1>4. Counters /\ DataTypes
  <2>1. /\ period \in [Periods -> {"open", "closed"}] /\ stragglers \in [Periods -> SUBSET Requests]
        /\ sequence \in [DocTypes -> Nat] /\ holder \in [DocTypes -> Requests \union {None}]
    OBVIOUS
  <2>2. /\ requests \in 0 .. MaxRequests /\ periodMoves \in 0 .. MaxPeriodMoves
        /\ adjustments \in 0 .. MaxAdjustments
    BY LedgerAssumption, StockAssumption
  <2>3. /\ order \in [Orders -> {"none", "draft", "open", "done"}]
        /\ doc \in [Documents -> {"none", "draft", "confirmed"}]
        /\ unit \in [Serials -> {"NONE", "IN_STOCK", "SOLD", "IN_TRANSIT"}]
    OBVIOUS
  <2>4. bal \in Int /\ moved \in Int /\ unposted \in Int /\ gained \in Nat
    BY StockAssumption
  <2>5. /\ arrived \in [Serials -> Nat] /\ sold \in [Serials -> Nat]
        /\ confirms \in [Documents -> Nat]
        /\ overtaken \in BOOLEAN /\ missed \subseteq Orders
    OBVIOUS
  <2>6. Counters
    BY <2>1, <2>2 DEF Counters
  <2>7. DataTypes
    BY <2>3, <2>4, <2>5 DEF DataTypes
  <2> QED
    BY <2>6, <2>7
<1>5. Exclusive
  BY <1>2 DEF Exclusive
<1>6. \A r \in Requests : Held(r) /\ LookedAt(r) /\ SeenCovered(r)
  BY <1>1, IdleIs DEF Held, LookedAt, SeenCovered
<1>7. IsFiniteSet({}) /\ Cardinality({}) = 0 /\ Cardinality(Requests) \in Nat
  BY FS_EmptySet, FS_CardinalityType, LedgerAssumption
<1>8. \A d \in Documents : DocumentOK(d)
  <2>1. \A d \in Documents : Confirming(d) = {}
    BY <1>1, IdleIs DEF Confirming
  <2> SUFFICES ASSUME NEW d \in Documents PROVE DocumentOK(d)
    OBVIOUS
  <2>2. confirms[d] = 0 /\ Cardinality(Confirming(d)) = 0
    BY <1>7, <2>1
  <2>3. confirms[d] + Cardinality(Confirming(d)) <= Cardinality(Requests)
    BY <1>7, <2>2
  <2> QED
    BY <2>2, <2>3 DEF DocumentOK
<1>9. UnitsMoveOnce
  BY DEF UnitsMoveOnce, Lifecycle
<1>10. PostedOncePerOverlap
  <2>1. \A d \in Documents : Entries(d) = 0
    BY <1>3, <1>7 DEF Entries
  <2> QED
    BY <1>7, <2>1 DEF PostedOncePerOverlap
<1>11. CoveredIsDone
  BY DEF CoveredIsDone
<1>12. BalanceIsSum /\ NeverNegative
  BY StockAssumption DEF BalanceIsSum, NeverNegative
<1>13. ValueTies
  <2>1. OnHand = {} /\ PostedIn(journal) = {}
    BY <1>3 DEF OnHand, PostedIn
  <2>2. BalanceIn(journal, {"1200"}) = 0
    <3>1. \A f : SumFunctionOnSet(f, {}) = 0
      BY SumEmpty
    <3>2. /\ SumFunctionOnSet(DebitsIn(journal, {"1200"}), PostedIn(journal)) = 0
          /\ SumFunctionOnSet(CreditsIn(journal, {"1200"}), PostedIn(journal)) = 0
      BY <2>1, <3>1, Zenon
    <3> HIDE DEF StockInit, LedgerInit
    <3> QED
      BY <3>2 DEF BalanceIn
  <2>3. Miscounted = 0
    <3> DEFINE f == [g \in Receipts |-> confirms[g] * (Cardinality(Lines[g].serials) - Lines[g].qty)]
    <3>1. IsFiniteSet(Receipts) /\ \A g \in Receipts : f[g] = 0
      BY StockAssumption, QtyType DEF Documents
    <3> HIDE DEF f
    <3>2. SumFunctionOnSet(f, Receipts) = 0
      BY <3>1, SumZero
    <3> QED
      BY <3>2 DEF Miscounted, f
  <2> QED
    BY <1>7, <2>1, <2>2, <2>3, BalanceIs DEF ValueTies
<1> QED
  BY <1>2, <1>3, <1>4, <1>5, <1>6, <1>8, <1>9, <1>10, <1>11, <1>12, <1>13, TypesAre DEF StockInv

LEMMA StepStockInv == StockInv /\ [StockNext]_stockVars => StockInv'
<1> SUFFICES ASSUME StockInv, [StockNext]_stockVars PROVE StockInv'
  OBVIOUS
<1>1. StockStep
  BY StockKinds
<1>2. Counters /\ EntryRows /\ DataTypes /\ Rows /\ JournalOK /\ Exclusive
  BY TypesAre DEF StockInv
<1>3. Counters'
  BY <1>2, CountersStep
<1>4. JournalOK' /\ EntryRows' /\ Rows' /\ Exclusive' /\ DataTypes'
  BY <1>1, <1>2, JournalStep, RowsStep, ExclusiveStep, DataTypesStep
<1>5. \A r \in Requests : Held(r)' /\ LookedAt(r)' /\ SeenCovered(r)'
  BY <1>1, HeldStep, LookedAtStep, SeenCoveredStep
<1>6. \A d \in Documents : DocumentOK(d)'
  BY <1>1, DocumentStep
<1>7. BalanceIsSum' /\ NeverNegative' /\ ValueTies'
  BY <1>1, BalanceStep, ValueStep
<1>8. UnitsMoveOnce'
  <2>1. \A s \in Serials : UnitOK(s)'
    BY <1>1, UnitStep
  <2> QED
    BY <2>1 DEF UnitsMoveOnce, UnitOK, Lifecycle
<1>9. PostedOncePerOverlap'
  <2>1. \A d \in Documents : /\ Entries(d)' <= confirms'[d] /\ confirms'[d] <= Cardinality(Requests)
                             /\ Lines[d].serials # {} => confirms'[d] <= 1
    BY <1>1, PostedStep
  <2> QED
    BY <2>1 DEF PostedOncePerOverlap
<1>10. CoveredIsDone'
  <2>1. \A o \in Orders : OrderOK(o)'
    BY <1>1, OrderStep
  <2> QED
    BY <2>1 DEF CoveredIsDone, OrderOK
<1>11. StockTypeOK'
  BY <1>3, <1>4, TypesAre DEF StockTypeOK, LedgerTypeOK, Counters, EntryRows, DataTypes
<1> QED
  BY <1>4, <1>5, <1>6, <1>7, <1>11, <1>8, <1>9, <1>10 DEF StockInv

\* In every reachable state the rows that a confirmation has locked are its own
\* and as it found them, a document is confirmed by no more requests than
\* overlapped, an order's coverage does not shrink, and account 1200 is tied to
\* what has been moved: for any documents, units, requests and periods.
THEOREM StockInvariance == StockSpec => []StockInv
<1>1. StockInit => StockInv
  BY InitStockInv
<1>2. StockInv /\ [StockNext]_stockVars => StockInv'
  BY StepStockInv
<1> QED
  BY <1>1, <1>2, PTL DEF StockSpec

\* StockService and the confirmations: a serialized unit arrives once and is sold
\* once, the bulk balance is the sum of its movements until one writes over a
\* balance it never saw, and the variance against account 1200 is made of the
\* four things that reconcile_to_gl can show, and of nothing else.
THEOREM StockSoundness == StockSpec => []StockIsSound
<1>1. StockInv => StockIsSound
  <2> SUFFICES ASSUME StockInv PROVE StockIsSound
    OBVIOUS
  <2>1. VarianceExplained
    BY TypesAre, VarianceIs DEF StockInv
  <2> QED
    BY <2>1 DEF StockInv, StockIsSound
<1> QED
  BY <1>1, StockInvariance, PTL

\* GRNService.confirm and DispatchService.confirm: a document has no more entries
\* than confirmations and one that moves a unit has one of each; and an order is
\* done when, and only when, its confirmed documents cover it, short of the orders
\* whose last look was too early.
THEOREM DocumentEffects == StockSpec => []DocumentsTakeEffectOnce
<1>1. StockInv => DocumentsTakeEffectOnce
  BY DEF StockInv, DocumentsTakeEffectOnce
<1> QED
  BY <1>1, StockInvariance, PTL

-----------------------------------------------------------------------------
(* The inductive invariant of Books *)

Final  == {"paid", "void"}

BillOps    == {"issue bill", "void bill", "allocate bill"}
InvoiceOps == {"issue invoice", "void invoice", "allocate"}

\* An entry that the gates have let through.
EntryOK(e) == DOMAIN e = EntryFields /\ e.voucher \in Vouchers /\ e.date \in Periods

\* A request with an entry overlaps every closing since it passed the gates.
EntrySound(r) == request[r].pc \in {"accepted", "numbered"} =>
    /\ EntryOK(request[r].entry)
    /\ period[request[r].entry.date] = "closed" => r \in stragglers[request[r].entry.date]

\* One that will write a bill has read it before it was finished, or is known to
\* have been under way then.
BillSound(r) ==
    /\ request[r].op \in BillOps =>
          /\ request[r].doc[1] \in Bills
          /\ bill[request[r].doc[1]] \in Final => r \in stale[request[r].doc[1]]
    /\ request[r].op = "reconcile" => request[r].doc[1] \in SupplierPayments

\* So for invoices; an allocation that has found it paid does not write it.
InvoiceSound(r) ==
    /\ request[r].op \in InvoiceOps =>
          /\ request[r].doc[1] \in Invoices
          /\ \/ invoice[request[r].doc[1]] \in Final => r \in outdated[request[r].doc[1]]
             \/ request[r].op = "allocate" /\ request[r].doc[4] = "paid"
    /\ request[r].op = "sweep" => \A i \in request[r].view :
          i \in Invoices /\ (invoice[i] \in Final => r \in outdated[i])

\* Who has a number has locked the sequence it is from.
NumberSound(r) ==
    /\ request[r].pc = "numbered" =>
          /\ holder[request[r].entry.voucher] = r
          /\ request[r].entry.no = sequence[request[r].entry.voucher] + 1
    /\ request[r].pc = "idle" => request[r] = Idle

Shape ==
    /\ DOMAIN request = Requests /\ \A r \in Requests : DOMAIN request[r] = Fields
    /\ period \in [Periods -> {"open", "closed"}] /\ stragglers \in [Periods -> SUBSET Requests]
    /\ sequence \in [DocTypes -> Nat] /\ holder \in [DocTypes -> Requests \union {None}]
    /\ bill \in [Bills -> BillStatus] /\ stale \in [Bills -> SUBSET Requests]
    /\ payment \in [SupplierPayments -> PaymentStatus]
    /\ note \in [DebitNotes -> {"none", "draft"}]
    /\ number \in [Bills \union SupplierPayments \union DebitNotes -> Nat]
    /\ invoice \in [Invoices -> InvoiceStatus] /\ outdated \in [Invoices -> SUBSET Requests]
    /\ IsSeq(journal) /\ \A i \in DOMAIN journal : EntryOK(journal[i])

\* A document has its number from its creation on.
Unnumbered ==
    /\ \A b \in Bills : bill[b] = "none" => number[b] = 0
    /\ \A p \in SupplierPayments : payment[p] = "none" => number[p] = 0
    /\ \A n \in DebitNotes : note[n] = "none" => number[n] = 0

\* The entries and documents that a sequence has numbered.
EntriesOf(j, type) == {i \in DOMAIN j : j[i].voucher = type}
OfType(type) == CASE type = "supplier_bill"    -> Bills
                  [] type = "supplier_payment" -> SupplierPayments
                  [] type = "debit_note"       -> DebitNotes
                  [] OTHER                     -> {}
DocumentsOf(n, type) == {d \in OfType(type) : n[d] > 0}

Numbered(j, n, type, last) ==
    /\ IsFiniteSet(EntriesOf(j, type)) /\ IsFiniteSet(DocumentsOf(n, type))
    /\ {j[i].no : i \in EntriesOf(j, type)} \union {n[d] : d \in DocumentsOf(n, type)} = 1 .. last
    /\ Cardinality(EntriesOf(j, type)) + Cardinality(DocumentsOf(n, type)) = last

AllNumbered == \A type \in DocTypes : Numbered(journal, number, type, sequence[type])

IInv ==
    /\ Shape /\ Unnumbered /\ AllNumbered
    /\ \A r \in Requests : EntrySound(r) /\ BillSound(r) /\ InvoiceSound(r) /\ NumberSound(r)

-----------------------------------------------------------------------------
(* What the steps do, seen from the invariant *)

IsRow(e) == /\ DOMAIN e = Fields
            /\ e.pc = "accepted" => EntryOK(e.entry) /\ period[e.entry.date] = "open"

\* A request has passed its checks, and nothing else has changed.
Enters(r) ==
    /\ request[r].pc = "idle"
    /\ request' = [request EXCEPT ![r] = request'[r]]
    /\ IsRow(request'[r]) /\ request'[r].pc \in {"accepted", "begun"}
    /\ request'[r].op \in BillOps =>
          request'[r].doc[1] \in Bills /\ bill[request'[r].doc[1]] \notin Final
    /\ request'[r].op = "reconcile" => request'[r].doc[1] \in SupplierPayments
    /\ request'[r].op \in InvoiceOps =>
          /\ request'[r].doc[1] \in Invoices
          /\ \/ invoice[request'[r].doc[1]] \notin Final
             \/ request'[r].op = "allocate" /\ request'[r].doc[4] = "paid"
    /\ request'[r].op = "sweep" =>
          \A i \in request'[r].view : i \in Invoices /\ invoice[i] \notin Final
    /\ UNCHANGED <<ledger, payables, receivables>>

\* A request goes on without a commit.
GoesOn(r) ==
    /\ request[r].pc # "idle"
    /\ request' = [request EXCEPT ![r] = request'[r]]
    /\ IsRow(request'[r]) /\ request'[r].pc \in {"accepted", "unposted", "applied"}
    /\ request'[r].op = request[r].op /\ request'[r].doc = request[r].doc
    /\ request[r].op # "sweep"
    /\ UNCHANGED <<ledger, payables, receivables>>

\* What is in the journal stays there, up to the marks of a reversal.
SameEntries(j) ==
    /\ IsSeq(j) /\ Len(j) = Len(journal) /\ DOMAIN j = DOMAIN journal
    /\ \A i \in DOMAIN journal :
          EntryOK(j[i]) /\ j[i].voucher = journal[i].voucher /\ j[i].no = journal[i].no

Posts(r) ==
    /\ request[r].pc = "numbered"
    /\ \E j : SameEntries(j) /\ journal' = Append(j, request[r].entry)
    /\ sequence' = [sequence EXCEPT ![request[r].entry.voucher] = @ + 1]
    /\ holder' = Release(r)

\* The bills that a request writes are its own; what it finishes, those know that
\* have read it.
BillsBy(r) ==
    /\ bill' \in [Bills -> BillStatus] /\ stale' \in [Bills -> SUBSET Requests]
    /\ payment' \in [SupplierPayments -> PaymentStatus]
    /\ \A p \in SupplierPayments : payment'[p] = "none" => payment[p] = "none"
    /\ \A b \in Bills :
          /\ bill'[b] = "none" => bill[b] = "none"
          /\ bill'[b] # bill[b] => request[r].op \in BillOps /\ request[r].doc[1] = b
          /\ \/ stale'[b] = stale[b] /\ (bill'[b] = bill[b] \/ bill'[b] \notin Final)
             \/ stale'[b] = Reading(b)

Writes(r, i) ==
    \/ /\ request[r].op \in InvoiceOps /\ request[r].doc[1] = i
       /\ request[r].op = "allocate" => request[r].doc[4] # "paid"
    \/ request[r].op = "sweep" /\ i \in request[r].view

InvoicesBy(r) ==
    /\ invoice' \in [Invoices -> InvoiceStatus] /\ outdated' \in [Invoices -> SUBSET Requests]
    /\ \A i \in Invoices :
          /\ invoice'[i] # invoice[i] => Writes(r, i)
          /\ \/ outdated'[i] = outdated[i] /\ (invoice'[i] = invoice[i] \/ invoice'[i] \notin Final)
             \/ outdated'[i] = ReadingInvoice(i)

\* A request commits, or is rolled back.
Ends(r) ==
    /\ request[r].pc # "idle" /\ request' = [request EXCEPT ![r] = Idle]
    /\ UNCHANGED <<period, stragglers, number, note>>
    /\ Posts(r) \/ (UNCHANGED <<journal, sequence>> /\ holder' \in {holder, Release(r)})
    /\ BillsBy(r) /\ InvoicesBy(r)

\* A document is created, with the next number of its sequence.
Creates(type, d) ==
    /\ type \in DocTypes /\ d \in OfType(type) /\ number[d] = 0 /\ holder[type] = None
    /\ sequence' = [sequence EXCEPT ![type] = @ + 1]
    /\ number' = [number EXCEPT ![d] = sequence[type] + 1]
    /\ bill' \in [Bills -> BillStatus] /\ payment' \in [SupplierPayments -> PaymentStatus]
    /\ note' \in [DebitNotes -> {"none", "draft"}]
    /\ \A b \in Bills : (bill'[b] = bill[b] /\ b # d) \/ (b = d /\ bill[b] = "none" /\ bill'[b] = "draft")
    /\ \A p \in SupplierPayments : (payment'[p] = payment[p] /\ p # d) \/ (p = d /\ payment'[p] = "uncleared")
    /\ \A n \in DebitNotes : (note'[n] = note[n] /\ n # d) \/ (n = d /\ note'[n] = "draft")
    /\ UNCHANGED <<period, stragglers, journal, holder, request, stale, receivables>>

\* The update of the bills that are due, and the creation of an invoice.
Drifts ==
    /\ bill' \in [Bills -> BillStatus] /\ invoice' \in [Invoices -> InvoiceStatus]
    /\ \A b \in Bills : bill'[b] = bill[b] \/ (bill[b] \notin Final /\ bill'[b] \notin Final \union {"none"})
    /\ \A i \in Invoices : invoice'[i] = invoice[i] \/ (invoice[i] \notin Final /\ invoice'[i] \notin Final)
    /\ UNCHANGED <<ledger, request, payment, note, number, stale, outdated>>

Moves(p) == (ClosePeriod(p) \/ ReopenPeriod(p)) /\ UNCHANGED <<payables, receivables>>

-----------------------------------------------------------------------------
(* Which step is which *)

USE DEF Fields, EntryFields, Final, BillOps, InvoiceOps

LEMMA EntryRow ==
    ASSUME NEW v \in Vouchers, NEW p \in Periods, NEW ls, NEW s, NEW d
    PROVE  EntryOK(Entry(v, p, ls, s, d)) /\ Entry(v, p, ls, s, d).date = p
BY DEF EntryOK, Entry

\* What the gates let through is dated in an open period.
LEMMA GateIsOpen ==
    ASSUME NEW e, Acceptable(e)
    PROVE  period[e.date] = "open"
BY DEF Acceptable, get_open_period

LEMMA PostedPosts ==
    ASSUME IInv, NEW r \in Requests, Posted(r)
    PROVE  Posts(r)
<1>1. SameEntries(journal)
  BY DEF IInv, Shape, SameEntries
<1> QED
  BY <1>1 DEF Posted, Posts

LEMMA PayablesKinds ==
    ASSUME IInv, NEW r \in Requests, PayablesStep(r), UNCHANGED receivables
    PROVE  Enters(r) \/ Ends(r)
<1> USE DEF Enter, IsRow, At
<1> USE IInv DEF IInv, Shape
<1>1. ASSUME NEW b \in Bills, IssueBill(r, b)
      PROVE  Enters(r)
  <2>1. EntryOK(BillEntry(b)) /\ period[BillEntry(b).date] = "open"
    BY <1>1, EntryRow, GateIsOpen, PayablesAssumption DEF IssueBill, BillEntry, Vouchers
  <2> QED
    BY <1>1, <2>1 DEF IssueBill, Enters
<1>2. ASSUME NEW b \in Bills, VoidBill(r, b)
      PROVE  Enters(r)
  BY <1>2 DEF VoidBill, Enters, BillStatus
<1>3. ASSUME NEW b \in Bills, NEW p \in SupplierPayments, NEW amount, AllocateBill(r, p, b, amount)
      PROVE  Enters(r)
  BY <1>3 DEF AllocateBill, Enters
<1>4. ASSUME NEW p \in SupplierPayments, ReconcileSupplierPayment(r, p)
      PROVE  Enters(r)
  <2>1. EntryOK(PaymentEntry(p)) /\ period[PaymentEntry(p).date] = "open"
    BY <1>4, EntryRow, GateIsOpen, PayablesAssumption DEF ReconcileSupplierPayment, PaymentEntry, Vouchers
  <2> QED
    BY <1>4, <2>1 DEF ReconcileSupplierPayment, Enters
<1>5. UNCHANGED receivables => InvoicesBy(r)
  BY DEF InvoicesBy, receivables
<1> USE <1>5 DEF Respond
<1>6. CASE CommitBill(r)
  <2>1. BillsBy(r)
    BY <1>6 DEF CommitBill, BillsBy, BillStatus
  <2> QED
    BY <1>6, <2>1, PostedPosts DEF CommitBill, Ends
<1>7. CASE CommitVoidBill(r)
  <2>1. BillsBy(r)
    BY <1>7 DEF CommitVoidBill, BillsBy, BillStatus, Reading
  <2> QED
    BY <1>7, <2>1 DEF CommitVoidBill, Ends, ledger
<1>8. CASE CommitAllocateBill(r)
  <2>1. BillsBy(r)
    BY <1>8 DEF CommitAllocateBill, BillsBy, BillStatus, Reading
  <2> QED
    BY <1>8, <2>1 DEF CommitAllocateBill, Ends, ledger
<1>9. CASE CommitReconcile(r)
  <2>1. BillsBy(r)
    BY <1>9 DEF CommitReconcile, BillsBy, PaymentStatus
  <2> QED
    BY <1>9, <2>1, PostedPosts DEF CommitReconcile, Ends
<1> QED
  BY <1>1, <1>2, <1>3, <1>4, <1>6, <1>7, <1>8, <1>9 DEF PayablesStep

LEMMA ReceivablesKinds ==
    ASSUME IInv, NEW r \in Requests, ReceivablesStep(r), UNCHANGED payables
    PROVE  Enters(r) \/ GoesOn(r) \/ Ends(r)
<1> USE DEF Enter, IsRow, At
<1> USE IInv DEF IInv, Shape
<1>1. ASSUME NEW i \in Invoices, IssueInvoice(r, i) \/ VoidInvoice(r, i)
      PROVE  Enters(r)
  <2>1. CASE IssueInvoice(r, i)
    BY <2>1 DEF IssueInvoice, Enters
  <2>2. CASE VoidInvoice(r, i)
    BY <2>2 DEF VoidInvoice, Enters
  <2> QED
    BY <1>1, <2>1, <2>2
<1>2. ASSUME NEW i \in Invoices, NEW p \in CustomerPayments, NEW amount, Allocate(r, p, i, amount)
      PROVE  Enters(r)
  BY <1>2 DEF Allocate, Enters
<1>3. CASE Sweep(r)
  BY <1>3 DEF Sweep, Enters, list_overdue_and_issued
<1>4. CASE FlushInvoice(r)
  <2> DEFINE e == _on_invoice_created(request[r].doc[1])
  <2>1. request[r].doc[1] \in Invoices
    BY <1>4 DEF FlushInvoice, InvoiceSound
  <2>2. EntryOK(e)
    BY <2>1, EntryRow, ReceivablesAssumption DEF _on_invoice_created, Vouchers
  <2>3. Acceptable(e) => period[e.date] = "open"
    BY GateIsOpen
  <2> QED
    BY <1>4, <2>2, <2>3 DEF FlushInvoice, Emit, GoesOn
<1>5. CASE Apply(r)
  BY <1>5 DEF Apply, GoesOn
<1>6. UNCHANGED payables => BillsBy(r)
  BY DEF BillsBy, payables
<1> USE <1>6 DEF Respond
<1>7. CASE CommitSweep(r)
  <2>1. InvoicesBy(r)
    BY <1>7 DEF CommitSweep, InvoicesBy, InvoiceStatus, BillStatus, Writes
  <2> QED
    BY <1>7, <2>1 DEF CommitSweep, Ends, ledger, payables
<1>8. CASE CommitInvoice(r)
  <2>1. InvoicesBy(r)
    BY <1>8 DEF CommitInvoice, InvoicesBy, InvoiceStatus, BillStatus, Writes
  <2> QED
    BY <1>8, <2>1, PostedPosts DEF CommitInvoice, Ends, Posted, payables
<1>9. CASE CommitVoidInvoice(r)
  <2>1. InvoicesBy(r)
    <3>1. /\ request[r].op = "void invoice"
          /\ invoice' = [invoice EXCEPT ![request[r].doc[1]] = "void"]
          /\ outdated' = [outdated EXCEPT ![request[r].doc[1]] = ReadingInvoice(request[r].doc[1])]
      BY <1>9 DEF CommitVoidInvoice
    <3>2. ReadingInvoice(request[r].doc[1]) \in SUBSET Requests
      BY DEF ReadingInvoice
    <3>3. \A i \in Invoices : invoice'[i] # invoice[i] => Writes(r, i)
      BY <3>1 DEF Writes
    <3> QED
      BY <3>1, <3>2, <3>3 DEF InvoicesBy, InvoiceStatus, BillStatus
  <2> QED
    BY <1>9, <2>1 DEF CommitVoidInvoice, Ends, ledger, payables
<1>10. CASE CommitAllocation(r)
  <2> DEFINE writes == request[r].entry.paid /\ request[r].doc[4] # "paid"
  <2>1. request[r].op = "allocate" /\ request[r].doc[1] \in Invoices
    BY <1>10 DEF CommitAllocation, InvoiceSound
  <2>2. InvoicesBy(r)
    <3>1. CASE writes
      <4>1. /\ invoice' = [invoice EXCEPT ![request[r].doc[1]] = "paid"]
            /\ outdated' = [outdated EXCEPT ![request[r].doc[1]] = ReadingInvoice(request[r].doc[1])]
        BY <1>10, <3>1 DEF CommitAllocation
      <4>2. ReadingInvoice(request[r].doc[1]) \in SUBSET Requests
        BY DEF ReadingInvoice
      <4>3. \A i \in Invoices : invoice'[i] # invoice[i] => Writes(r, i)
        BY <2>1, <3>1, <4>1 DEF Writes
      <4> QED
        BY <4>1, <4>2, <4>3 DEF InvoicesBy, InvoiceStatus, BillStatus
    <3>2. CASE ~writes
      <4>1. UNCHANGED <<invoice, outdated>>
        BY <1>10, <3>2 DEF CommitAllocation
      <4> QED
        BY <4>1 DEF InvoicesBy
    <3> QED
      BY <3>1, <3>2
  <2> QED
    BY <1>10, <2>2 DEF CommitAllocation, Ends, ledger, payables
<1> QED
  BY <1>1, <1>2, <1>3, <1>4, <1>5, <1>7, <1>8, <1>9, <1>10 DEF ReceivablesStep

\* The marks that a reversal leaves on its original.
LEMMA MarkedEntries ==
    ASSUME IInv, NEW v, NEW m
    PROVE  SameEntries([journal EXCEPT ![v].status = "reversed", ![v].mirror = m])
<1> DEFINE j == [journal EXCEPT ![v].status = "reversed", ![v].mirror = m]
<1>1. PICK S : journal \in Seq(S)
  BY DEF IInv, Shape, IsSeq
<1>2. Len(journal) \in Nat /\ DOMAIN journal = 1 .. Len(journal) /\ journal \in [1 .. Len(journal) -> S]
  BY <1>1, LenProperties
<1>3. \A i \in DOMAIN journal :
         EntryOK(j[i]) /\ j[i].voucher = journal[i].voucher /\ j[i].no = journal[i].no
  BY DEF IInv, Shape, EntryOK
<1>4. j \in [1 .. Len(journal) -> {j[i] : i \in 1 .. Len(journal)}]
  BY <1>2
<1> HIDE DEF j
<1>5. j \in Seq({j[i] : i \in 1 .. Len(journal)}) /\ DOMAIN j = 1 .. Len(journal)
  BY <1>2, <1>4, SeqDef
<1>6. Len(j) = Len(journal)
  BY <1>2, <1>5, LenProperties
<1>7. SameEntries(j)
  BY <1>2, <1>3, <1>5, <1>6 DEF SameEntries, IsSeq
<1> QED
  BY <1>7 DEF j

LEMMA LedgerKinds ==
    ASSUME IInv, NEW r \in Requests, LedgerStep(r), UNCHANGED <<payables, receivables>>
    PROVE  Enters(r) \/ NextEntryNo(r) \/ Ends(r)
<1> USE DEF Enter, IsRow, At
<1> USE IInv DEF IInv, Shape
<1>1. ASSUME NEW v \in {"journal_entry", "debit_note"}, NEW p \in Periods, NEW ls,
             CreateJournal(r, v, p, ls)
      PROVE  Enters(r)
  <2>1. EntryOK(Entry(v, p, ls, FALSE, None))
    BY EntryRow DEF Vouchers
  <2>2. period[Entry(v, p, ls, FALSE, None).date] = "open"
    BY <1>1, GateIsOpen DEF CreateJournal
  <2> QED
    BY <1>1, <2>1, <2>2 DEF CreateJournal, Enters
<1>2. ASSUME NEW i \in DOMAIN journal, ReverseJournal(r, i)
      PROVE  Enters(r)
  <2>1. EntryOK(Mirror(i))
    <3>1. journal[i].voucher \in Vouchers /\ journal[i].date \in Periods
      BY DEF EntryOK
    <3> QED
      BY <3>1, EntryRow DEF Mirror
  <2>2. period[Mirror(i).date] = "open"
    BY <1>2, GateIsOpen DEF ReverseJournal
  <2> QED
    BY <1>2, <2>1, <2>2 DEF ReverseJournal, Enters
<1>3. BillsBy(r) /\ InvoicesBy(r)
  BY DEF BillsBy, InvoicesBy, payables, receivables
<1> USE <1>3 DEF Respond
<1>4. CASE CommitJournal(r)
  BY <1>4, PostedPosts DEF CommitJournal, Ends, payables
<1>5. CASE CommitReversal(r)
  <2> DEFINE j == [journal EXCEPT ![request[r].view].status = "reversed",
                                  ![request[r].view].mirror = Len(journal) + 1]
  <2>1. SameEntries(j)
    BY MarkedEntries
  <2>2. journal' = Append(j, request[r].entry)
    BY <1>5 DEF CommitReversal
  <2> HIDE DEF j
  <2> QED
    BY <1>5, <2>1, <2>2 DEF CommitReversal, Ends, payables, Posts
<1>6. CASE Rollback(r)
  BY <1>6 DEF Rollback, Ends, payables
<1> QED
  BY <1>1, <1>2, <1>4, <1>5, <1>6 DEF LedgerStep

LEMMA CreationKinds ==
    ASSUME IInv,
           \/ CreatePayable /\ UNCHANGED receivables
           \/ BillsOverdue /\ UNCHANGED receivables
           \/ CreateReceivable /\ UNCHANGED payables
    PROVE  Drifts \/ \E type, d : Creates(type, d)
<1> USE IInv DEF IInv, Shape, Unnumbered, ledger, payables, receivables
<1>1. ASSUME NEW b \in Bills, CreateBill(b), UNCHANGED receivables
      PROVE  Creates("supplier_bill", b)
  BY <1>1, PayablesAssumption
  DEF CreateBill, _next_doc_number, Creates, DocTypes, OfType, BillStatus
<1>2. ASSUME NEW p \in SupplierPayments, CreateSupplierPayment(p), UNCHANGED receivables
      PROVE  Creates("supplier_payment", p)
  BY <1>2, PayablesAssumption
  DEF CreateSupplierPayment, _next_doc_number, Creates, DocTypes, OfType, PaymentStatus
<1>3. ASSUME NEW n \in DebitNotes, CreateDebitNote(n), UNCHANGED receivables
      PROVE  Creates("debit_note", n)
  BY <1>3, PayablesAssumption
  DEF CreateDebitNote, _next_doc_number, Creates, DocTypes, Vouchers, OfType
<1>4. ASSUME BillsOverdue, UNCHANGED receivables
      PROVE  Drifts
  BY <1>4 DEF BillsOverdue, Drifts, BillStatus
<1>5. ASSUME NEW i \in Invoices, CreateInvoice(i), UNCHANGED payables
      PROVE  Drifts
  BY <1>5 DEF CreateInvoice, Drifts, InvoiceStatus, BillStatus
<1>6. ASSUME NEW p \in CustomerPayments, CreateCustomerPayment(p), UNCHANGED payables
      PROVE  Drifts
  BY <1>6 DEF CreateCustomerPayment, Drifts
<1> QED
  BY <1>1, <1>2, <1>3, <1>4, <1>5, <1>6 DEF CreatePayable, CreateReceivable

\* Every step is of one of these kinds.
LEMMA Kinds ==
    ASSUME IInv, Next
    PROVE  \/ \E r \in Requests : Enters(r) \/ GoesOn(r) \/ Ends(r)
           \/ \E r \in Requests : NextEntryNo(r) /\ UNCHANGED <<payables, receivables>>
           \/ \E type, d : Creates(type, d)
           \/ \E p \in Periods : Moves(p)
           \/ Drifts
<1>1. CASE \/ CreatePayable /\ UNCHANGED <<receivables, inUse>>
           \/ BillsOverdue /\ UNCHANGED <<receivables, inUse>>
           \/ CreateReceivable /\ UNCHANGED <<payables, inUse>>
  BY <1>1, CreationKinds
<1>2. ASSUME NEW r \in Requests, PayablesStep(r), UNCHANGED <<receivables, inUse>>
      PROVE  Enters(r) \/ GoesOn(r) \/ Ends(r)
  BY <1>2, PayablesKinds
<1>3. ASSUME NEW r \in Requests, ReceivablesStep(r), UNCHANGED <<payables, inUse>>
      PROVE  Enters(r) \/ GoesOn(r) \/ Ends(r)
  BY <1>3, ReceivablesKinds
<1>4. ASSUME NEW r \in Requests, LedgerStep(r), UNCHANGED <<payables, receivables, inUse>>
      PROVE  Enters(r) \/ NextEntryNo(r) \/ Ends(r)
  BY <1>4, LedgerKinds
<1>5. ASSUME NEW p \in Periods, ClosePeriod(p) \/ ReopenPeriod(p), UNCHANGED <<payables, receivables, inUse>>
      PROVE  Moves(p)
  BY <1>5 DEF Moves
<1> QED
  BY <1>1, <1>2, <1>3, <1>4, <1>5 DEF Next

-----------------------------------------------------------------------------
(* Entries, bills and invoices of the requests under way *)

LEMMA EntryStep ==
    ASSUME IInv, Next, NEW q \in Requests
    PROVE  EntrySound(q)'
<1> USE IInv DEF IInv, Shape, EntrySound
<1>1. ASSUME NEW r \in Requests, Enters(r) \/ GoesOn(r)
      PROVE  EntrySound(q)'
  BY <1>1 DEF Enters, GoesOn, IsRow, ledger
<1>2. ASSUME NEW r \in Requests, Ends(r)
      PROVE  EntrySound(q)'
  BY <1>2 DEF Ends, Idle
<1>3. ASSUME NEW r \in Requests, NextEntryNo(r)
      PROVE  EntrySound(q)'
  <2>1. CASE q = r
    <3>1. /\ EntryOK(request[r].entry)
          /\ period[request[r].entry.date] = "closed" => r \in stragglers[request[r].entry.date]
      BY <1>3 DEF NextEntryNo
    <3>2. EntryOK(request'[r].entry) /\ request'[r].entry.date = request[r].entry.date
      BY <1>3, <3>1 DEF NextEntryNo, EntryOK
    <3> QED
      BY <1>3, <2>1, <3>1, <3>2 DEF NextEntryNo
  <2>2. CASE q # r
    BY <1>3, <2>2 DEF NextEntryNo
  <2> QED
    BY <2>1, <2>2
<1>4. ASSUME NEW type, NEW d, Creates(type, d)
      PROVE  EntrySound(q)'
  BY <1>4 DEF Creates
<1>5. CASE Drifts
  BY <1>5 DEF Drifts, ledger
<1>6. ASSUME NEW p \in Periods, Moves(p)
      PROVE  EntrySound(q)'
  BY <1>6 DEF Moves, ClosePeriod, ReopenPeriod, Passed, EntryOK
<1> QED
  BY <1>1, <1>2, <1>3, <1>4, <1>5, <1>6, Kinds

\* Who goes on has the operation and the document that it had.
LEMMA SameRequest ==
    ASSUME IInv, NEW r \in Requests, GoesOn(r) \/ NextEntryNo(r), NEW q \in Requests
    PROVE  /\ request'[q].op = request[q].op /\ request'[q].doc = request[q].doc
           /\ request[q].op = "sweep" => request'[q].view = request[q].view
BY DEF GoesOn, NextEntryNo, IInv, Shape

\* Who has an operation is under way.
LEMMA UnderWay ==
    ASSUME IInv, NEW q \in Requests, request[q].op # "none"
    PROVE  request[q].pc # "idle"
<1>1. NumberSound(q)
  BY DEF IInv
<1>2. request[q].pc = "idle" => request[q] = Idle
  BY <1>1 DEF NumberSound
<1> QED
  BY <1>2 DEF Idle

LEMMA BillStep ==
    ASSUME IInv, Next, NEW q \in Requests
    PROVE  BillSound(q)'
<1> USE IInv DEF IInv, Shape, BillSound
<1>1. ASSUME NEW r \in Requests, Enters(r)
      PROVE  BillSound(q)'
  BY <1>1 DEF Enters, payables
<1>2. ASSUME NEW r \in Requests, GoesOn(r) \/ NextEntryNo(r), UNCHANGED payables
      PROVE  BillSound(q)'
  BY <1>2, SameRequest DEF payables
<1>3. ASSUME NEW r \in Requests, Ends(r)
      PROVE  BillSound(q)'
  <2>1. CASE q = r
    BY <1>3, <2>1 DEF Ends, Idle
  <2>2. CASE q # r /\ request[q].op \in BillOps
    <3>1. request[q].pc # "idle"
      BY <2>2, UnderWay
    <3>2. q \in Reading(request[q].doc[1])
      BY <3>1 DEF Reading
    <3>3. request'[q] = request[q] /\ BillsBy(r)
      BY <1>3, <2>2 DEF Ends
    <3>4. request[q].doc[1] \in Bills
      BY <2>2
    <3>5. bill[request[q].doc[1]] \in Final => q \in stale[request[q].doc[1]]
      BY <2>2
    <3>6. bill'[request[q].doc[1]] \in Final => q \in stale'[request[q].doc[1]]
      <4> DEFINE b == request[q].doc[1]
      <4>1. \/ stale'[b] = stale[b] /\ (bill'[b] = bill[b] \/ bill'[b] \notin Final)
            \/ stale'[b] = Reading(b)
        BY <3>3, <3>4 DEF BillsBy
      <4> QED
        BY <3>2, <3>5, <4>1
    <3> QED
      BY <2>2, <3>3, <3>4, <3>6
  <2>3. CASE q # r /\ request[q].op \notin BillOps
    BY <1>3, <2>3 DEF Ends
  <2> QED
    BY <2>1, <2>2, <2>3
<1>4. ASSUME NEW type, NEW d, Creates(type, d)
      PROVE  BillSound(q)'
  BY <1>4 DEF Creates
<1>5. CASE Drifts
  BY <1>5 DEF Drifts
<1>6. ASSUME NEW p \in Periods, Moves(p)
      PROVE  BillSound(q)'
  BY <1>6 DEF Moves, ClosePeriod, ReopenPeriod, payables
<1>7. ASSUME NEW r \in Requests, GoesOn(r)
      PROVE  UNCHANGED payables
  BY <1>7 DEF GoesOn
<1> QED
  BY <1>1, <1>2, <1>3, <1>4, <1>5, <1>6, <1>7, Kinds

LEMMA InvoiceStep ==
    ASSUME IInv, Next, NEW q \in Requests
    PROVE  InvoiceSound(q)'
<1> USE IInv DEF IInv, Shape, InvoiceSound
<1>1. ASSUME NEW r \in Requests, Enters(r)
      PROVE  InvoiceSound(q)'
  BY <1>1 DEF Enters, receivables
<1>2. ASSUME NEW r \in Requests, GoesOn(r) \/ NextEntryNo(r), UNCHANGED receivables
      PROVE  InvoiceSound(q)'
  BY <1>2, SameRequest DEF receivables
<1>3. ASSUME NEW r \in Requests, Ends(r)
      PROVE  InvoiceSound(q)'
  <2>1. CASE q = r
    BY <1>3, <2>1 DEF Ends, Idle
  <2>2. CASE q # r /\ request[q].op \in InvoiceOps
    <3>1. request[q].pc # "idle"
      BY <2>2, UnderWay
    <3>2. q \in ReadingInvoice(request[q].doc[1])
      BY <2>2, <3>1 DEF ReadingInvoice
    <3> QED
      BY <1>3, <2>2, <3>2 DEF Ends, InvoicesBy
  <2>3. CASE q # r /\ request[q].op = "sweep"
    <3>1. request[q].pc # "idle"
      BY <2>3, UnderWay
    <3>2. \A i \in request[q].view : q \in ReadingInvoice(i)
      BY <2>3, <3>1 DEF ReadingInvoice
    <3>3. request'[q] = request[q] /\ InvoicesBy(r)
      BY <1>3, <2>3 DEF Ends
    <3>4. \A i \in request[q].view : invoice'[i] \in Final => q \in outdated'[i]
      BY <2>3, <3>2, <3>3 DEF InvoicesBy
    <3> QED
      BY <2>3, <3>3, <3>4
  <2>4. CASE q # r /\ request[q].op \notin InvoiceOps \union {"sweep"}
    BY <1>3, <2>4 DEF Ends
  <2> QED
    BY <2>1, <2>2, <2>3, <2>4
<1>4. ASSUME NEW type, NEW d, Creates(type, d)
      PROVE  InvoiceSound(q)'
  BY <1>4 DEF Creates, receivables
<1>5. CASE Drifts
  BY <1>5 DEF Drifts
<1>6. ASSUME NEW p \in Periods, Moves(p)
      PROVE  InvoiceSound(q)'
  BY <1>6 DEF Moves, ClosePeriod, ReopenPeriod, receivables
<1>7. ASSUME NEW r \in Requests, GoesOn(r)
      PROVE  UNCHANGED receivables
  BY <1>7 DEF GoesOn
<1> QED
  BY <1>1, <1>2, <1>3, <1>4, <1>5, <1>6, <1>7, Kinds

LEMMA NumberStep ==
    ASSUME IInv, Next, NEW q \in Requests
    PROVE  NumberSound(q)'
<1> USE IInv DEF IInv, Shape, NumberSound
<1>1. ASSUME NEW r \in Requests, Enters(r) \/ GoesOn(r)
      PROVE  NumberSound(q)'
  BY <1>1 DEF Enters, GoesOn, ledger
<1>2. ASSUME NEW r \in Requests, NextEntryNo(r)
      PROVE  NumberSound(q)'
  <2>1. /\ EntryOK(request[r].entry)
        /\ request[q].pc = "numbered" => EntryOK(request[q].entry)
    BY <1>2 DEF NextEntryNo, EntrySound
  <2>2. CASE q = r
    BY <1>2, <2>1, <2>2 DEF NextEntryNo, EntryOK, DocTypes
  <2>3. CASE q # r
    BY <1>2, <2>1, <2>3, LedgerAssumption DEF NextEntryNo, EntryOK, DocTypes
  <2> QED
    BY <2>2, <2>3
<1>3. ASSUME NEW r \in Requests, Ends(r)
      PROVE  NumberSound(q)'
  <2>1. CASE q = r
    BY <1>3, <2>1 DEF Ends, Idle
  <2>2. CASE q # r
    <3>1. request'[q] = request[q]
      BY <1>3, <2>2 DEF Ends
    <3>2. request[q].pc = "numbered" => EntryOK(request[q].entry) /\ request[q].entry.voucher \in DocTypes
      BY DEF EntrySound, EntryOK, DocTypes
    <3>3. CASE UNCHANGED <<journal, sequence>> /\ holder' \in {holder, Release(r)}
      BY <2>2, <3>1, <3>2, <3>3 DEF Release
    <3>4. CASE Posts(r)
      BY <2>2, <3>1, <3>2, <3>4 DEF Posts, Release
    <3> QED
      BY <1>3, <3>3, <3>4 DEF Ends
  <2> QED
    BY <2>1, <2>2
<1>4. ASSUME NEW type, NEW d, Creates(type, d)
      PROVE  NumberSound(q)'
  <2>1. request[q].pc = "numbered" => EntryOK(request[q].entry) /\ request[q].entry.voucher \in DocTypes
    BY DEF EntrySound, EntryOK, DocTypes
  <2> QED
    BY <1>4, <2>1, LedgerAssumption DEF Creates
<1>5. CASE Drifts
  BY <1>5 DEF Drifts, ledger
<1>6. ASSUME NEW p \in Periods, Moves(p)
      PROVE  NumberSound(q)'
  BY <1>6 DEF Moves, ClosePeriod, ReopenPeriod
<1> QED
  BY <1>1, <1>2, <1>3, <1>4, <1>5, <1>6, Kinds

-----------------------------------------------------------------------------
(* The journal, the documents and their numbers *)

\* An entry that is appended is the last, and the others stay where they are.
LEMMA AppendEntry ==
    ASSUME IInv, NEW j, SameEntries(j), NEW e, EntryOK(e)
    PROVE  /\ Len(journal) \in Nat /\ DOMAIN journal = 1 .. Len(journal)
           /\ IsSeq(Append(j, e)) /\ DOMAIN Append(j, e) = 1 .. Len(journal) + 1
           /\ \A i \in DOMAIN journal : Append(j, e)[i] = j[i]
           /\ Append(j, e)[Len(journal) + 1] = e
           /\ \A i \in 1 .. Len(journal) + 1 : EntryOK(Append(j, e)[i])
<1>1. PICK S : journal \in Seq(S)
  BY DEF IInv, Shape, IsSeq
<1>2. Len(journal) \in Nat /\ DOMAIN journal = 1 .. Len(journal)
  BY <1>1, LenProperties
<1>3. PICK T : j \in Seq(T)
  BY DEF SameEntries, IsSeq
<1>4. j \in Seq(T \union {e})
  BY <1>3, SeqMonotonic
<1>5. /\ Append(j, e) \in Seq(T \union {e})
      /\ Len(Append(j, e)) = Len(j) + 1
      /\ \A i \in 1 .. Len(j) : Append(j, e)[i] = j[i]
      /\ Append(j, e)[Len(j) + 1] = e
  BY <1>4, AppendProperties
<1>6. DOMAIN Append(j, e) = 1 .. Len(Append(j, e))
  BY <1>5, LenProperties
<1>7. Len(j) = Len(journal) /\ \A i \in 1 .. Len(journal) : EntryOK(j[i])
  BY <1>2 DEF SameEntries
<1>8. \A i \in 1 .. Len(journal) + 1 : EntryOK(Append(j, e)[i])
  <2>1. ASSUME NEW i \in 1 .. Len(journal) + 1
        PROVE  EntryOK(Append(j, e)[i])
    <3>1. CASE i = Len(journal) + 1
      BY <1>5, <1>7, <3>1
    <3>2. CASE i # Len(journal) + 1
      <4>1. i \in 1 .. Len(journal)
        BY <1>2, <3>2
      <4>2. Append(j, e)[i] = j[i]
        BY <1>5, <1>7, <4>1
      <4> QED
        BY <1>7, <4>1, <4>2
    <3> QED
      BY <3>1, <3>2
  <2> QED
    BY <2>1
<1> QED
  BY <1>2, <1>5, <1>6, <1>7, <1>8 DEF IsSeq

\* What a request posts is sound and numbered next in its sequence.
LEMMA PostedEntry ==
    ASSUME IInv, NEW r \in Requests, Posts(r)
    PROVE  /\ EntryOK(request[r].entry) /\ request[r].entry.voucher \in Vouchers
           /\ request[r].entry.no = sequence[request[r].entry.voucher] + 1
           /\ holder[request[r].entry.voucher] = r
BY DEF IInv, Posts, EntrySound, NumberSound, EntryOK

LEMMA ShapeStep ==
    ASSUME IInv, Next
    PROVE  Shape'
<1> USE IInv DEF IInv
<1>1. ASSUME NEW r \in Requests, Enters(r) \/ GoesOn(r)
      PROVE  Shape'
  <2>1. DOMAIN request' = Requests /\ \A q \in Requests : DOMAIN request'[q] = Fields
    BY <1>1 DEF Enters, GoesOn, IsRow, Shape
  <2>2. UNCHANGED <<ledger, payables, receivables>>
    BY <1>1 DEF Enters, GoesOn
  <2> QED
    BY <2>1, <2>2 DEF Shape, ledger, payables, receivables, IsSeq
<1>2. ASSUME NEW r \in Requests, NextEntryNo(r), UNCHANGED <<payables, receivables>>
      PROVE  Shape'
  <2>1. \A q \in Requests : DOMAIN request'[q] = Fields
    BY <1>2 DEF NextEntryNo, Shape
  <2>2. DOMAIN request' = Requests /\ holder' \in [DocTypes -> Requests \union {None}]
    BY <1>2 DEF NextEntryNo, Shape
  <2> QED
    BY <1>2, <2>1, <2>2 DEF NextEntryNo, Shape, payables, receivables, IsSeq
<1>3. ASSUME NEW r \in Requests, Ends(r)
      PROVE  Shape'
  <2>1. DOMAIN request' = Requests /\ \A q \in Requests : DOMAIN request'[q] = Fields
    BY <1>3 DEF Ends, Shape, Idle
  <2>2. holder' \in [DocTypes -> Requests \union {None}]
    BY <1>3 DEF Ends, Shape, Posts, Release
  <2>3. sequence' \in [DocTypes -> Nat]
    BY <1>3 DEF Ends, Shape, Posts
  <2>4. IsSeq(journal') /\ \A i \in DOMAIN journal' : EntryOK(journal'[i])
    <3>1. CASE Posts(r)
      <4> DEFINE e == request[r].entry
      <4>1. EntryOK(e)
        BY <3>1, PostedEntry
      <4>2. PICK j : SameEntries(j) /\ journal' = Append(j, e)
        BY <3>1 DEF Posts
      <4> HIDE DEF e
      <4>3. /\ IsSeq(Append(j, e)) /\ DOMAIN Append(j, e) = 1 .. Len(journal) + 1
            /\ \A i \in 1 .. Len(journal) + 1 : EntryOK(Append(j, e)[i])
        BY <4>1, <4>2, AppendEntry
      <4> QED
        BY <4>2, <4>3
    <3>2. CASE UNCHANGED journal
      BY <3>2 DEF Shape, IsSeq
    <3> QED
      BY <1>3, <3>1, <3>2 DEF Ends
  <2>5. /\ period' \in [Periods -> {"open", "closed"}] /\ stragglers' \in [Periods -> SUBSET Requests]
        /\ bill' \in [Bills -> BillStatus] /\ stale' \in [Bills -> SUBSET Requests]
        /\ payment' \in [SupplierPayments -> PaymentStatus]
        /\ note' \in [DebitNotes -> {"none", "draft"}]
        /\ number' \in [Bills \union SupplierPayments \union DebitNotes -> Nat]
        /\ invoice' \in [Invoices -> InvoiceStatus] /\ outdated' \in [Invoices -> SUBSET Requests]
    BY <1>3 DEF Ends, Shape, BillsBy, InvoicesBy
  <2> QED
    BY <2>1, <2>2, <2>3, <2>4, <2>5 DEF Shape, IsSeq
<1>4. ASSUME NEW type, NEW d, Creates(type, d)
      PROVE  Shape'
  <2>1. /\ sequence' \in [DocTypes -> Nat]
        /\ number' \in [Bills \union SupplierPayments \union DebitNotes -> Nat]
    <3>1. /\ sequence' = [sequence EXCEPT ![type] = @ + 1] /\ type \in DocTypes
          /\ number' = [number EXCEPT ![d] = sequence[type] + 1]
      BY <1>4 DEF Creates
    <3>2. /\ sequence \in [DocTypes -> Nat]
          /\ number \in [Bills \union SupplierPayments \union DebitNotes -> Nat]
      BY DEF Shape
    <3>3. sequence[type] + 1 \in Nat
      BY <3>1, <3>2
    <3>4. sequence' \in [DocTypes -> Nat]
      BY <3>1, <3>2, <3>3
    <3>5. number' \in [Bills \union SupplierPayments \union DebitNotes -> Nat]
      BY <3>1, <3>2, <3>3
    <3> QED
      BY <3>4, <3>5
  <2>2. /\ bill' \in [Bills -> BillStatus] /\ payment' \in [SupplierPayments -> PaymentStatus]
        /\ note' \in [DebitNotes -> {"none", "draft"}]
    BY <1>4 DEF Creates
  <2>3. UNCHANGED <<period, stragglers, journal, holder, request, stale, invoice, outdated>>
    BY <1>4 DEF Creates, receivables
  <2> QED
    BY <2>1, <2>2, <2>3 DEF Shape, IsSeq
<1>5. CASE Drifts
  BY <1>5 DEF Drifts, Shape, ledger, IsSeq
<1>6. ASSUME NEW p \in Periods, Moves(p)
      PROVE  Shape'
  <2>1. /\ period' \in [Periods -> {"open", "closed"}] /\ stragglers' \in [Periods -> SUBSET Requests]
    BY <1>6 DEF Moves, ClosePeriod, ReopenPeriod, Passed, Shape
  <2>2. UNCHANGED <<journal, sequence, holder, request, payables, receivables>>
    BY <1>6 DEF Moves, ClosePeriod, ReopenPeriod
  <2> QED
    BY <2>1, <2>2 DEF Shape, payables, receivables, IsSeq
<1> QED
  BY <1>1, <1>2, <1>3, <1>4, <1>5, <1>6, Kinds

LEMMA UnnumberedStep ==
    ASSUME IInv, Next
    PROVE  Unnumbered'
<1> USE IInv DEF IInv, Shape, Unnumbered
<1>1. ASSUME UNCHANGED payables
      PROVE  Unnumbered'
  BY <1>1 DEF payables
<1>2. ASSUME NEW r \in Requests, Ends(r)
      PROVE  Unnumbered'
  BY <1>2 DEF Ends, BillsBy
<1>3. ASSUME NEW type, NEW d, Creates(type, d)
      PROVE  Unnumbered'
  BY <1>3 DEF Creates
<1>4. CASE Drifts
  BY <1>4 DEF Drifts
<1> QED
  BY <1>1, <1>2, <1>3, <1>4, Kinds DEF Enters, GoesOn, Moves

LEMMA NoneNumbered ==
    ASSUME NEW j, NEW n, NEW type, EntriesOf(j, type) = {}, DocumentsOf(n, type) = {}
    PROVE  Numbered(j, n, type, 0)
<1>1. {j[i].no : i \in {}} = {} /\ {n[d] : d \in {}} = {} /\ 1 .. 0 = {}
  OBVIOUS
<1>2. IsFiniteSet({}) /\ Cardinality({}) = 0
  BY FS_EmptySet
<1> QED
  BY <1>1, <1>2 DEF Numbered

\* Nothing of a type is added, and its numbers stay what they are.
LEMMA NumberedSame ==
    ASSUME NEW j, NEW jj, NEW n, NEW nn, NEW type, NEW last, Numbered(j, n, type, last),
           EntriesOf(jj, type) = EntriesOf(j, type),
           \A i \in EntriesOf(j, type) : jj[i].no = j[i].no,
           \A d \in OfType(type) : nn[d] = n[d]
    PROVE  Numbered(jj, nn, type, last)
<1>1. DocumentsOf(nn, type) = DocumentsOf(n, type)
  BY DEF DocumentsOf
<1>2. {jj[i].no : i \in EntriesOf(jj, type)} = {j[i].no : i \in EntriesOf(j, type)}
  OBVIOUS
<1>3. {nn[d] : d \in DocumentsOf(nn, type)} = {n[d] : d \in DocumentsOf(n, type)}
  BY <1>1 DEF DocumentsOf
<1> QED
  BY <1>1, <1>2, <1>3 DEF Numbered

\* One more, with the next number: an entry, or a document.
LEMMA NumberedMore ==
    ASSUME NEW last \in Nat, NEW S, NEW T, NEW x, x \notin S, NEW A, NEW B,
           IsFiniteSet(S), IsFiniteSet(T), A \union B = 1 .. last,
           Cardinality(S) + Cardinality(T) = last
    PROVE  /\ IsFiniteSet(S \union {x})
           /\ (A \union {last + 1}) \union B = 1 .. last + 1
           /\ Cardinality(S \union {x}) + Cardinality(T) = last + 1
<1>1. IsFiniteSet(S \union {x}) /\ Cardinality(S \union {x}) = Cardinality(S) + 1
  BY FS_AddElement
<1>2. Cardinality(S) \in Nat /\ Cardinality(T) \in Nat
  BY FS_CardinalityType
<1>3. 1 .. last + 1 = (1 .. last) \union {last + 1}
  OBVIOUS
<1> QED
  BY <1>1, <1>2, <1>3

LEMMA EntryNumbered ==
    ASSUME IInv, NEW j, SameEntries(j), NEW e, EntryOK(e), e.voucher \in DocTypes,
           e.no = sequence[e.voucher] + 1, NEW type \in DocTypes
    PROVE  Numbered(Append(j, e), number, type,
                    IF type = e.voucher THEN sequence[type] + 1 ELSE sequence[type])
<1> DEFINE jj == Append(j, e)
           len == Len(journal)
<1>1. Numbered(journal, number, type, sequence[type]) /\ sequence[type] \in Nat
  BY DEF IInv, AllNumbered, Shape
<1>2. /\ len \in Nat /\ DOMAIN journal = 1 .. len /\ DOMAIN jj = 1 .. len + 1
      /\ \A i \in 1 .. len : jj[i] = j[i]
      /\ jj[len + 1] = e
  BY AppendEntry
<1>3. \A i \in 1 .. len : j[i].voucher = journal[i].voucher /\ j[i].no = journal[i].no
  BY <1>2 DEF SameEntries
<1> HIDE DEF jj, len
<1>4. CASE type # e.voucher
  <2>1. EntriesOf(jj, type) = EntriesOf(journal, type)
    BY <1>2, <1>3, <1>4 DEF EntriesOf
  <2>2. \A i \in EntriesOf(journal, type) : jj[i].no = journal[i].no
    BY <1>2, <1>3 DEF EntriesOf
  <2> QED
    BY <1>1, <1>4, <2>1, <2>2, NumberedSame DEF jj
<1>5. CASE type = e.voucher
  <2> DEFINE S == EntriesOf(journal, type)
             T == DocumentsOf(number, type)
             A == {journal[i].no : i \in S}
             B == {number[d] : d \in T}
  <2>1. EntriesOf(jj, type) = S \union {len + 1}
    BY <1>2, <1>3, <1>5 DEF EntriesOf
  <2>2. S \in SUBSET (1 .. len) /\ len + 1 \notin S
    BY <1>2 DEF EntriesOf
  <2>3. /\ \A i \in S : jj[i].no = journal[i].no
        /\ jj[len + 1].no = sequence[type] + 1
    BY <1>2, <1>3, <1>5, <2>2
  <2>4. /\ IsFiniteSet(S) /\ IsFiniteSet(T) /\ A \union B = 1 .. sequence[type]
        /\ Cardinality(S) + Cardinality(T) = sequence[type]
    BY <1>1 DEF Numbered
  <2> HIDE DEF S
  <2>5. {jj[i].no : i \in S \union {len + 1}} = A \union {sequence[type] + 1}
    <3>1. {jj[i].no : i \in S \union {len + 1}} = {jj[i].no : i \in S} \union {jj[len + 1].no}
      OBVIOUS
    <3>2. \A y : y \in {jj[i].no : i \in S} <=> y \in A
      <4>1. ASSUME NEW i \in S
            PROVE  jj[i].no \in A /\ journal[i].no \in {jj[k].no : k \in S}
        <5>1. jj[i].no = journal[i].no
          BY <2>3
        <5>2. journal[i].no \in A /\ jj[i].no \in {jj[k].no : k \in S}
          OBVIOUS
        <5> QED
          BY <5>1, <5>2, Zenon
      <4> QED
        BY <4>1
    <3> QED
      BY <2>3, <3>1, <3>2
  <2> HIDE DEF T, A, B
  <2>6. /\ IsFiniteSet(S \union {len + 1})
        /\ (A \union {sequence[type] + 1}) \union B = 1 .. sequence[type] + 1
        /\ Cardinality(S \union {len + 1}) + Cardinality(T) = sequence[type] + 1
    <3> DEFINE x == len + 1
               last == sequence[type]
    <3>1. last \in Nat /\ x \notin S /\ IsFiniteSet(S) /\ IsFiniteSet(T)
      BY <1>1, <2>2, <2>4
    <3>2. A \union B = 1 .. last /\ Cardinality(S) + Cardinality(T) = last
      BY <2>4
    <3> HIDE DEF x, last
    <3>3. /\ IsFiniteSet(S \union {x})
          /\ (A \union {last + 1}) \union B = 1 .. last + 1
          /\ Cardinality(S \union {x}) + Cardinality(T) = last + 1
      BY <3>1, <3>2, NumberedMore
    <3> QED
      BY <3>3 DEF x, last
  <2>7. Numbered(jj, number, type, sequence[type] + 1)
    BY <2>1, <2>4, <2>5, <2>6 DEF Numbered, T, B
  <2> QED
    BY <1>5, <2>7 DEF jj
<1> QED
  BY <1>4, <1>5

LEMMA DocumentNumbered ==
    ASSUME IInv, NEW kind \in DocTypes, NEW d, Creates(kind, d), NEW type \in DocTypes
    PROVE  Numbered(journal, number', type, sequence'[type])
<1>1. Numbered(journal, number, type, sequence[type]) /\ sequence[type] \in Nat
  BY DEF IInv, AllNumbered, Shape
<1>2. /\ d \in OfType(kind) /\ number[d] = 0
      /\ sequence' = [sequence EXCEPT ![kind] = @ + 1]
      /\ number' = [number EXCEPT ![d] = sequence[kind] + 1]
  BY DEF Creates
<1>3. \A t \in DocTypes : OfType(t) \subseteq Bills \union SupplierPayments \union DebitNotes
  BY DEF OfType
<1>4. number \in [Bills \union SupplierPayments \union DebitNotes -> Nat] /\ sequence \in [DocTypes -> Nat]
  BY DEF IInv, Shape
<1>5. CASE type # kind
  <2>1. d \notin OfType(type)
    BY <1>2, <1>5, PayablesAssumption DEF OfType, DocTypes, Vouchers
  <2>2. \A c \in OfType(type) : number'[c] = number[c]
    BY <1>2, <1>3, <1>4, <2>1
  <2>3. sequence'[type] = sequence[type]
    BY <1>2, <1>4, <1>5
  <2> QED
    BY <1>1, <2>2, <2>3, NumberedSame
<1>6. CASE type = kind
  <2> DEFINE S == DocumentsOf(number, type)
             T == EntriesOf(journal, type)
             A == {number[c] : c \in S}
             B == {journal[i].no : i \in T}
  <2>1. sequence'[type] = sequence[type] + 1
    BY <1>2, <1>4, <1>6
  <2>2. d \in DOMAIN number
    BY <1>2, <1>3, <1>4
  <2>3. number'[d] = sequence[type] + 1 /\ \A c \in OfType(type) \ {d} : number'[c] = number[c]
    BY <1>2, <1>3, <1>4, <1>6, <2>2
  <2>4. d \notin S /\ DocumentsOf(number', type) = S \union {d}
    BY <1>1, <1>2, <1>6, <2>3 DEF DocumentsOf
  <2>5. \A c \in S : number'[c] = number[c]
    BY <2>3, <2>4 DEF DocumentsOf
  <2>6. IsFiniteSet(S) /\ IsFiniteSet(T) /\ A \union B = 1 .. sequence[type]
    BY <1>1 DEF Numbered
  <2>7. Cardinality(S) + Cardinality(T) = sequence[type]
    BY <1>1, <2>6, FS_CardinalityType DEF Numbered
  <2> HIDE DEF S
  <2>8. {number'[c] : c \in S \union {d}} = A \union {sequence[type] + 1}
    BY <2>3, <2>5
  <2> HIDE DEF T, A, B
  <2>9. /\ IsFiniteSet(S \union {d})
        /\ (A \union {sequence[type] + 1}) \union B = 1 .. sequence[type] + 1
        /\ Cardinality(S \union {d}) + Cardinality(T) = sequence[type] + 1
    BY <1>1, <2>4, <2>6, <2>7, NumberedMore
  <2>10. Cardinality(S \union {d}) \in Nat /\ Cardinality(T) \in Nat
    BY <2>6, <2>9, FS_CardinalityType
  <2> QED
    BY <2>1, <2>4, <2>6, <2>8, <2>9, <2>10 DEF Numbered, T, B
<1> QED
  BY <1>5, <1>6

LEMMA AllNumberedStep ==
    ASSUME IInv, Next
    PROVE  AllNumbered'
<1>1. ASSUME UNCHANGED <<journal, number, sequence>>
      PROVE  AllNumbered'
  BY <1>1 DEF IInv, AllNumbered
<1>2. ASSUME NEW r \in Requests, Ends(r), Posts(r)
      PROVE  AllNumbered'
  <2> DEFINE e == request[r].entry
  <2>1. EntryOK(e) /\ e.voucher \in DocTypes /\ e.no = sequence[e.voucher] + 1
    BY <1>2, PostedEntry DEF DocTypes
  <2>2. sequence' = [sequence EXCEPT ![e.voucher] = @ + 1] /\ number' = number
    BY <1>2 DEF Posts, Ends
  <2>3. PICK j : SameEntries(j) /\ journal' = Append(j, e)
    BY <1>2 DEF Posts
  <2> HIDE DEF e
  <2>4. \A type \in DocTypes :
           sequence'[type] = IF type = e.voucher THEN sequence[type] + 1 ELSE sequence[type]
    BY <2>1, <2>2 DEF IInv, Shape
  <2>5. \A type \in DocTypes : Numbered(Append(j, e), number, type, sequence'[type])
    BY <2>1, <2>3, <2>4, EntryNumbered
  <2> QED
    BY <2>2, <2>3, <2>5 DEF AllNumbered
<1>3. ASSUME NEW r \in Requests, Ends(r), UNCHANGED <<journal, sequence>>
      PROVE  AllNumbered'
  BY <1>1, <1>3 DEF Ends
<1>4. ASSUME NEW kind, NEW d, Creates(kind, d)
      PROVE  AllNumbered'
  <2>1. kind \in DocTypes /\ journal' = journal
    BY <1>4 DEF Creates
  <2>2. \A type \in DocTypes : Numbered(journal, number', type, sequence'[type])
    BY <1>4, <2>1, DocumentNumbered
  <2> QED
    BY <2>1, <2>2 DEF AllNumbered
<1>5. ASSUME NEW r \in Requests, Enters(r) \/ GoesOn(r)
      PROVE  AllNumbered'
  BY <1>1, <1>5 DEF Enters, GoesOn, ledger, payables
<1>6. ASSUME NEW r \in Requests, NextEntryNo(r), UNCHANGED <<payables, receivables>>
      PROVE  AllNumbered'
  BY <1>1, <1>6 DEF NextEntryNo, payables
<1>7. ASSUME NEW p \in Periods, Moves(p)
      PROVE  AllNumbered'
  BY <1>1, <1>7 DEF Moves, ClosePeriod, ReopenPeriod, payables
<1>8. CASE Drifts
  BY <1>1, <1>8 DEF Drifts, ledger
<1>9. \A r \in Requests : Ends(r) => Posts(r) \/ UNCHANGED <<journal, sequence>>
  BY DEF Ends
<1> QED
  BY <1>2, <1>3, <1>4, <1>5, <1>6, <1>7, <1>8, <1>9, Kinds

-----------------------------------------------------------------------------
(* The theorems *)

LEMMA InitIInv == Init => IInv
<1> SUFFICES ASSUME Init
             PROVE  IInv
  OBVIOUS
<1> USE DEF Init, LedgerInit, PayablesInit, ReceivablesInit
<1>1. Shape
  <2>1. journal \in Seq({})
    BY EmptySeq
  <2>2. IsSeq(journal) /\ DOMAIN journal = {}
    BY <2>1 DEF IsSeq
  <2>3. DOMAIN request = Requests /\ \A r \in Requests : DOMAIN request[r] = Fields
    BY DEF Idle
  <2> QED
    BY <2>2, <2>3 DEF Shape, BillStatus, PaymentStatus, InvoiceStatus
<1>2. Unnumbered
  BY DEF Unnumbered
<1>3. AllNumbered
  <2>1. \A type \in DocTypes : EntriesOf(journal, type) = {} /\ DocumentsOf(number, type) = {}
    BY DEF EntriesOf, DocumentsOf, OfType
  <2>2. \A type \in DocTypes : sequence[type] = 0
    OBVIOUS
  <2>3. \A type \in DocTypes : Numbered(journal, number, type, 0)
    BY <2>1, NoneNumbered
  <2> QED
    BY <2>2, <2>3 DEF AllNumbered
<1>4. \A r \in Requests : EntrySound(r) /\ BillSound(r) /\ InvoiceSound(r) /\ NumberSound(r)
  BY DEF EntrySound, BillSound, InvoiceSound, NumberSound, Idle
<1> QED
  BY <1>1, <1>2, <1>3, <1>4 DEF IInv

LEMMA StepIInv == IInv /\ [Next]_vars => IInv'
<1> SUFFICES ASSUME IInv, [Next]_vars
             PROVE  IInv'
  OBVIOUS
<1>1. CASE Next
  BY <1>1, EntryStep, BillStep, InvoiceStep, NumberStep, ShapeStep, UnnumberedStep, AllNumberedStep DEF IInv
<1>2. CASE UNCHANGED vars
  BY <1>2 DEF vars, ledger, payables, receivables, IInv, Shape, Unnumbered, AllNumbered,
              EntrySound, BillSound, InvoiceSound, NumberSound, IsSeq
<1> QED
  BY <1>1, <1>2

THEOREM Invariance == Spec => []IInv
BY InitIInv, StepIInv, PTL DEF Spec

\* The numbers of entries and documents (_next_entry_no, _next_doc_number): each
\* sequence has given out 1, 2, 3, ... , each number once, whatever overlaps and
\* whatever is rolled back.
THEOREM NumbersAreGapless == Spec => []Gapless
<1>1. IInv => Gapless
  <2> SUFFICES ASSUME IInv, NEW type \in DocTypes
               PROVE  /\ NumbersOf(type).set = 1 .. sequence[type]
                      /\ NumbersOf(type).count = sequence[type]
    BY DEF Gapless
  <2>1. Numbered(journal, number, type, sequence[type])
    BY DEF IInv, AllNumbered
  <2>2. {d \in DOMAIN number : number[d] > 0} \cap OfType(type) = DocumentsOf(number, type)
    BY DEF IInv, Shape, OfType, DocumentsOf
  <2>3. {i \in DOMAIN journal : journal[i].voucher = type} = EntriesOf(journal, type)
    BY DEF EntriesOf
  <2>4. NumbersOf(type) =
           [set |-> {journal[i].no : i \in EntriesOf(journal, type)}
                       \union {number[d] : d \in DocumentsOf(number, type)},
            count |-> Cardinality(EntriesOf(journal, type)) + Cardinality(DocumentsOf(number, type))]
    BY <2>2, <2>3 DEF NumbersOf, OfType
  <2> QED
    BY <2>1, <2>4 DEF Numbered
<1> QED
  BY <1>1, Invariance, PTL

\* Nothing happens to a closed period, nor to a paid or void bill or invoice, but
\* for a request that was under way when it was closed or finished.
THEOREM LateOnlyIfUnderWay == Spec => NothingComesLate
<1>1. IInv /\ [Next]_vars => [OnlyStragglersPostLate /\ FinalUnlessOvertaken]_vars
  <2> SUFFICES ASSUME IInv, Next
               PROVE  OnlyStragglersPostLate /\ FinalUnlessOvertaken
    BY Zenon
  <2>1. OnlyStragglersPostLate
    BY DEF OnlyStragglersPostLate, IInv, EntrySound
  <2>2. ASSUME NEW r \in Requests, Ends(r)
        PROVE  FinalUnlessOvertaken
    <3>1. request[r] # Idle /\ request'[r] = Idle
      BY <2>2 DEF Ends, IInv, Shape, Idle
    <3>2. \A b \in Bills : bill[b] \in Final /\ bill'[b] # bill[b] => r \in stale[b]
      BY <2>2 DEF Ends, BillsBy, IInv, BillSound
    <3>3. \A i \in Invoices : invoice[i] \in Final /\ invoice'[i] # invoice[i] => r \in outdated[i]
      BY <2>2 DEF Ends, InvoicesBy, Writes, IInv, InvoiceSound
    <3> QED
      BY <3>1, <3>2, <3>3 DEF FinalUnlessOvertaken
  <2>3. ASSUME UNCHANGED <<bill, invoice>>
        PROVE  FinalUnlessOvertaken
    BY <2>3 DEF FinalUnlessOvertaken
  <2>4. ASSUME NEW type, NEW d, Creates(type, d)
        PROVE  FinalUnlessOvertaken
    BY <2>4 DEF Creates, FinalUnlessOvertaken, receivables
  <2>5. ASSUME Drifts
        PROVE  FinalUnlessOvertaken
    BY <2>5 DEF Drifts, FinalUnlessOvertaken
  <2>6. FinalUnlessOvertaken
    BY <2>2, <2>3, <2>4, <2>5, Kinds DEF Enters, GoesOn, Moves, payables, receivables
  <2> QED
    BY <2>1, <2>6
<1> QED
  BY <1>1, Invariance, PTL DEF Spec, NothingComesLate

-----------------------------------------------------------------------------
(* Books: what the accounts add up to *)

\* An entry as the gates let it through.
Balanced(e) ==
    /\ IsFiniteSet(e.lines) /\ e.lines \subseteq [account : Accounts, dr : Nat, cr : Nat]
    /\ TotalDr(e.lines) = TotalCr(e.lines)

AllBalanced == \A i \in DOMAIN journal : Balanced(journal[i])

LEMMA BalancedLines ==
    ASSUME NEW e, Balanced(e)
    PROVE  LinesOK(e)
BY DEF Balanced, LinesOK

\* The sides of the lines L of an entry, as sums of one function.
LEMMA TotalsAre ==
    ASSUME NEW e, LinesOK(e), NEW L \in SUBSET e.lines
    PROVE  /\ TotalDr(L) = SumFunctionOnSet([l \in e.lines |-> l.dr], L)
           /\ TotalCr(L) = SumFunctionOnSet([l \in e.lines |-> l.cr], L)
           /\ TotalDr(L) \in Int /\ TotalCr(L) \in Int
<1>1. IsFiniteSet(L) /\ \A l \in L : l.dr \in Int /\ l.cr \in Int
  BY FS_Subset DEF LinesOK
<1>2. TotalDr(L) = SumFunctionOnSet([l \in e.lines |-> l.dr], L) /\ TotalDr(L) \in Int
  <2> DEFINE f == [l \in L |-> l.dr]
             h == [l \in e.lines |-> l.dr]
  <2>1. (\A l \in L : f[l] = h[l] /\ f[l] \in Int) /\ DOMAIN f = L
    BY <1>1
  <2>2. TotalDr(L) = SumFunctionOnSet(f, DOMAIN f)
    BY DEF TotalDr, SumFunction
  <2> HIDE DEF f, h
  <2>3. SumFunctionOnSet(f, L) = SumFunctionOnSet(h, L) /\ SumFunctionOnSet(f, L) \in Int
    BY <1>1, <2>1, SumSame, SumType
  <2> QED
    BY <2>1, <2>2, <2>3 DEF h
<1>3. TotalCr(L) = SumFunctionOnSet([l \in e.lines |-> l.cr], L) /\ TotalCr(L) \in Int
  <2> DEFINE f == [l \in L |-> l.cr]
             h == [l \in e.lines |-> l.cr]
  <2>1. (\A l \in L : f[l] = h[l] /\ f[l] \in Int) /\ DOMAIN f = L
    BY <1>1
  <2>2. TotalCr(L) = SumFunctionOnSet(f, DOMAIN f)
    BY DEF TotalCr, SumFunction
  <2> HIDE DEF f, h
  <2>3. SumFunctionOnSet(f, L) = SumFunctionOnSet(h, L) /\ SumFunctionOnSet(f, L) \in Int
    BY <1>1, <2>1, SumSame, SumType
  <2> QED
    BY <2>1, <2>2, <2>3 DEF h
<1> QED
  BY <1>2, <1>3

LEMMA NetUnion ==
    ASSUME NEW e, LinesOK(e), NEW A, NEW B, A \cap B = {}
    PROVE  NetOn(e, A \union B) = NetOn(e, A) + NetOn(e, B)
<1> DEFINE LA == LinesOn(e, A)
           LB == LinesOn(e, B)
<1>1. LinesOn(e, A \union B) = LA \union LB /\ LA \cap LB = {}
  BY DEF LinesOn
<1>2. LA \in SUBSET e.lines /\ LB \in SUBSET e.lines /\ LA \union LB \in SUBSET e.lines
  BY DEF LinesOn
<1> HIDE DEF LA, LB
<1>3. /\ TotalDr(LA \union LB) = SumFunctionOnSet([l \in e.lines |-> l.dr], LA \union LB)
      /\ TotalDr(LA) = SumFunctionOnSet([l \in e.lines |-> l.dr], LA)
      /\ TotalDr(LB) = SumFunctionOnSet([l \in e.lines |-> l.dr], LB)
      /\ TotalCr(LA \union LB) = SumFunctionOnSet([l \in e.lines |-> l.cr], LA \union LB)
      /\ TotalCr(LA) = SumFunctionOnSet([l \in e.lines |-> l.cr], LA)
      /\ TotalCr(LB) = SumFunctionOnSet([l \in e.lines |-> l.cr], LB)
      /\ TotalDr(LA) \in Int /\ TotalDr(LB) \in Int /\ TotalCr(LA) \in Int /\ TotalCr(LB) \in Int
  BY <1>2, TotalsAre
<1>4. IsFiniteSet(LA) /\ IsFiniteSet(LB)
  BY <1>2, FS_Subset DEF LinesOK
<1>5. /\ \A l \in LA \union LB : [k \in e.lines |-> k.dr][l] \in Int
      /\ \A l \in LA \union LB : [k \in e.lines |-> k.cr][l] \in Int
  BY <1>2 DEF LinesOK
<1>6. /\ TotalDr(LA \union LB) = TotalDr(LA) + TotalDr(LB)
      /\ TotalCr(LA \union LB) = TotalCr(LA) + TotalCr(LB)
  <2>1. SumFunctionOnSet([l \in e.lines |-> l.dr], LA \union LB)
           = SumFunctionOnSet([l \in e.lines |-> l.dr], LA) + SumFunctionOnSet([l \in e.lines |-> l.dr], LB)
    <3> DEFINE f == [l \in e.lines |-> l.dr]
    <3>1. \A l \in LA \union LB : f[l] \in Int
      BY <1>5
    <3> HIDE DEF f
    <3>2. SumFunctionOnSet(f, LA \union LB) = SumFunctionOnSet(f, LA) + SumFunctionOnSet(f, LB)
      BY <1>1, <1>4, <3>1, SumUnion
    <3> QED
      BY <3>2 DEF f
  <2>2. SumFunctionOnSet([l \in e.lines |-> l.cr], LA \union LB)
           = SumFunctionOnSet([l \in e.lines |-> l.cr], LA) + SumFunctionOnSet([l \in e.lines |-> l.cr], LB)
    <3> DEFINE f == [l \in e.lines |-> l.cr]
    <3>1. \A l \in LA \union LB : f[l] \in Int
      BY <1>5
    <3> HIDE DEF f
    <3>2. SumFunctionOnSet(f, LA \union LB) = SumFunctionOnSet(f, LA) + SumFunctionOnSet(f, LB)
      BY <1>1, <1>4, <3>1, SumUnion
    <3> QED
      BY <3>2 DEF f
  <2> QED
    BY <1>3, <2>1, <2>2, Zenon
<1>7. /\ TotalDr(LinesOn(e, A \union B)) = TotalDr(LA \union LB)
      /\ TotalCr(LinesOn(e, A \union B)) = TotalCr(LA \union LB)
  BY <1>1, Zenon
<1> QED
  BY <1>3, <1>6, <1>7 DEF NetOn, LA, LB

LEMMA NetNone ==
    ASSUME NEW e
    PROVE  NetOn(e, {}) = 0
<1>1. LinesOn(e, {}) = {}
  BY DEF LinesOn
<1> QED
  BY <1>1, TotalOfNone DEF NetOn

LEMMA NetAll ==
    ASSUME NEW e, Balanced(e)
    PROVE  NetOn(e, Accounts) = 0
<1>1. LinesOn(e, Accounts) = e.lines
  BY DEF LinesOn, Balanced
<1>2. TotalDr(LinesOn(e, Accounts)) \in Int /\ TotalCr(LinesOn(e, Accounts)) \in Int
  BY BalancedLines, TotalType
<1>3. TotalDr(LinesOn(e, Accounts)) = TotalCr(LinesOn(e, Accounts))
  BY <1>1, Zenon DEF Balanced
<1> QED
  BY <1>2, <1>3 DEF NetOn

Nets(A) == [i \in DOMAIN journal |-> NetOn(journal[i], A)]
NetIn(E, A) == LineSums(E, A).dr - LineSums(E, A).cr

LEMMA Positions ==
    ASSUME IInv, NEW E \in SUBSET DOMAIN journal
    PROVE  IsFiniteSet(E)
<1>1. Len(journal) \in Nat /\ DOMAIN journal = 1 .. Len(journal)
  BY SeqLength DEF IInv, Shape
<1>2. IsFiniteSet(DOMAIN journal)
  BY <1>1, FS_Interval
<1> QED
  BY <1>2, FS_Subset

LEMMA NetInIs ==
    ASSUME IInv, AllBalanced, NEW E \in SUBSET DOMAIN journal, NEW A
    PROVE  NetIn(E, A) = SumFunctionOnSet(Nets(A), E) /\ NetIn(E, A) \in Int
<1> DEFINE d == [i \in DOMAIN journal |-> TotalDr(LinesOn(journal[i], A))]
           c == [i \in DOMAIN journal |-> TotalCr(LinesOn(journal[i], A))]
           n == Nets(A)
<1>1. IsFiniteSet(E)
  BY Positions
<1>2. \A i \in E : d[i] \in Int /\ c[i] \in Int /\ n[i] \in Int /\ n[i] = d[i] - c[i]
  BY TotalType, BalancedLines DEF AllBalanced, Nets, NetOn
<1>3. \A i \in E : n[i] \in Int /\ c[i] \in Int /\ d[i] = n[i] + c[i]
  BY <1>2
<1>4. NetIn(E, A) = SumFunctionOnSet(d, E) - SumFunctionOnSet(c, E)
  BY DEF NetIn, LineSums
<1> HIDE DEF d, c, n
<1>5. SumFunctionOnSet(d, E) = SumFunctionOnSet(n, E) + SumFunctionOnSet(c, E)
  BY <1>1, <1>3, SumPlus
<1>6. SumFunctionOnSet(n, E) \in Int /\ SumFunctionOnSet(c, E) \in Int
  BY <1>1, <1>3, SumType
<1> QED
  BY <1>4, <1>5, <1>6 DEF n

LEMMA NetInUnion ==
    ASSUME IInv, AllBalanced, NEW E \in SUBSET DOMAIN journal, NEW A, NEW B, A \cap B = {}
    PROVE  NetIn(E, A \union B) = NetIn(E, A) + NetIn(E, B)
<1> DEFINE n == Nets(A)
           m == Nets(B)
           u == Nets(A \union B)
<1>1. IsFiniteSet(E)
  BY Positions
<1>2. \A i \in E : n[i] \in Int /\ m[i] \in Int /\ u[i] = n[i] + m[i]
  <2> TAKE i \in E
  <2>1. LinesOK(journal[i])
    BY BalancedLines DEF AllBalanced
  <2>2. NetOn(journal[i], A) \in Int /\ NetOn(journal[i], B) \in Int
    BY <2>1, TotalType
  <2>3. NetOn(journal[i], A \union B) = NetOn(journal[i], A) + NetOn(journal[i], B)
    BY <2>1, NetUnion
  <2> QED
    BY <2>2, <2>3 DEF Nets
<1> HIDE DEF n, m, u
<1>3. SumFunctionOnSet(u, E) = SumFunctionOnSet(n, E) + SumFunctionOnSet(m, E)
  BY <1>1, <1>2, SumPlus
<1>4. /\ NetIn(E, A) = SumFunctionOnSet(Nets(A), E)
      /\ NetIn(E, B) = SumFunctionOnSet(Nets(B), E)
      /\ NetIn(E, A \union B) = SumFunctionOnSet(Nets(A \union B), E)
  BY NetInIs
<1> QED
  BY <1>3, <1>4, Zenon DEF n, m, u

\* An entry moves amounts between accounts: all together they stay at nothing.
LEMMA NetInAll ==
    ASSUME IInv, AllBalanced, NEW E \in SUBSET DOMAIN journal
    PROVE  NetIn(E, Accounts) = 0 /\ NetIn(E, {}) = 0
<1>1. IsFiniteSet(E)
  BY Positions
<1>2. (\A i \in E : Nets(Accounts)[i] = 0) /\ (\A i \in E : Nets({})[i] = 0)
  BY NetAll, NetNone DEF AllBalanced, Nets
<1>3. SumFunctionOnSet(Nets(Accounts), E) = 0 /\ SumFunctionOnSet(Nets({}), E) = 0
  BY <1>1, <1>2, SumZero
<1> QED
  BY <1>3, NetInIs

LEMMA PositionsOfEntries ==
    PostedEntries \in SUBSET DOMAIN journal /\ \A d : PostedBy(d) \in SUBSET DOMAIN journal
BY DEF PostedEntries, PostedBy

LEMMA BalanceNet ==
    \A a : Balance(a) = NetIn(PostedEntries, {a})
BY DEF Balance, sum_by_account, NetIn

\* The trial balance balances (TrialBalance): what is in one column is in the other.
LEMMA TrialBalancesHolds ==
    ASSUME IInv, AllBalanced
    PROVE  TrialBalances
<1> DEFINE net == [a \in Accounts |-> Balance(a)]
           E == PostedEntries
           more == {a \in Accounts : net[a] > 0}
           less == {a \in Accounts : net[a] < 0}
           F == {T \in SUBSET Accounts : SumFunctionOnSet(net, T) = NetIn(E, T)}
<1>1. E \in SUBSET DOMAIN journal
  BY PositionsOfEntries
<1>2. \A a \in Accounts : net[a] = NetIn(E, {a}) /\ net[a] \in Int
  BY <1>1, BalanceNet, NetInIs
<1>3. IsFiniteSet(Accounts)
  <2> DEFINE f == [i \in 1 .. 10 |->
                     IF i = 1 THEN "1020" ELSE IF i = 2 THEN "1100" ELSE IF i = 3 THEN "1200"
                     ELSE IF i = 4 THEN "2100" ELSE IF i = 5 THEN "2200" ELSE IF i = 6 THEN "4100"
                     ELSE IF i = 7 THEN "4200" ELSE IF i = 8 THEN "5100" ELSE IF i = 9 THEN "5200"
                     ELSE "6500"]
  <2>1. /\ f[1] = "1020" /\ f[2] = "1100" /\ f[3] = "1200" /\ f[4] = "2100" /\ f[5] = "2200"
        /\ f[6] = "4100" /\ f[7] = "4200" /\ f[8] = "5100" /\ f[9] = "5200" /\ f[10] = "6500"
    OBVIOUS
  <2>2. \A a \in Accounts : \E i \in 1 .. 10 : f[i] = a
    BY <2>1 DEF Accounts
  <2>3. f \in [1 .. 10 -> Accounts]
    BY DEF Accounts
  <2> HIDE DEF f
  <2>4. f \in Surjection(1 .. 10, Accounts)
    BY <2>2, <2>3 DEF Surjection
  <2>5. IsFiniteSet(1 .. 10)
    <3>1. \A m, n \in Int : IsFiniteSet(m .. n)
      BY FS_Interval
    <3>2. 1 \in Int /\ 10 \in Int
      OBVIOUS
    <3> QED
      BY <3>1, <3>2, Zenon
  <2> QED
    BY <2>4, <2>5, FS_Surjection
<1> HIDE DEF net
<1>4. {} \in F
  BY <1>1, SumEmpty, NetInAll
<1>5. ASSUME NEW T \in SUBSET Accounts, NEW a \in Accounts, T \in F, a \notin T
      PROVE  T \union {a} \in F
  <2>1. IsFiniteSet(T) /\ \A b \in T \union {a} : net[b] \in Int
    BY <1>2, <1>3, FS_Subset
  <2>2. SumFunctionOnSet(net, T \union {a}) = net[a] + SumFunctionOnSet(net, T)
    BY <1>5, <2>1, SumInsert
  <2>3. NetIn(E, T \union {a}) = NetIn(E, T) + NetIn(E, {a})
    BY <1>1, <1>5, NetInUnion
  <2>4. NetIn(E, T) \in Int /\ NetIn(E, {a}) \in Int
    BY <1>1, NetInIs
  <2>5. SumFunctionOnSet(net, T) = NetIn(E, T) /\ net[a] = NetIn(E, {a})
    BY <1>2, <1>5
  <2> QED
    BY <2>2, <2>3, <2>4, <2>5
<1>6. Accounts \in F
  <2> HIDE DEF F
  <2> QED
    BY <1>3, <1>4, <1>5, SetsByInduction
<1>7. SumFunctionOnSet(net, Accounts) = 0
  BY <1>1, <1>6, NetInAll
<1>8. IsFiniteSet(more) /\ IsFiniteSet(less) /\ more \cap less = {} /\ more \union less \in SUBSET Accounts
  <2>1. more \in SUBSET Accounts /\ less \in SUBSET Accounts
    OBVIOUS
  <2>2. more \cap less = {}
    <3>1. \A a \in Accounts : net[a] \in Int
      BY <1>2
    <3>2. \A a \in Accounts : ~(net[a] > 0 /\ net[a] < 0)
      BY <3>1
    <3> QED
      BY <3>2
  <2> HIDE DEF more, less
  <2> QED
    BY <1>3, <2>1, <2>2, FS_Subset
<1>9. \A a \in more \union less : net[a] \in Int
  BY <1>2
<1>10. \A a \in Accounts \ (more \union less) : net[a] = 0
  <2> TAKE a \in Accounts \ (more \union less)
  <2>1. net[a] \in Int /\ ~(net[a] > 0) /\ ~(net[a] < 0)
    BY <1>2
  <2> QED
    BY <2>1
<1>11. TrialBalance = [total_dr |-> SumFunctionOnSet(net, more), total_cr |-> -SumFunctionOnSet(net, less)]
  BY DEF TrialBalance, net
<1> HIDE DEF more, less
<1>12. SumFunctionOnSet(net, Accounts) = SumFunctionOnSet(net, more \union less)
  BY <1>3, <1>8, <1>9, <1>10, SumSupport
<1>13. SumFunctionOnSet(net, more \union less) = SumFunctionOnSet(net, more) + SumFunctionOnSet(net, less)
  BY <1>8, <1>9, SumUnion
<1>14. SumFunctionOnSet(net, more) \in Int /\ SumFunctionOnSet(net, less) \in Int
  BY <1>8, <1>9, SumType
<1> QED
  BY <1>7, <1>11, <1>12, <1>13, <1>14 DEF TrialBalances

\* At every date, assets are what all the other types make up for.
LEMMA TypesTie ==
    ASSUME IInv, AllBalanced, NEW d
    PROVE  /\ NetAmount("asset", d) + NetAmount("liability", d) + NetAmount("revenue", d)
                  + NetAmount("cogs", d) + NetAmount("opex", d) = 0
           /\ NetAmount("equity", d) = 0
           /\ NetAmount("asset", d) \in Int /\ NetAmount("liability", d) \in Int
           /\ NetAmount("revenue", d) \in Int /\ NetAmount("cogs", d) \in Int
           /\ NetAmount("opex", d) \in Int
<1> DEFINE E == PostedBy(d)
           N(A) == NetIn(E, A)
           A1 == {"1020", "1100", "1200"}
           A2 == {"2100", "2200"}
           A3 == {"4100", "4200"}
           A4 == {"5100", "5200"}
           A5 == {"6500"}
<1>1. E \in SUBSET DOMAIN journal
  BY PositionsOfEntries
<1>2. /\ NetAmount("asset", d) = N(A1) /\ NetAmount("liability", d) = N(A2)
      /\ NetAmount("revenue", d) = N(A3) /\ NetAmount("cogs", d) = N(A4)
      /\ NetAmount("opex", d) = N(A5) /\ NetAmount("equity", d) = N({})
  BY DEF NetAmount, NetIn, TypeOf
<1>3. /\ A1 \cap A2 = {} /\ (A1 \union A2) \cap A3 = {}
      /\ ((A1 \union A2) \union A3) \cap A4 = {}
      /\ (((A1 \union A2) \union A3) \union A4) \cap A5 = {}
      /\ (((A1 \union A2) \union A3) \union A4) \union A5 = Accounts
  BY DEF Accounts
<1> HIDE DEF E, A1, A2, A3, A4, A5
<1>4. /\ N(A1 \union A2) = N(A1) + N(A2)
      /\ N((A1 \union A2) \union A3) = N(A1 \union A2) + N(A3)
      /\ N(((A1 \union A2) \union A3) \union A4) = N((A1 \union A2) \union A3) + N(A4)
      /\ N((((A1 \union A2) \union A3) \union A4) \union A5) = N(((A1 \union A2) \union A3) \union A4) + N(A5)
  BY <1>1, <1>3, NetInUnion
<1>5. N(Accounts) = 0 /\ N({}) = 0
  BY <1>1, NetInAll
<1>6. N((((A1 \union A2) \union A3) \union A4) \union A5) = 0
  BY <1>3, <1>5, Zenon
<1>7. N(A1) \in Int /\ N(A2) \in Int /\ N(A3) \in Int /\ N(A4) \in Int /\ N(A5) \in Int
  BY <1>1, NetInIs
<1> HIDE DEF N
<1> QED
  BY <1>2, <1>4, <1>5, <1>6, <1>7

\* What makes a mid-year balance sheet tie without a closing entry (balance_sheet).
LEMMA BalanceSheetTiesHolds ==
    ASSUME IInv, AllBalanced
    PROVE  BalanceSheetTies
<1>1. ASSUME NEW d
      PROVE  balance_sheet(d).assets = balance_sheet(d).total_liabilities_and_equity
  BY TypesTie DEF balance_sheet
<1>2. balance_sheet(FiscalYearEnd).retained_earnings = profit_and_loss.net_profit
  BY TypesTie DEF balance_sheet, profit_and_loss
<1> QED
  BY <1>1, <1>2 DEF BalanceSheetTies

\* Where the reports that compute the same thing twice differ.
LEMMA ReportsDifferHolds ==
    ASSUME IInv, AllBalanced
    PROVE  ReportsDifferOnlyThere
<1>1. ASSUME \A i \in DOMAIN journal : journal[i].status = "posted", NEW a \in Accounts
      PROVE  trial_balance(FiscalYearEnd)[a] = Balance(a)
  <2>1. PostedEntries = DOMAIN journal
    BY <1>1 DEF PostedEntries
  <2> QED
    BY <2>1 DEF trial_balance, Balance, sum_by_account
<1>2. ASSUME \A type \in {"cogs", "opex"} : NetAmount(type, FiscalYearEnd) >= 0
      PROVE  task_profit_and_loss.net_profit = profit_and_loss.net_profit
  <2>1. NetAmount("cogs", FiscalYearEnd) >= 0 /\ NetAmount("opex", FiscalYearEnd) >= 0
    BY <1>2
  <2> QED
    BY <2>1, TypesTie DEF task_profit_and_loss, profit_and_loss, MagnitudeOf
<1>3. ASSUME NEW d, NetAmount("liability", d) <= 0
      PROVE  task_balance_sheet(d).assets - task_balance_sheet(d).total_liabilities_and_equity
                 = balance_sheet(d).retained_earnings
  BY <1>3, TypesTie DEF task_balance_sheet, balance_sheet, MagnitudeOf
<1> QED
  BY <1>1, <1>2, <1>3 DEF ReportsDifferOnlyThere

\* A sum over five parts, and over five labels.
LEMMA SumOfFive ==
    ASSUME NEW f, NEW A, NEW B, NEW C, NEW D, NEW E,
           IsFiniteSet(A), IsFiniteSet(B), IsFiniteSet(C), IsFiniteSet(D), IsFiniteSet(E),
           A \cap B = {}, (A \union B) \cap C = {}, (A \union B \union C) \cap D = {},
           (A \union B \union C \union D) \cap E = {},
           \A x \in A \union B \union C \union D \union E : f[x] \in Int
    PROVE  /\ SumFunctionOnSet(f, A \union B \union C \union D \union E)
                  = SumFunctionOnSet(f, A) + SumFunctionOnSet(f, B) + SumFunctionOnSet(f, C)
                        + SumFunctionOnSet(f, D) + SumFunctionOnSet(f, E)
           /\ SumFunctionOnSet(f, A) \in Int /\ SumFunctionOnSet(f, B) \in Int
           /\ SumFunctionOnSet(f, C) \in Int /\ SumFunctionOnSet(f, D) \in Int
           /\ SumFunctionOnSet(f, E) \in Int
<1> DEFINE AB == A \union B
           ABC == AB \union C
           ABCD == ABC \union D
<1>1. IsFiniteSet(AB) /\ IsFiniteSet(ABC) /\ IsFiniteSet(ABCD)
  BY FS_Union
<1>2. AB \cap C = {} /\ ABC \cap D = {} /\ ABCD \cap E = {}
  OBVIOUS
<1>3. \A x \in ABCD \union E : f[x] \in Int
  OBVIOUS
<1>4. A \union B \union C \union D \union E = ABCD \union E
  OBVIOUS
<1>5. /\ \A x \in A \union B : f[x] \in Int
      /\ \A x \in AB \union C : f[x] \in Int
      /\ \A x \in ABC \union D : f[x] \in Int
  BY <1>3
<1>6. SumFunctionOnSet(f, AB) = SumFunctionOnSet(f, A) + SumFunctionOnSet(f, B)
  BY <1>5, SumUnion
<1> HIDE DEF AB
<1>7. SumFunctionOnSet(f, ABC) = SumFunctionOnSet(f, AB) + SumFunctionOnSet(f, C)
  BY <1>1, <1>2, <1>5, SumUnion
<1> HIDE DEF ABC
<1>8. SumFunctionOnSet(f, ABCD) = SumFunctionOnSet(f, ABC) + SumFunctionOnSet(f, D)
  BY <1>1, <1>2, <1>5, SumUnion
<1> HIDE DEF ABCD
<1>9. SumFunctionOnSet(f, ABCD \union E) = SumFunctionOnSet(f, ABCD) + SumFunctionOnSet(f, E)
  BY <1>1, <1>2, <1>3, SumUnion
<1>10. SumFunctionOnSet(f, A \union B \union C \union D \union E) = SumFunctionOnSet(f, ABCD \union E)
  BY <1>4, Zenon
<1>11. /\ SumFunctionOnSet(f, A) \in Int /\ SumFunctionOnSet(f, B) \in Int
       /\ SumFunctionOnSet(f, C) \in Int /\ SumFunctionOnSet(f, D) \in Int
       /\ SumFunctionOnSet(f, E) \in Int
  BY SumType
<1> QED
  BY <1>6, <1>7, <1>8, <1>9, <1>10, <1>11

LEMMA SumOfBuckets ==
    ASSUME NEW f, \A label \in AgeingBuckets : f[label] \in Int
    PROVE  SumFunctionOnSet(f, AgeingBuckets)
               = f["current"] + f["1_30"] + f["31_60"] + f["61_90"] + f["over_90"]
<1> DEFINE A == {"current"}
           B == {"1_30"}
           C == {"31_60"}
           D == {"61_90"}
           E == {"over_90"}
<1>1. /\ IsFiniteSet(A) /\ IsFiniteSet(B) /\ IsFiniteSet(C) /\ IsFiniteSet(D) /\ IsFiniteSet(E)
  BY FS_Singleton
<1>2. A \union B \union C \union D \union E = AgeingBuckets
  BY DEF AgeingBuckets
<1>3. /\ A \cap B = {} /\ (A \union B) \cap C = {} /\ (A \union B \union C) \cap D = {}
      /\ (A \union B \union C \union D) \cap E = {}
  OBVIOUS
<1>4. \A x \in A \union B \union C \union D \union E : f[x] \in Int
  BY <1>2
<1>5. /\ f["current"] \in Int /\ f["1_30"] \in Int /\ f["31_60"] \in Int /\ f["61_90"] \in Int
      /\ f["over_90"] \in Int
  BY DEF AgeingBuckets
<1>6. /\ SumFunctionOnSet(f, A) = f["current"] /\ SumFunctionOnSet(f, B) = f["1_30"]
      /\ SumFunctionOnSet(f, C) = f["31_60"] /\ SumFunctionOnSet(f, D) = f["61_90"]
      /\ SumFunctionOnSet(f, E) = f["over_90"]
  BY <1>5, SumOne
<1> HIDE DEF A, B, C, D, E
<1>7. SumFunctionOnSet(f, A \union B \union C \union D \union E)
          = SumFunctionOnSet(f, A) + SumFunctionOnSet(f, B) + SumFunctionOnSet(f, C)
                + SumFunctionOnSet(f, D) + SumFunctionOnSet(f, E)
  BY <1>1, <1>3, <1>4, SumOfFive
<1>8. SumFunctionOnSet(f, AgeingBuckets) = SumFunctionOnSet(f, A \union B \union C \union D \union E)
  BY <1>2, Zenon
<1> QED
  BY <1>5, <1>6, <1>7, <1>8

\* The buckets of AP add up to the bills they are made from.
LEMMA BillBuckets ==
    ASSUME NEW S \in SUBSET Bills
    PROVE  SumFunctionOnSet(get_ageing(S), AgeingBuckets) = SumFunctionOnSet(Total, S)
<1> DEFINE Q(label) == {b \in S : _compute_age_bucket(DaysOverdue[b]) = label}
           A == Q("current")
           B == Q("1_30")
           C == Q("31_60")
           D == Q("61_90")
           E == Q("over_90")
<1>1. S \subseteq Bills /\ IsFiniteSet(S)
  BY PayablesAssumption, FS_Subset
<1>2. IsFiniteSet(A) /\ IsFiniteSet(B) /\ IsFiniteSet(C) /\ IsFiniteSet(D) /\ IsFiniteSet(E)
  <2>1. \A label : IsFiniteSet(Q(label))
    BY <1>1, FS_Subset
  <2> QED
    BY <2>1
<1>3. \A days \in Int : _compute_age_bucket(days) \in AgeingBuckets
  BY DEF _compute_age_bucket, AgeingBuckets
<1>4. \A b \in S : _compute_age_bucket(DaysOverdue[b]) \in AgeingBuckets
  BY <1>1, <1>3, PayablesAssumption
<1>5. A \union B \union C \union D \union E = S
  BY <1>4 DEF AgeingBuckets
<1>6. /\ A \cap B = {} /\ (A \union B) \cap C = {} /\ (A \union B \union C) \cap D = {}
      /\ (A \union B \union C \union D) \cap E = {}
  OBVIOUS
<1>7. \A b \in A \union B \union C \union D \union E : Total[b] \in Int
  BY <1>1, <1>5, PayablesAssumption
<1>8. /\ get_ageing(S)["current"] = SumFunctionOnSet(Total, A) /\ get_ageing(S)["1_30"] = SumFunctionOnSet(Total, B)
      /\ get_ageing(S)["31_60"] = SumFunctionOnSet(Total, C) /\ get_ageing(S)["61_90"] = SumFunctionOnSet(Total, D)
      /\ get_ageing(S)["over_90"] = SumFunctionOnSet(Total, E)
  BY DEF get_ageing, AgeingBuckets
<1> HIDE DEF A, B, C, D, E
<1>9. /\ SumFunctionOnSet(Total, A \union B \union C \union D \union E)
             = SumFunctionOnSet(Total, A) + SumFunctionOnSet(Total, B) + SumFunctionOnSet(Total, C)
                   + SumFunctionOnSet(Total, D) + SumFunctionOnSet(Total, E)
      /\ SumFunctionOnSet(Total, A) \in Int /\ SumFunctionOnSet(Total, B) \in Int
      /\ SumFunctionOnSet(Total, C) \in Int /\ SumFunctionOnSet(Total, D) \in Int
      /\ SumFunctionOnSet(Total, E) \in Int
  BY <1>2, <1>6, <1>7, SumOfFive
<1>10. \A label \in AgeingBuckets : get_ageing(S)[label] \in Int
  BY <1>8, <1>9 DEF AgeingBuckets
<1>11. SumFunctionOnSet(get_ageing(S), AgeingBuckets)
           = get_ageing(S)["current"] + get_ageing(S)["1_30"] + get_ageing(S)["31_60"] + get_ageing(S)["61_90"]
                 + get_ageing(S)["over_90"]
  BY <1>10, SumOfBuckets
<1>12. SumFunctionOnSet(Total, S) = SumFunctionOnSet(Total, A \union B \union C \union D \union E)
  BY <1>5, Zenon
<1> QED
  BY <1>8, <1>9, <1>11, <1>12

\* The buckets of AR lack the invoices that are not due yet.
LEMMA InvoiceBuckets ==
    ASSUME NEW S \in SUBSET Invoices
    PROVE  /\ SumFunctionOnSet(ageing(S), AgeingBuckets) \in Int
           /\ SumFunctionOnSet(Total, S) = SumFunctionOnSet(ageing(S), AgeingBuckets)
                                               + SumFunctionOnSet(Total, {i \in S : DaysOverdue[i] < 0})
<1> DEFINE Q(label) == {i \in S : DaysOverdue[i] \in Bucket(label)}
           A == Q("current")
           B == Q("1_30")
           C == Q("31_60")
           D == Q("61_90")
           E == Q("over_90")
           G == {i \in S : DaysOverdue[i] < 0}
<1>1. S \subseteq Invoices /\ IsFiniteSet(S)
  BY ReceivablesAssumption, FS_Subset
<1>2. IsFiniteSet(A) /\ IsFiniteSet(B) /\ IsFiniteSet(C) /\ IsFiniteSet(D) /\ IsFiniteSet(E) /\ IsFiniteSet(G)
  <2>1. (\A label : IsFiniteSet(Q(label))) /\ IsFiniteSet(G)
    BY <1>1, FS_Subset
  <2> QED
    BY <2>1
<1>3. /\ Bucket("current") = {0} /\ Bucket("1_30") = 1 .. 30 /\ Bucket("31_60") = 31 .. 60
      /\ Bucket("61_90") = 61 .. 90
      /\ Bucket("over_90") = {d \in {DaysOverdue[i] : i \in Invoices} : d >= 91}
  BY DEF Bucket
<1>4. \A i \in S : DaysOverdue[i] \in Int /\ Total[i] \in Int
  BY <1>1, ReceivablesAssumption
<1>5. /\ \A i \in S : i \in A <=> DaysOverdue[i] = 0
      /\ \A i \in S : i \in B <=> DaysOverdue[i] >= 1 /\ DaysOverdue[i] <= 30
      /\ \A i \in S : i \in C <=> DaysOverdue[i] >= 31 /\ DaysOverdue[i] <= 60
      /\ \A i \in S : i \in D <=> DaysOverdue[i] >= 61 /\ DaysOverdue[i] <= 90
      /\ \A i \in S : i \in E <=> DaysOverdue[i] >= 91
      /\ \A i \in S : i \in G <=> DaysOverdue[i] < 0
  BY <1>1, <1>3, <1>4
<1>6. A \subseteq S /\ B \subseteq S /\ C \subseteq S
      /\ D \subseteq S /\ E \subseteq S /\ G \subseteq S
  OBVIOUS
<1>7. /\ ageing(S)["current"] = SumFunctionOnSet(Total, A) /\ ageing(S)["1_30"] = SumFunctionOnSet(Total, B)
      /\ ageing(S)["31_60"] = SumFunctionOnSet(Total, C) /\ ageing(S)["61_90"] = SumFunctionOnSet(Total, D)
      /\ ageing(S)["over_90"] = SumFunctionOnSet(Total, E)
  BY DEF ageing, AgeingBuckets
<1>8. SumFunctionOnSet(Total, {i \in S : DaysOverdue[i] < 0}) = SumFunctionOnSet(Total, G)
  OBVIOUS
<1> HIDE DEF A, B, C, D, E, G
<1>9. /\ A \cap B = {} /\ (A \union B) \cap C = {} /\ (A \union B \union C) \cap D = {}
      /\ (A \union B \union C \union D) \cap E = {}
  BY <1>4, <1>5, <1>6
<1>10. \A i \in A \union B \union C \union D \union E : Total[i] \in Int
  BY <1>4, <1>6
<1>11. /\ SumFunctionOnSet(Total, A \union B \union C \union D \union E)
              = SumFunctionOnSet(Total, A) + SumFunctionOnSet(Total, B) + SumFunctionOnSet(Total, C)
                    + SumFunctionOnSet(Total, D) + SumFunctionOnSet(Total, E)
       /\ SumFunctionOnSet(Total, A) \in Int /\ SumFunctionOnSet(Total, B) \in Int
       /\ SumFunctionOnSet(Total, C) \in Int /\ SumFunctionOnSet(Total, D) \in Int
       /\ SumFunctionOnSet(Total, E) \in Int
  <2>1. IsFiniteSet(A) /\ IsFiniteSet(B) /\ IsFiniteSet(C) /\ IsFiniteSet(D) /\ IsFiniteSet(E)
    BY <1>2
  <2>2. A \cap B = {} /\ (A \union B) \cap C = {}
    BY <1>9
  <2>3. (A \union B \union C) \cap D = {}
    BY <1>9
  <2>4. (A \union B \union C \union D) \cap E = {}
    BY <1>9
  <2> QED
    BY <1>10, <2>1, <2>2, <2>3, <2>4, SumOfFive
<1> DEFINE H == A \union B \union C \union D \union E
<1>12. H \union G = S /\ H \cap G = {}
  BY <1>4, <1>5, <1>6
<1>13. \A i \in H \union G : Total[i] \in Int
  BY <1>4, <1>6
<1>14. IsFiniteSet(H)
  BY <1>2, FS_Union
<1> HIDE DEF H
<1>15. SumFunctionOnSet(Total, H \union G) = SumFunctionOnSet(Total, H) + SumFunctionOnSet(Total, G)
  BY <1>2, <1>12, <1>13, <1>14, SumUnion
<1>16. \A label \in AgeingBuckets : ageing(S)[label] \in Int
  BY <1>7, <1>11 DEF AgeingBuckets
<1>17. SumFunctionOnSet(ageing(S), AgeingBuckets)
           = ageing(S)["current"] + ageing(S)["1_30"] + ageing(S)["31_60"] + ageing(S)["61_90"] + ageing(S)["over_90"]
  BY <1>16, SumOfBuckets
<1>18. SumFunctionOnSet(Total, S) = SumFunctionOnSet(Total, H \union G)
  BY <1>12, Zenon
<1>19. SumFunctionOnSet(Total, H)
           = SumFunctionOnSet(Total, A) + SumFunctionOnSet(Total, B) + SumFunctionOnSet(Total, C)
                 + SumFunctionOnSet(Total, D) + SumFunctionOnSet(Total, E)
  BY <1>11, Zenon DEF H
<1> QED
  BY <1>7, <1>8, <1>11, <1>15, <1>17, <1>18, <1>19

\* The limit cuts off nothing that is due while no more than the limit are.
LEMMA CutIsLater ==
    ASSUME NEW S, IsFiniteSet(S), \A d \in S : DaysOverdue[d] \in Int, NEW limit \in Nat,
           NEW listed \in FirstDue(S, limit), NEW D \in SUBSET S, Cardinality(D) <= limit,
           \A d \in D, e \in S \ D : DaysOverdue[d] > DaysOverdue[e]
    PROVE  D \subseteq listed
<1> SUFFICES ASSUME NEW i \in D, i \notin listed PROVE FALSE
  OBVIOUS
<1>1. /\ listed \subseteq S /\ Cardinality(listed) = limit
      /\ \A d \in listed, e \in S \ listed : DaysOverdue[d] >= DaysOverdue[e]
  BY DEF FirstDue
<1>2. listed \subseteq D
  <2> SUFFICES ASSUME NEW d \in listed, d \notin D PROVE FALSE
    OBVIOUS
  <2>1. DaysOverdue[d] >= DaysOverdue[i] /\ DaysOverdue[i] > DaysOverdue[d]
    BY <1>1
  <2>2. DaysOverdue[d] \in Int /\ DaysOverdue[i] \in Int
    BY <1>1
  <2> QED
    BY <2>1, <2>2
<1>3. IsFiniteSet(D)
  BY FS_Subset
<1>4. /\ IsFiniteSet(listed) /\ Cardinality(listed) \in Nat /\ Cardinality(D) \in Nat
      /\ Cardinality(listed) <= Cardinality(D) /\ (Cardinality(listed) = Cardinality(D) => listed = D)
  BY <1>2, <1>3, FS_Subset, FS_CardinalityType
<1> QED
  BY <1>1, <1>4

\* The ageing reports, for listings that the limits cut.
LEMMA AgeingAddsUpHolds == AgeingAddsUp
<1>1. ASSUME NEW listed \in list_outstanding
      PROVE  /\ SumFunctionOnSet(get_ageing(listed), AgeingBuckets) = SumFunctionOnSet(Total, listed)
             /\ Cardinality(Unpaid) <= BillLimit =>
                    SumFunctionOnSet(get_ageing(listed), AgeingBuckets) = SumFunctionOnSet(Total, Unpaid)
  <2>1. /\ Unpaid \subseteq Bills /\ IsFiniteSet(Unpaid) /\ listed \subseteq Unpaid
        /\ \A b \in Unpaid : DaysOverdue[b] \in Int
    BY PayablesAssumption, FS_Subset DEF Unpaid, list_outstanding, FirstDue
  <2>2. SumFunctionOnSet(get_ageing(listed), AgeingBuckets) = SumFunctionOnSet(Total, listed)
    BY <2>1, BillBuckets
  <2>3. ASSUME Cardinality(Unpaid) <= BillLimit PROVE listed = Unpaid
    <3>1. Unpaid \subseteq listed
      BY <2>1, <2>3, CutIsLater, PayablesAssumption DEF list_outstanding
    <3> QED
      BY <2>1, <3>1
  <2> QED
    BY <2>2, <2>3
<1>2. ASSUME NEW listed \in list_outstanding_invoices
      PROVE  LET due == {i \in outstanding : DaysOverdue[i] >= 0} IN
             /\ sum_outstanding = SumFunctionOnSet(ageing(listed), AgeingBuckets)
                                    + SumFunctionOnSet(Total, {i \in listed : DaysOverdue[i] < 0})
                                    + SumFunctionOnSet(Total, outstanding \ listed)
             /\ Cardinality(due) <= InvoiceLimit =>
                    SumFunctionOnSet(ageing(listed), AgeingBuckets) = SumFunctionOnSet(Total, due)
  <2> DEFINE due == {i \in outstanding : DaysOverdue[i] >= 0}
             later == {i \in listed : DaysOverdue[i] < 0}
             cut == outstanding \ listed
  <2>1. /\ outstanding \subseteq Invoices /\ IsFiniteSet(outstanding) /\ listed \subseteq outstanding
        /\ \A i \in outstanding : DaysOverdue[i] \in Int /\ Total[i] \in Int
    BY ReceivablesAssumption, FS_Subset DEF outstanding, list_outstanding_invoices, FirstDue
  <2>2. /\ IsFiniteSet(listed) /\ IsFiniteSet(cut) /\ IsFiniteSet(later) /\ IsFiniteSet(due)
    BY <2>1, FS_Subset
  <2>3. SumFunctionOnSet(Total, listed) = SumFunctionOnSet(ageing(listed), AgeingBuckets)
                                              + SumFunctionOnSet(Total, later)
    BY <2>1, InvoiceBuckets
  <2>4. sum_outstanding = SumFunctionOnSet(Total, listed) + SumFunctionOnSet(Total, cut)
    <3>1. /\ listed \union cut = outstanding /\ listed \cap cut = {}
          /\ \A i \in listed \union cut : Total[i] \in Int
      BY <2>1
    <3> HIDE DEF cut
    <3>2. SumFunctionOnSet(Total, listed \union cut) = SumFunctionOnSet(Total, listed) + SumFunctionOnSet(Total, cut)
      BY <2>2, <3>1, SumUnion
    <3> QED
      BY <3>1, <3>2 DEF sum_outstanding
  <2>5. ASSUME Cardinality(due) <= InvoiceLimit
        PROVE  SumFunctionOnSet(ageing(listed), AgeingBuckets) = SumFunctionOnSet(Total, due)
    <3>1. due \subseteq listed
      <4>1. \A d \in due, e \in outstanding \ due : DaysOverdue[d] > DaysOverdue[e]
        BY <2>1
      <4>2. due \in SUBSET outstanding /\ listed \in FirstDue(outstanding, InvoiceLimit)
        BY DEF list_outstanding_invoices
      <4> HIDE DEF due
      <4> QED
        BY <2>1, <2>5, <4>1, <4>2, CutIsLater, ReceivablesAssumption
    <3>2. /\ due \union later = listed /\ due \cap later = {}
          /\ \A i \in due \union later : Total[i] \in Int
      BY <2>1, <3>1
    <3> HIDE DEF due, later
    <3>3. SumFunctionOnSet(Total, due \union later) = SumFunctionOnSet(Total, due) + SumFunctionOnSet(Total, later)
      BY <2>2, <3>2, SumUnion
    <3>4. SumFunctionOnSet(Total, due) \in Int /\ SumFunctionOnSet(Total, later) \in Int
      BY <2>2, <3>2, SumType
    <3>5. SumFunctionOnSet(ageing(listed), AgeingBuckets) \in Int
      BY <2>1, InvoiceBuckets
    <3>6. SumFunctionOnSet(Total, listed) = SumFunctionOnSet(Total, due) + SumFunctionOnSet(Total, later)
      BY <3>2, <3>3
    <3>7. \A x, y, z \in Int : x + z = y + z => x = y
      OBVIOUS
    <3> QED
      BY <2>3, <3>4, <3>5, <3>6, <3>7, Zenon
  <2> QED
    BY <2>3, <2>4, <2>5
<1> QED
  BY <1>1, <1>2 DEF AgeingAddsUp

-----------------------------------------------------------------------------
(* Books: the entries, stored and under way *)

Swapped(ls) == {[account |-> l.account, dr |-> l.cr, cr |-> l.dr] : l \in ls}

BillLines(b)    == {Dr("2200", Total[b]), Cr("2100", Total[b])}
PaymentLines(p) == {Dr("2100", Amount[p]), Cr("1020", Amount[p])}
InvoiceLines(i) == {Dr("1100", Total[i]), Cr("4100", Total[i])}

\* What an entry books is what it has been made from; j is the journal.
OriginIn(j, e) ==
    \/ e.source \in Bills /\ e.system = TRUE /\ e.lines = BillLines(e.source)
    \/ e.source \in SupplierPayments /\ e.system = TRUE /\ e.lines = PaymentLines(e.source)
    \/ e.source \in Invoices /\ e.system = TRUE /\ e.lines = InvoiceLines(e.source)
    \/ e.source = None /\ e.system = FALSE
    \/ \E i \in DOMAIN j : /\ e.source = <<"journal_entry", i>> /\ e.system = FALSE
                           /\ j[i].system = FALSE /\ e.lines = Swapped(j[i].lines)

\* It has passed the gates.
Gated(e) ==
    /\ Balanced(e)
    /\ \A l \in e.lines : (l.dr = 0) # (l.cr = 0)
    /\ e.system = FALSE => \A l \in e.lines : l.account \notin ControlAccounts

Stored(i) ==
    /\ Gated(journal[i]) /\ OriginIn(journal, journal[i])
    /\ journal[i].no \in Nat \ {0} /\ journal[i].status \in {"posted", "reversed"}
    /\ journal[i].system = TRUE => journal[i].status = "posted"

\* The entry of a request is for the document that the request is about.
MadeFor(j, op, d, view, e) ==
    \/ op = "journal" /\ e.source = None
    \/ op = "reverse" /\ view \in DOMAIN j /\ e.source = <<"journal_entry", view>>
    \/ /\ \/ op = "issue bill" /\ d \in Bills
          \/ op = "reconcile" /\ d \in SupplierPayments
          \/ op = "issue invoice" /\ d \in Invoices
       /\ e.source = d

Writing(r) ==
    request[r].pc \in {"accepted", "numbered"} =>
        /\ Gated(request[r].entry) /\ OriginIn(journal, request[r].entry)
        /\ request[r].entry.status = "posted" /\ request[r].entry.mirror = 0
        /\ MadeFor(journal, request[r].op, request[r].doc[1], request[r].view, request[r].entry)

EntriesInv == (\A i \in DOMAIN journal : Stored(i)) /\ \A r \in Requests : Writing(r)

Marked(v) == [journal EXCEPT ![v].status = "reversed", ![v].mirror = Len(journal) + 1]

\* A request commits an entry.
Booked(r) ==
    /\ request[r].pc = "numbered" /\ request' = [request EXCEPT ![r] = Idle]
    /\ \/ request[r].op # "reverse" /\ journal' = Append(journal, request[r].entry)
       \/ request[r].op = "reverse" /\ journal' = Append(Marked(request[r].view), request[r].entry)

LEMMA JournalMoves ==
    ASSUME Next
    PROVE  UNCHANGED journal \/ \E r \in Requests : Booked(r)
<1> USE DEF ledger, payables, receivables, Posted, Respond, At
<1>1. CASE \/ CreatePayable /\ UNCHANGED <<receivables, inUse>>
           \/ BillsOverdue /\ UNCHANGED <<receivables, inUse>>
           \/ CreateReceivable /\ UNCHANGED <<payables, inUse>>
  BY <1>1 DEF CreatePayable, BillsOverdue, CreateReceivable, CreateBill, CreateSupplierPayment,
              CreateDebitNote, CreateInvoice, CreateCustomerPayment
<1>2. ASSUME NEW r \in Requests, PayablesStep(r)
      PROVE  UNCHANGED journal \/ Booked(r)
  BY <1>2 DEF PayablesStep, IssueBill, VoidBill, AllocateBill, ReconcileSupplierPayment,
              CommitBill, CommitVoidBill, CommitAllocateBill, CommitReconcile, Booked
<1>3. ASSUME NEW r \in Requests, ReceivablesStep(r)
      PROVE  UNCHANGED journal \/ Booked(r)
  BY <1>3 DEF ReceivablesStep, IssueInvoice, VoidInvoice, Allocate, Sweep, CommitSweep, FlushInvoice,
              CommitInvoice, CommitVoidInvoice, Apply, CommitAllocation, Booked
<1>4. ASSUME NEW r \in Requests, LedgerStep(r)
      PROVE  UNCHANGED journal \/ Booked(r)
  BY <1>4 DEF LedgerStep, CreateJournal, ReverseJournal, CommitJournal, CommitReversal, NextEntryNo,
              Rollback, Booked, Marked
<1>5. ASSUME NEW p \in Periods, ClosePeriod(p) \/ ReopenPeriod(p)
      PROVE  UNCHANGED journal
  BY <1>5 DEF ClosePeriod, ReopenPeriod
<1> QED
  BY <1>1, <1>2, <1>3, <1>4, <1>5 DEF Next

\* A mark of a reversal leaves an entry what it is.
SameBooking(e, f) ==
    /\ f.lines = e.lines /\ f.system = e.system /\ f.source = e.source /\ f.no = e.no
    /\ f.date = e.date /\ f.voucher = e.voucher

\* A commit adds its entry at the end; a reversal marks the entry that it is for.
LEMMA BookedIs ==
    ASSUME IInv, NEW r \in Requests, Booked(r)
    PROVE  /\ Len(journal) \in Nat /\ DOMAIN journal = 1 .. Len(journal)
           /\ DOMAIN journal' = 1 .. Len(journal) + 1 /\ Len(journal') = Len(journal) + 1
           /\ journal'[Len(journal) + 1] = request[r].entry
           /\ \A i \in DOMAIN journal :
                 /\ SameBooking(journal[i], journal'[i])
                 /\ IF request[r].op = "reverse" /\ request[r].view = i
                    THEN journal'[i].status = "reversed" /\ journal'[i].mirror = Len(journal) + 1
                    ELSE journal'[i].status = journal[i].status /\ journal'[i].mirror = journal[i].mirror
<1> DEFINE n == Len(journal)
           e == request[r].entry
<1>1. n \in Nat /\ DOMAIN journal = 1 .. n /\ IsSeq(journal)
  BY SeqLength DEF IInv, Shape
<1>2. ASSUME NEW j, IsSeq(j), Len(j) = n, journal' = Append(j, e)
      PROVE  /\ DOMAIN journal' = 1 .. n + 1 /\ Len(journal') = n + 1
             /\ journal'[n + 1] = e
             /\ \A i \in 1 .. n : journal'[i] = j[i]
  BY <1>2, AppendIs
<1>3. CASE request[r].op # "reverse"
  <2>1. journal' = Append(journal, e)
    BY <1>3 DEF Booked
  <2> HIDE DEF n, e
  <2>2. /\ DOMAIN journal' = 1 .. n + 1 /\ Len(journal') = n + 1
        /\ journal'[n + 1] = e
        /\ \A i \in 1 .. n : journal'[i] = journal[i]
    BY <1>1, <1>2, <2>1 DEF n
  <2> QED
    BY <1>1, <1>3, <2>2 DEF SameBooking, n, e
<1>4. CASE request[r].op = "reverse"
  <2> DEFINE j == Marked(request[r].view)
  <2>1. journal' = Append(j, e)
    BY <1>4 DEF Booked
  <2>2. SameEntries(j)
    BY MarkedEntries DEF Marked
  <2>3. \A i \in DOMAIN journal : DOMAIN journal[i] = EntryFields
    BY DEF IInv, Shape, EntryOK
  <2>4. \A i \in DOMAIN journal :
           /\ SameBooking(journal[i], j[i])
           /\ IF request[r].view = i
              THEN j[i].status = "reversed" /\ j[i].mirror = Len(journal) + 1
              ELSE j[i].status = journal[i].status /\ j[i].mirror = journal[i].mirror
    BY <2>3 DEF Marked, SameBooking
  <2>5. IsSeq(j) /\ Len(j) = n
    BY <2>2 DEF SameEntries
  <2> HIDE DEF n, e, j
  <2>6. /\ DOMAIN journal' = 1 .. n + 1 /\ Len(journal') = n + 1
        /\ journal'[n + 1] = e
        /\ \A i \in 1 .. n : journal'[i] = j[i]
    BY <1>2, <2>1, <2>5
  <2> QED
    BY <1>1, <1>4, <2>4, <2>6 DEF n, e
<1> QED
  BY <1>3, <1>4

\* An entry that a request makes, and what it makes it for.
Drafts(op, d, view, e) ==
    \/ op = "journal" /\ \E v, p : \E ls \in ManualLines : e = Entry(v, p, ls, FALSE, None)
    \/ op = "reverse" /\ view \in DOMAIN journal /\ e = Mirror(view)
    \/ op = "issue bill" /\ d \in Bills /\ e = BillEntry(d)
    \/ op = "reconcile" /\ d \in SupplierPayments /\ e = PaymentEntry(d)
    \/ op = "issue invoice" /\ d \in Invoices /\ e = _on_invoice_created(d)

\* A request that has an entry has had it, has numbered it, or has just made it.
LEMMA PostingRow ==
    ASSUME IInv, Next, NEW q \in Requests, request'[q].pc \in {"accepted", "numbered"}
    PROVE  \/ request'[q] = request[q]
           \/ NextEntryNo(q)
           \/ /\ request'[q].pc = "accepted" /\ UNCHANGED journal /\ Acceptable(request'[q].entry)
              /\ Drafts(request'[q].op, request'[q].doc[1], request'[q].view, request'[q].entry)
<1>0. DOMAIN request = Requests /\ \A r \in Requests : DOMAIN request[r] = Fields
  BY DEF IInv, Shape
<1> USE <1>0 DEF Respond, Idle, Enter, At, ledger
<1>1. CASE \/ CreatePayable /\ UNCHANGED <<receivables, inUse>>
           \/ BillsOverdue /\ UNCHANGED <<receivables, inUse>>
           \/ CreateReceivable /\ UNCHANGED <<payables, inUse>>
  BY <1>1 DEF CreatePayable, BillsOverdue, CreateReceivable, CreateBill, CreateSupplierPayment,
              CreateDebitNote, CreateInvoice, CreateCustomerPayment
<1>2. ASSUME NEW r \in Requests, PayablesStep(r)
      PROVE  \/ request'[q] = request[q]
             \/ /\ request'[q].pc = "accepted" /\ UNCHANGED journal /\ Acceptable(request'[q].entry)
                /\ Drafts(request'[q].op, request'[q].doc[1], request'[q].view, request'[q].entry)
  <2>1. ASSUME NEW b \in Bills, IssueBill(r, b)
        PROVE  \/ request'[q] = request[q]
               \/ /\ request'[q].pc = "accepted" /\ UNCHANGED journal /\ Acceptable(request'[q].entry)
                  /\ Drafts(request'[q].op, request'[q].doc[1], request'[q].view, request'[q].entry)
    BY <2>1 DEF IssueBill, Drafts
  <2>2. ASSUME NEW p \in SupplierPayments, ReconcileSupplierPayment(r, p)
        PROVE  \/ request'[q] = request[q]
               \/ /\ request'[q].pc = "accepted" /\ UNCHANGED journal /\ Acceptable(request'[q].entry)
                  /\ Drafts(request'[q].op, request'[q].doc[1], request'[q].view, request'[q].entry)
    BY <2>2 DEF ReconcileSupplierPayment, Drafts
  <2>3. ASSUME NEW b \in Bills, VoidBill(r, b) \/ \E p, amount : AllocateBill(r, p, b, amount)
        PROVE  request'[q] = request[q]
    <3>1. ASSUME NEW pc, pc = "begun", NEW op, NEW d, NEW view, NEW e, Enter(r, pc, op, d, view, e)
          PROVE  request'[q] = request[q]
      BY <3>1
    <3> QED
      <4>1. CASE VoidBill(r, b)
        BY <3>1, <4>1 DEF VoidBill
      <4>2. ASSUME NEW p, NEW amount, AllocateBill(r, p, b, amount)
            PROVE  request'[q] = request[q]
        BY <3>1, <4>2 DEF AllocateBill
      <4> QED
        BY <2>3, <4>1, <4>2
  <2>4. CASE CommitBill(r) \/ CommitVoidBill(r) \/ CommitAllocateBill(r) \/ CommitReconcile(r)
    <3>1. CASE CommitBill(r)
      BY <3>1 DEF CommitBill
    <3>2. CASE CommitVoidBill(r)
      BY <3>2 DEF CommitVoidBill
    <3>3. CASE CommitAllocateBill(r)
      BY <3>3 DEF CommitAllocateBill
    <3>4. CASE CommitReconcile(r)
      BY <3>4 DEF CommitReconcile
    <3> QED
      BY <2>4, <3>1, <3>2, <3>3, <3>4
  <2> QED
    BY <1>2, <2>1, <2>2, <2>3, <2>4 DEF PayablesStep
<1>3. ASSUME NEW r \in Requests, ReceivablesStep(r)
      PROVE  \/ request'[q] = request[q]
             \/ /\ request'[q].pc = "accepted" /\ UNCHANGED journal /\ Acceptable(request'[q].entry)
                /\ Drafts(request'[q].op, request'[q].doc[1], request'[q].view, request'[q].entry)
  <2>1. ASSUME NEW i \in Invoices,
               IssueInvoice(r, i) \/ VoidInvoice(r, i) \/ \E p, amount : Allocate(r, p, i, amount)
        PROVE  request'[q] = request[q]
    <3>1. ASSUME NEW pc, pc = "begun", NEW op, NEW d, NEW view, NEW e, Enter(r, pc, op, d, view, e)
          PROVE  request'[q] = request[q]
      BY <3>1
    <3> QED
      <4>1. CASE IssueInvoice(r, i)
        BY <3>1, <4>1 DEF IssueInvoice
      <4>2. CASE VoidInvoice(r, i)
        BY <3>1, <4>2 DEF VoidInvoice
      <4>3. ASSUME NEW p, NEW amount, Allocate(r, p, i, amount)
            PROVE  request'[q] = request[q]
        BY <3>1, <4>3 DEF Allocate
      <4> QED
        BY <2>1, <4>1, <4>2, <4>3
  <2>2. CASE Sweep(r) \/ CommitSweep(r) \/ CommitInvoice(r) \/ CommitVoidInvoice(r) \/ CommitAllocation(r)
    <3>1. CASE Sweep(r)
      BY <3>1 DEF Sweep
    <3>2. CASE CommitSweep(r)
      BY <3>2 DEF CommitSweep
    <3>3. CASE CommitInvoice(r)
      BY <3>3 DEF CommitInvoice
    <3>4. CASE CommitVoidInvoice(r)
      BY <3>4 DEF CommitVoidInvoice
    <3>5. CASE CommitAllocation(r)
      BY <3>5 DEF CommitAllocation
    <3> QED
      BY <2>2, <3>1, <3>2, <3>3, <3>4, <3>5
  <2>3. CASE Apply(r)
    BY <2>3 DEF Apply
  <2>4. CASE FlushInvoice(r)
    <3>1. request[r].op = "issue invoice" /\ request[r].doc[1] \in Invoices /\ UNCHANGED journal
      BY <2>4 DEF IInv, FlushInvoice, InvoiceSound
    <3>2. CASE q = r
      <4>1. /\ request'[r].op = request[r].op /\ request'[r].doc = request[r].doc
            /\ request'[r].entry = _on_invoice_created(request[r].doc[1])
            /\ request'[r].pc = "accepted"
            /\ Acceptable(_on_invoice_created(request[r].doc[1]))
        <5> DEFINE e == _on_invoice_created(request[r].doc[1])
        <5>1. request' = [request EXCEPT ![r].pc = IF Acceptable(e) THEN "accepted" ELSE "unposted",
                                         ![r].entry = IF Acceptable(e) THEN e ELSE None,
                                         ![r].view = 0]
          BY <2>4 DEF FlushInvoice, Emit
        <5> HIDE DEF e
        <5>2. Acceptable(e)
          BY <3>2, <5>1
        <5>3. /\ request'[r].op = request[r].op /\ request'[r].doc = request[r].doc
              /\ request'[r].entry = e /\ request'[r].pc = "accepted"
          BY <5>1, <5>2
        <5> QED
          BY <5>2, <5>3 DEF e
      <4> QED
        BY <3>1, <3>2, <4>1 DEF Drafts
    <3>3. CASE q # r
      BY <2>4, <3>3 DEF FlushInvoice, Emit
    <3> QED
      BY <3>2, <3>3
  <2> QED
    BY <1>3, <2>1, <2>2, <2>3, <2>4 DEF ReceivablesStep
<1>4. ASSUME NEW r \in Requests, LedgerStep(r)
      PROVE  \/ request'[q] = request[q]
             \/ NextEntryNo(q)
             \/ /\ request'[q].pc = "accepted" /\ UNCHANGED journal /\ Acceptable(request'[q].entry)
                /\ Drafts(request'[q].op, request'[q].doc[1], request'[q].view, request'[q].entry)
  <2>1. ASSUME NEW v, NEW p, NEW ls \in ManualLines, CreateJournal(r, v, p, ls)
        PROVE  \/ request'[q] = request[q]
               \/ /\ request'[q].pc = "accepted" /\ UNCHANGED journal /\ Acceptable(request'[q].entry)
                  /\ Drafts(request'[q].op, request'[q].doc[1], request'[q].view, request'[q].entry)
    BY <2>1 DEF CreateJournal, Drafts
  <2>2. ASSUME NEW i \in DOMAIN journal, ReverseJournal(r, i)
        PROVE  \/ request'[q] = request[q]
               \/ /\ request'[q].pc = "accepted" /\ UNCHANGED journal /\ Acceptable(request'[q].entry)
                  /\ Drafts(request'[q].op, request'[q].doc[1], request'[q].view, request'[q].entry)
    BY <2>2 DEF ReverseJournal, Drafts
  <2>3. CASE CommitJournal(r) \/ CommitReversal(r) \/ Rollback(r)
    BY <2>3 DEF CommitJournal, CommitReversal, Rollback
  <2>4. CASE NextEntryNo(r)
    BY <2>4 DEF NextEntryNo
  <2> QED
    BY <1>4, <2>1, <2>2, <2>3, <2>4 DEF LedgerStep
<1>5. ASSUME NEW p \in Periods, ClosePeriod(p) \/ ReopenPeriod(p)
      PROVE  UNCHANGED request
  BY <1>5 DEF ClosePeriod, ReopenPeriod
<1> QED
  BY <1>1, <1>2, <1>3, <1>4, <1>5 DEF Next

ChartLines == [account : Accounts, dr : Nat, cr : Nat]

LEMMA PairLines ==
    ASSUME NEW x \in Accounts, NEW y \in Accounts, NEW v \in Nat
    PROVE  IsFiniteSet({Dr(x, v), Cr(y, v)}) /\ {Dr(x, v), Cr(y, v)} \subseteq ChartLines
<1>1. IsFiniteSet({Dr(x, v)})
  BY FS_Singleton
<1>2. IsFiniteSet({Dr(x, v)} \union {Cr(y, v)})
  BY <1>1, FS_AddElement
<1>3. {Dr(x, v), Cr(y, v)} = {Dr(x, v)} \union {Cr(y, v)}
  OBVIOUS
<1>4. Dr(x, v) \in ChartLines /\ Cr(y, v) \in ChartLines
  BY DEF Dr, Cr, ChartLines
<1>5. IsFiniteSet({Dr(x, v), Cr(y, v)})
  BY <1>2, <1>3, Zenon
<1> QED
  BY <1>4, <1>5

Swap(ls) == [l \in ls |-> [account |-> l.account, dr |-> l.cr, cr |-> l.dr]]

\* Lines that are exchanged are lines, as many, with the same amounts on the other side.
LEMMA SwappedLines ==
    ASSUME NEW ls, IsFiniteSet(ls), ls \subseteq ChartLines
    PROVE  /\ IsFiniteSet(Swapped(ls)) /\ Swapped(ls) \subseteq ChartLines
           /\ \A a : TotalDr({l \in Swapped(ls) : l.account = a}) = TotalCr({l \in ls : l.account = a})
<1> DEFINE s == Swap(ls)
<1>1. /\ \A l \in ls : s[l] \in ChartLines
      /\ \A l \in ls : s[l].account = l.account /\ s[l].dr = l.cr /\ s[l].cr = l.dr
  BY DEF Swap, ChartLines
<1>2. \A k, l \in ls : s[k] = s[l] => k = l
  <2>1. \A k, l \in ls : s[k] = s[l] => k.account = l.account /\ k.dr = l.dr /\ k.cr = l.cr
    BY <1>1
  <2>2. \A k, l \in ChartLines : k.account = l.account /\ k.dr = l.dr /\ k.cr = l.cr => k = l
    BY DEF ChartLines
  <2> QED
    BY <2>1, <2>2
<1>3. Swapped(ls) = {s[l] : l \in ls}
  BY DEF Swapped, Swap
<1>4. DOMAIN s = ls /\ s = [l \in ls |-> s[l]]
  BY DEF Swap
<1> HIDE DEF s
<1>5. IsFiniteSet({s[l] : l \in ls})
  <2> DEFINE T == {s[l] : l \in ls}
  <2>1. s \in [ls -> T] /\ \A t \in T : \E l \in ls : s[l] = t
    BY <1>4
  <2> HIDE DEF T
  <2>2. s \in Surjection(ls, T)
    BY <2>1 DEF Surjection
  <2>3. IsFiniteSet(T)
    BY <2>2, FS_Surjection
  <2> QED
    BY <2>3 DEF T
<1>6. ASSUME NEW a
      PROVE  TotalDr({l \in Swapped(ls) : l.account = a}) = TotalCr({l \in ls : l.account = a})
  <2> DEFINE S == {l \in ls : l.account = a}
             T == {s[l] : l \in S}
             f == [l \in S |-> l.cr]
             h == [l \in T |-> l.dr]
  <2>1. IsFiniteSet(S)
    BY FS_Subset
  <2>2. {l \in Swapped(ls) : l.account = a} = T
    BY <1>1, <1>3
  <2>3. \A l \in S : f[l] \in Int /\ h[s[l]] = f[l]
    BY <1>1 DEF ChartLines
  <2>4. \A k, l \in S : s[k] = s[l] => k = l
    BY <1>2
  <2>5. TotalDr(T) = SumFunctionOnSet(h, T) /\ TotalCr(S) = SumFunctionOnSet(f, S)
    BY DEF TotalDr, TotalCr, SumFunction
  <2> HIDE DEF S, f, h
  <2>6. SumFunctionOnSet(h, {s[l] : l \in S}) = SumFunctionOnSet(f, S)
    BY <2>1, <2>3, <2>4, SumImage
  <2>7. TotalDr(T) = TotalCr(S)
    BY <2>5, <2>6
  <2> HIDE DEF T
  <2>8. TotalDr({l \in Swapped(ls) : l.account = a}) = TotalDr(T)
    BY <2>2, Zenon
  <2> QED
    BY <2>7, <2>8 DEF S
<1>7. Swapped(ls) \subseteq ChartLines
  BY <1>1, <1>3
<1>8. IsFiniteSet(Swapped(ls))
  BY <1>3, <1>5, Zenon
<1> QED
  BY <1>6, <1>7, <1>8

\* Entries of documents touch a control account: no manual entry does, and none
\* of them is reversed.
LEMMA SystemControl ==
    ASSUME NEW j, NEW e, OriginIn(j, e), e.system # FALSE
    PROVE  \E l \in e.lines : l.account \in ControlAccounts
<1>1. /\ \A b : Dr("2200", Total[b]) \in BillLines(b) /\ Dr("2200", Total[b]).account \in ControlAccounts
      /\ \A p : Dr("2100", Amount[p]) \in PaymentLines(p) /\ Dr("2100", Amount[p]).account \in ControlAccounts
      /\ \A i : Dr("1100", Total[i]) \in InvoiceLines(i) /\ Dr("1100", Total[i]).account \in ControlAccounts
  BY DEF BillLines, PaymentLines, InvoiceLines, Dr, ControlAccounts
<1>2. CASE e.lines = BillLines(e.source)
  BY <1>1, <1>2
<1>3. CASE e.lines = PaymentLines(e.source)
  BY <1>1, <1>3
<1>4. CASE e.lines = InvoiceLines(e.source)
  BY <1>1, <1>4
<1> QED
  BY <1>2, <1>3, <1>4 DEF OriginIn

LEMMA GatedDraft ==
    ASSUME IInv, EntriesInv, NEW op, NEW d, NEW view, NEW e, Acceptable(e), Drafts(op, d, view, e)
    PROVE  /\ Gated(e) /\ OriginIn(journal, e) /\ e.status = "posted" /\ e.mirror = 0
           /\ MadeFor(journal, op, d, view, e)
<1>1. /\ TotalDr(e.lines) = TotalCr(e.lines)
      /\ \A l \in e.lines : (l.dr = 0) # (l.cr = 0)
      /\ e.system = FALSE => \A l \in e.lines : l.account \notin ControlAccounts
  BY DEF Acceptable
<1>2. ASSUME IsFiniteSet(e.lines), e.lines \subseteq ChartLines
      PROVE  Gated(e)
  BY <1>1, <1>2 DEF Gated, Balanced, ChartLines
<1>3. ASSUME op = "journal", NEW v, NEW p, NEW ls \in ManualLines, e = Entry(v, p, ls, FALSE, None)
      PROVE  /\ Gated(e) /\ OriginIn(journal, e) /\ e.status = "posted" /\ e.mirror = 0
             /\ MadeFor(journal, op, d, view, e)
  <2>1. e.lines = ls /\ e.source = None /\ e.system = FALSE /\ e.status = "posted" /\ e.mirror = 0
    BY <1>3 DEF Entry
  <2>2. IsFiniteSet(ls) /\ ls \subseteq ChartLines
    BY BooksAssumption DEF ChartLines
  <2>3. Gated(e)
    BY <1>2, <2>1, <2>2
  <2> QED
    BY <1>3, <2>1, <2>3 DEF OriginIn, MadeFor
<1>4. CASE op = "reverse" /\ view \in DOMAIN journal /\ e = Mirror(view)
  <2>1. /\ e.lines = Swapped(journal[view].lines) /\ e.source = <<"journal_entry", view>>
        /\ e.system = FALSE /\ e.status = "posted" /\ e.mirror = 0
    BY <1>4 DEF Mirror, Entry, Swapped
  <2>2. /\ Stored(view) /\ Balanced(journal[view]) /\ OriginIn(journal, journal[view])
    BY <1>4 DEF EntriesInv, Stored, Gated
  <2>3. IsFiniteSet(journal[view].lines) /\ journal[view].lines \subseteq ChartLines
    BY <2>2 DEF Balanced, ChartLines
  <2>4. IsFiniteSet(e.lines) /\ e.lines \subseteq ChartLines
    BY <2>1, <2>3, SwappedLines
  <2>5. Gated(e)
    BY <1>2, <2>4
  <2>6. journal[view].system = FALSE
    <3>1. \A l \in journal[view].lines : l.account \notin ControlAccounts
      <4> TAKE l \in journal[view].lines
      <4>1. [account |-> l.account, dr |-> l.cr, cr |-> l.dr] \in e.lines
        BY <2>1 DEF Swapped
      <4>2. [account |-> l.account, dr |-> l.cr, cr |-> l.dr].account = l.account
        OBVIOUS
      <4> QED
        BY <1>1, <2>1, <4>1, <4>2
    <3> QED
      BY <2>2, <3>1, SystemControl
  <2> QED
    BY <1>4, <2>1, <2>5, <2>6 DEF OriginIn, MadeFor
<1>5. CASE op = "issue bill" /\ d \in Bills /\ e = BillEntry(d)
  <2>1. /\ e.lines = BillLines(d) /\ e.source = d /\ e.system = TRUE
        /\ e.status = "posted" /\ e.mirror = 0
    BY <1>5 DEF BillEntry, Entry, BillLines
  <2>2. IsFiniteSet(e.lines) /\ e.lines \subseteq ChartLines
    <3>1. Total[d] \in Nat
      BY <1>5, PayablesAssumption
    <3>2. IsFiniteSet(BillLines(d)) /\ BillLines(d) \subseteq ChartLines
      BY <3>1, PairLines DEF BillLines, Accounts
    <3> QED
      BY <2>1, <3>2
  <2> QED
    BY <1>2, <1>5, <2>1, <2>2 DEF OriginIn, MadeFor
<1>6. CASE op = "reconcile" /\ d \in SupplierPayments /\ e = PaymentEntry(d)
  <2>1. /\ e.lines = PaymentLines(d) /\ e.source = d /\ e.system = TRUE
        /\ e.status = "posted" /\ e.mirror = 0
    BY <1>6 DEF PaymentEntry, Entry, PaymentLines
  <2>2. IsFiniteSet(e.lines) /\ e.lines \subseteq ChartLines
    <3>1. Amount[d] \in Nat
      BY <1>6, PayablesAssumption
    <3>2. IsFiniteSet(PaymentLines(d)) /\ PaymentLines(d) \subseteq ChartLines
      BY <3>1, PairLines DEF PaymentLines, Accounts
    <3> QED
      BY <2>1, <3>2
  <2> QED
    BY <1>2, <1>6, <2>1, <2>2 DEF OriginIn, MadeFor
<1>7. CASE op = "issue invoice" /\ d \in Invoices /\ e = _on_invoice_created(d)
  <2>1. /\ e.lines = InvoiceLines(d) /\ e.source = d /\ e.system = TRUE
        /\ e.status = "posted" /\ e.mirror = 0
    BY <1>7 DEF _on_invoice_created, Entry, InvoiceLines
  <2>2. IsFiniteSet(e.lines) /\ e.lines \subseteq ChartLines
    <3>1. Total[d] \in Nat
      BY <1>7, ReceivablesAssumption
    <3>2. IsFiniteSet(InvoiceLines(d)) /\ InvoiceLines(d) \subseteq ChartLines
      BY <3>1, PairLines DEF InvoiceLines, Accounts
    <3> QED
      BY <2>1, <3>2
  <2> QED
    BY <1>2, <1>7, <2>1, <2>2 DEF OriginIn, MadeFor
<1> QED
  BY <1>3, <1>4, <1>5, <1>6, <1>7 DEF Drafts

LEMMA MirrorOrigin ==
    ASSUME NEW j, NEW e, OriginIn(j, e), NEW i \in Nat, e.source = <<"journal_entry", i>>
    PROVE  i \in DOMAIN j /\ e.system = FALSE /\ j[i].system = FALSE /\ e.lines = Swapped(j[i].lines)
<1>1. <<"journal_entry", i>> \in {"journal_entry"} \X Nat
  OBVIOUS
<1>2. e.source \notin Bills \union SupplierPayments \union Invoices \union {None}
  BY <1>1, BooksAssumption
<1>3. PICK k \in DOMAIN j : /\ e.source = <<"journal_entry", k>> /\ e.system = FALSE
                            /\ j[k].system = FALSE /\ e.lines = Swapped(j[k].lines)
  BY <1>2 DEF OriginIn
<1>4. k = i
  BY <1>3
<1> QED
  BY <1>3, <1>4

\* Only the number, the status and the mark of an entry change: what it books stays.
LEMMA OriginSame ==
    ASSUME NEW j, NEW e, NEW f, f.lines = e.lines, f.system = e.system, f.source = e.source
    PROVE  (Gated(e) => Gated(f)) /\ (OriginIn(j, e) => OriginIn(j, f))
BY DEF Gated, Balanced, OriginIn

LEMMA JournalKeeps ==
    ASSUME IInv, Next
    PROVE  \A i \in DOMAIN journal : i \in DOMAIN journal' /\ SameBooking(journal[i], journal'[i])
<1>1. CASE UNCHANGED journal
  BY <1>1 DEF SameBooking
<1>2. ASSUME NEW r \in Requests, Booked(r)
      PROVE  \A i \in DOMAIN journal : i \in DOMAIN journal' /\ SameBooking(journal[i], journal'[i])
  <2>1. /\ Len(journal) \in Nat /\ DOMAIN journal = 1 .. Len(journal) /\ DOMAIN journal' = 1 .. Len(journal) + 1
        /\ \A i \in DOMAIN journal : SameBooking(journal[i], journal'[i])
    BY <1>2, BookedIs
  <2>2. \A i \in 1 .. Len(journal) : i \in 1 .. Len(journal) + 1
    BY <2>1
  <2> QED
    BY <2>1, <2>2
<1> QED
  BY <1>1, <1>2, JournalMoves

LEMMA OriginGrows ==
    ASSUME IInv, Next, NEW e, OriginIn(journal, e)
    PROVE  OriginIn(journal', e)
<1>1. \A i \in DOMAIN journal : /\ i \in DOMAIN journal'
                                /\ journal'[i].system = journal[i].system /\ journal'[i].lines = journal[i].lines
  BY JournalKeeps DEF SameBooking
<1> QED
  BY <1>1 DEF OriginIn

LEMMA StoredStep ==
    ASSUME IInv, EntriesInv, Next, NEW i \in DOMAIN journal'
    PROVE  Stored(i)'
<1> USE DEF EntriesInv
<1>1. CASE UNCHANGED journal
  <2>1. Stored(i)
    BY <1>1
  <2> QED
    BY <1>1, <2>1 DEF Stored
<1>2. ASSUME NEW r \in Requests, Booked(r)
      PROVE  Stored(i)'
  <2> DEFINE e == request[r].entry
  <2>1. /\ Len(journal) \in Nat /\ DOMAIN journal = 1 .. Len(journal)
        /\ DOMAIN journal' = 1 .. Len(journal) + 1
        /\ journal'[Len(journal) + 1] = e
    BY <1>2, BookedIs
  <2>2. CASE i \in DOMAIN journal
    <3>1. /\ SameBooking(journal[i], journal'[i])
          /\ IF request[r].op = "reverse" /\ request[r].view = i
             THEN journal'[i].status = "reversed"
             ELSE journal'[i].status = journal[i].status
      BY <1>2, <2>2, BookedIs
    <3>2. Stored(i) /\ Gated(journal[i]) /\ OriginIn(journal, journal[i])
      BY <2>2 DEF Stored
    <3>3. Gated(journal'[i]) /\ OriginIn(journal, journal'[i])
      BY <3>1, <3>2, OriginSame DEF SameBooking
    <3>4. OriginIn(journal', journal'[i])
      BY <3>3, OriginGrows
    <3>5. request[r].op = "reverse" /\ request[r].view = i => journal[i].system = FALSE
      <4>1. Writing(r) /\ request[r].pc = "numbered"
        BY <1>2 DEF Booked
      <4>2. OriginIn(journal, e) /\ MadeFor(journal, request[r].op, request[r].doc[1], request[r].view, e)
        BY <4>1 DEF Writing
      <4>3. request[r].op = "reverse" => e.source = <<"journal_entry", request[r].view>>
        BY <4>2 DEF MadeFor
      <4>4. i \in Nat
        BY <2>1, <2>2
      <4> HIDE DEF e
      <4>5. ASSUME e.source = <<"journal_entry", i>>
            PROVE  journal[i].system = FALSE
        BY <4>2, <4>4, <4>5, MirrorOrigin
      <4> QED
        BY <4>3, <4>5
    <3>6. /\ journal'[i].no \in Nat \ {0} /\ journal'[i].status \in {"posted", "reversed"}
          /\ journal'[i].system = TRUE => journal'[i].status = "posted"
      BY <3>1, <3>2, <3>5 DEF Stored, SameBooking
    <3> QED
      BY <3>3, <3>4, <3>6 DEF Stored
  <2>3. CASE i = Len(journal) + 1
    <3>1. request[r].pc = "numbered" /\ Writing(r)
      BY <1>2 DEF Booked
    <3>2. Gated(e) /\ OriginIn(journal, e) /\ e.status = "posted"
      BY <3>1 DEF Writing
    <3>3. OriginIn(journal', e)
      <4> HIDE DEF e
      <4> QED
        BY <3>2, OriginGrows
    <3>4. e.no \in Nat \ {0}
      <4>1. e.voucher \in DocTypes /\ e.no = sequence[e.voucher] + 1 /\ sequence \in [DocTypes -> Nat]
        BY <3>1 DEF IInv, Shape, EntrySound, NumberSound, EntryOK, DocTypes
      <4>2. sequence[e.voucher] \in Nat
        BY <4>1
      <4> QED
        BY <4>1, <4>2
    <3> QED
      BY <2>1, <2>3, <3>2, <3>3, <3>4 DEF Stored
  <2> QED
    BY <2>1, <2>2, <2>3
<1> QED
  BY <1>1, <1>2, JournalMoves

LEMMA MadeForGrows ==
    ASSUME IInv, Next, NEW op, NEW d, NEW view, NEW e, MadeFor(journal, op, d, view, e)
    PROVE  MadeFor(journal', op, d, view, e)
<1>1. \A i \in DOMAIN journal : i \in DOMAIN journal'
  BY JournalKeeps
<1> QED
  BY <1>1 DEF MadeFor

\* What a request will write, in row, is sound for the journal j.
WritingRow(j, row) ==
    /\ Gated(row.entry) /\ OriginIn(j, row.entry)
    /\ row.entry.status = "posted" /\ row.entry.mirror = 0
    /\ MadeFor(j, row.op, row.doc[1], row.view, row.entry)

LEMMA WritingStep ==
    ASSUME IInv, EntriesInv, Next, NEW q \in Requests
    PROVE  Writing(q)'
<1> USE DEF EntriesInv
<1> SUFFICES ASSUME request'[q].pc \in {"accepted", "numbered"}
             PROVE  WritingRow(journal', request'[q])
  BY DEF Writing, WritingRow
<1>1. ASSUME request[q].pc \in {"accepted", "numbered"}
      PROVE  WritingRow(journal, request[q])
  BY <1>1 DEF Writing, WritingRow
<1>2. ASSUME NEW row, WritingRow(journal, row)
      PROVE  WritingRow(journal', row)
  BY <1>2, OriginGrows, MadeForGrows DEF WritingRow
<1>3. CASE request'[q] = request[q]
  BY <1>1, <1>2, <1>3
<1>4. CASE NextEntryNo(q)
  <2>1. WritingRow(journal, request[q])
    BY <1>1, <1>4 DEF NextEntryNo
  <2>2. /\ request'[q].op = request[q].op /\ request'[q].doc = request[q].doc
        /\ request'[q].view = request[q].view
        /\ request'[q].entry.lines = request[q].entry.lines
        /\ request'[q].entry.system = request[q].entry.system
        /\ request'[q].entry.source = request[q].entry.source
        /\ request'[q].entry.status = request[q].entry.status
        /\ request'[q].entry.mirror = request[q].entry.mirror
    <3>1. DOMAIN request = Requests /\ DOMAIN request[q] = Fields /\ DOMAIN request[q].entry = EntryFields
      BY <1>4 DEF IInv, Shape, EntrySound, EntryOK, NextEntryNo
    <3> QED
      BY <1>4, <3>1 DEF NextEntryNo
  <2>3. WritingRow(journal, request'[q])
    BY <2>1, <2>2, OriginSame DEF WritingRow, MadeFor
  <2> QED
    BY <1>2, <2>3
<1>5. CASE /\ request'[q].pc = "accepted" /\ UNCHANGED journal /\ Acceptable(request'[q].entry)
           /\ Drafts(request'[q].op, request'[q].doc[1], request'[q].view, request'[q].entry)
  <2>1. WritingRow(journal, request'[q])
    BY <1>5, GatedDraft DEF WritingRow
  <2> QED
    BY <1>5, <2>1
<1> QED
  BY <1>3, <1>4, <1>5, PostingRow

LEMMA InitEntriesInv == Init => EntriesInv
BY DEF Init, LedgerInit, EntriesInv, Writing, Idle

LEMMA StepEntriesInv ==
    ASSUME IInv, EntriesInv, [Next]_vars
    PROVE  EntriesInv'
<1>1. CASE Next
  BY <1>1, StoredStep, WritingStep DEF EntriesInv
<1>2. CASE UNCHANGED vars
  BY <1>2 DEF vars, ledger, EntriesInv, Stored, Writing
<1> QED
  BY <1>1, <1>2

LEMMA StoredBalanced ==
    ASSUME EntriesInv
    PROVE  AllBalanced
BY DEF EntriesInv, Stored, Gated, AllBalanced

-----------------------------------------------------------------------------
(* Books: how often a document is in the journal *)

Sources == Bills \union SupplierPayments \union Invoices

\* The operation that posts the entry of a document, and the requests for it.
OpFor(d) == IF d \in Bills THEN "issue bill"
            ELSE IF d \in SupplierPayments THEN "reconcile" ELSE "issue invoice"
Issuing(d) == {q \in Requests : request[q].op = OpFor(d) /\ request[q].doc[1] = d}

SourcedFrom(j, d) == {i \in DOMAIN j : j[i].source = d}

LEMMA EntriesType ==
    ASSUME IInv
    PROVE  \A d : IsFiniteSet(SourcedFrom(journal, d)) /\ Entries(d) \in Nat
                     /\ Entries(d) = Cardinality(SourcedFrom(journal, d))
<1> TAKE d
<1>1. SourcedFrom(journal, d) \in SUBSET DOMAIN journal
  BY DEF SourcedFrom
<1>2. IsFiniteSet(SourcedFrom(journal, d))
  BY <1>1, Positions
<1>3. Entries(d) = Cardinality(SourcedFrom(journal, d))
  BY DEF Entries, SourcedFrom
<1> QED
  BY <1>2, <1>3, FS_CardinalityType

\* A commit adds one entry, to the document that it is for.
LEMMA BookedCount ==
    ASSUME IInv, EntriesInv, NEW r \in Requests, Booked(r), NEW d \in Sources
    PROVE  Entries(d)' = Entries(d) + Share(r \in Issuing(d), 1)
<1> DEFINE e == request[r].entry
           n == Len(journal)
           S == SourcedFrom(journal, d)
<1>1. /\ n \in Nat /\ DOMAIN journal = 1 .. n /\ DOMAIN journal' = 1 .. n + 1
      /\ journal'[n + 1] = e
      /\ \A i \in DOMAIN journal : journal'[i].source = journal[i].source
  BY BookedIs DEF SameBooking
<1>2. e.source = d <=> r \in Issuing(d)
  <2>1. MadeFor(journal, request[r].op, request[r].doc[1], request[r].view, e)
    BY DEF EntriesInv, Writing, Booked
  <2>2. d # None /\ \A v \in Nat : d # <<"journal_entry", v>>
    <3>1. d # None /\ d \notin {"journal_entry"} \X Nat
      BY BooksAssumption DEF Sources
    <3> QED
      BY <3>1
  <2>3. DOMAIN journal \subseteq Nat
    BY <1>1
  <2>4. Bills \cap SupplierPayments = {} /\ Invoices \cap (Bills \union SupplierPayments) = {}
    BY PayablesAssumption, ReceivablesAssumption
  <2> HIDE DEF e
  <2>5. ASSUME e.source = d
        PROVE  r \in Issuing(d)
    BY <2>1, <2>2, <2>3, <2>4, <2>5 DEF MadeFor, Issuing, OpFor
  <2>6. ASSUME r \in Issuing(d)
        PROVE  e.source = d
    BY <2>1, <2>6 DEF MadeFor, Issuing, OpFor
  <2> QED
    BY <2>5, <2>6
<1>3. IsFiniteSet(S) /\ Entries(d) = Cardinality(S) /\ Cardinality(S) \in Nat
  BY EntriesType
<1>4. Entries(d)' = Cardinality(SourcedFrom(journal', d))
  BY DEF Entries, SourcedFrom
<1>5. CASE r \in Issuing(d)
  <2>1. SourcedFrom(journal', d) = S \union {n + 1} /\ n + 1 \notin S
    BY <1>1, <1>2, <1>5 DEF SourcedFrom
  <2> HIDE DEF S, n
  <2>2. Cardinality(S \union {n + 1}) = Cardinality(S) + 1
    BY <1>3, <2>1, FS_AddElement
  <2> QED
    BY <1>3, <1>4, <1>5, <2>1, <2>2 DEF Share
<1>6. CASE r \notin Issuing(d)
  <2>1. SourcedFrom(journal', d) = S
    BY <1>1, <1>2, <1>6 DEF SourcedFrom
  <2> QED
    BY <1>3, <1>4, <1>6, <2>1 DEF Share
<1> QED
  BY <1>5, <1>6

LEMMA SameCount ==
    ASSUME UNCHANGED journal
    PROVE  \A d : Entries(d)' = Entries(d)
BY DEF Entries

\* The requests for a document: their number, as they come and go.
LEMMA IssuingCount ==
    \A d : IsFiniteSet(Issuing(d)) /\ Cardinality(Issuing(d)) \in Nat
              /\ Cardinality(Issuing(d)) <= Cardinality(Requests)
<1> TAKE d
<1>1. Issuing(d) \subseteq Requests
  BY DEF Issuing
<1> QED
  BY <1>1, LedgerAssumption, FS_Subset, FS_CardinalityType

LEMMA FewerRequests ==
    ASSUME NEW B, IsFiniteSet(B), NEW A \in SUBSET B
    PROVE  /\ Cardinality(A) \in Nat /\ Cardinality(B) \in Nat /\ Cardinality(A) <= Cardinality(B)
           /\ \A r \in B : r \notin A => Cardinality(A) + 1 <= Cardinality(B)
<1>1. IsFiniteSet(A) /\ Cardinality(A) \in Nat /\ Cardinality(B) \in Nat /\ Cardinality(A) <= Cardinality(B)
  BY FS_Subset, FS_CardinalityType
<1>2. ASSUME NEW r \in B, r \notin A
      PROVE  Cardinality(A) + 1 <= Cardinality(B)
  <2>1. A \union {r} \in SUBSET B
    BY <1>2
  <2>2. Cardinality(A \union {r}) = Cardinality(A) + 1
    BY <1>1, <1>2, FS_AddElement
  <2>3. Cardinality(A \union {r}) <= Cardinality(B)
    BY <2>1, FS_Subset
  <2> QED
    BY <2>2, <2>3
<1> QED
  BY <1>1, <1>2

-----------------------------------------------------------------------------
(* Books: bills, what is allocated to them, and payments to suppliers *)

PayOps == {"issue bill", "reconcile", "allocate bill"}

\* A request that posts or allocates has been doing so before.
KeptIn(q, ops) ==
    request'[q].op \in ops =>
        /\ request'[q].op = request[q].op /\ request'[q].doc = request[q].doc
        /\ request'[q].view = request[q].view

PayKept == \A q \in Requests : KeptIn(q, PayOps)

\* Nothing of the payables changes.
PayablesStay ==
    /\ UNCHANGED <<bill, payment, allocation, unseen>> /\ PayKept
    /\ UNCHANGED journal \/ \E r \in Requests : Booked(r) /\ request[r].op \notin PayOps

\* The steps that something of the payables changes by.
PayablesChange ==
    \/ \E b \in Bills : CreateBill(b)
    \/ \E p \in SupplierPayments : CreateSupplierPayment(p)
    \/ BillsOverdue
    \/ \E r \in Requests :
          \/ \E b \in Bills :
                \/ IssueBill(r, b)
                \/ \E p \in SupplierPayments : \E amount \in 1 .. Amount[p] : AllocateBill(r, p, b, amount)
          \/ \E p \in SupplierPayments : ReconcileSupplierPayment(r, p)
          \/ CommitBill(r) \/ CommitVoidBill(r) \/ CommitAllocateBill(r) \/ CommitReconcile(r)

\* A request that enters with another operation, or ends, leaves the others alone.
LEMMA OthersKept ==
    ASSUME IInv, NEW r \in Requests, NEW row, request' = [request EXCEPT ![r] = row],
           NEW ops, row.op \notin ops
    PROVE  \A q \in Requests : KeptIn(q, ops)
BY DEF IInv, Shape, KeptIn

LEMMA IdleKept ==
    ASSUME IInv, NEW r \in Requests, Respond(r)
    PROVE  PayKept
<1>1. Idle.op \notin PayOps
  BY DEF Idle, PayOps
<1> QED
  BY <1>1, OthersKept DEF Respond, PayKept

LEMMA PayablesCases ==
    ASSUME IInv, Next
    PROVE  PayablesStay \/ PayablesChange
<1>0. DOMAIN request = Requests /\ \A r \in Requests : DOMAIN request[r] = Fields
  BY DEF IInv, Shape
<1>1. UNCHANGED request => PayKept
  BY DEF PayKept, KeptIn
<1>2. ASSUME NEW r \in Requests, request' = [request EXCEPT ![r] = request'[r]],
             request'[r].op \notin PayOps
      PROVE  PayKept
  BY <1>0, <1>2 DEF PayKept, KeptIn
<1>3. CASE \/ CreatePayable /\ UNCHANGED <<receivables, inUse>>
           \/ BillsOverdue /\ UNCHANGED <<receivables, inUse>>
           \/ CreateReceivable /\ UNCHANGED <<payables, inUse>>
  BY <1>1, <1>3 DEF CreatePayable, CreateReceivable, CreateDebitNote, CreateInvoice,
                    CreateCustomerPayment, PayablesStay, PayablesChange, ledger, payables
<1>4. ASSUME NEW r \in Requests, PayablesStep(r)
      PROVE  PayablesStay \/ PayablesChange
  <2>1. ASSUME NEW b \in Bills, VoidBill(r, b)
        PROVE  PayablesStay
    <3>1. PayKept
      BY <1>0, <1>2, <2>1 DEF Enter, VoidBill, PayOps
    <3> QED
      BY <2>1, <3>1 DEF VoidBill, PayablesStay, payables, ledger
  <2> QED
    BY <1>4, <2>1 DEF PayablesStep, PayablesChange
<1>5. ASSUME NEW r \in Requests, ReceivablesStep(r), UNCHANGED payables
      PROVE  PayablesStay
  <2> USE <1>5 DEF PayablesStay, payables, ledger
  <2>1. ASSUME NEW i \in Invoices, IssueInvoice(r, i)
        PROVE  PayablesStay
    BY <1>0, <1>2, <2>1 DEF Enter, IssueInvoice, PayOps
  <2>2. ASSUME NEW i \in Invoices, VoidInvoice(r, i)
        PROVE  PayablesStay
    BY <1>0, <1>2, <2>2 DEF Enter, VoidInvoice, PayOps
  <2>3. ASSUME NEW i \in Invoices, NEW p, NEW amount, Allocate(r, p, i, amount)
        PROVE  PayablesStay
    BY <1>0, <1>2, <2>3 DEF Enter, Allocate, PayOps
  <2>4. CASE Sweep(r)
    BY <1>0, <1>2, <2>4 DEF Enter, Sweep, PayOps
  <2>5. CASE CommitSweep(r) \/ CommitVoidInvoice(r) \/ CommitAllocation(r)
    BY <2>5, IdleKept DEF CommitSweep, CommitVoidInvoice, CommitAllocation
  <2>6. CASE FlushInvoice(r)
    <3>1. PayKept
      BY <1>0, <2>6 DEF FlushInvoice, Emit, At, PayKept, KeptIn, PayOps
    <3> QED
      BY <2>6, <3>1 DEF FlushInvoice
  <2>7. CASE Apply(r)
    <3>1. PayKept
      BY <1>0, <2>7 DEF Apply, At, PayKept, KeptIn, PayOps
    <3> QED
      BY <2>7, <3>1 DEF Apply
  <2>8. CASE CommitInvoice(r)
    <3>1. UNCHANGED journal \/ (Booked(r) /\ request[r].op \notin PayOps)
      BY <2>8 DEF CommitInvoice, Posted, Booked, Respond, PayOps
    <3> QED
      BY <2>8, <3>1, IdleKept DEF CommitInvoice
  <2> QED
    BY <1>5, <2>1, <2>2, <2>3, <2>4, <2>5, <2>6, <2>7, <2>8 DEF ReceivablesStep
<1>6. ASSUME NEW r \in Requests, LedgerStep(r), UNCHANGED payables
      PROVE  PayablesStay
  <2> USE <1>6 DEF PayablesStay, payables, ledger
  <2>1. ASSUME NEW v, NEW p, NEW ls, CreateJournal(r, v, p, ls)
        PROVE  PayablesStay
    BY <1>0, <1>2, <2>1 DEF Enter, CreateJournal, PayOps
  <2>2. ASSUME NEW i, ReverseJournal(r, i)
        PROVE  PayablesStay
    BY <1>0, <1>2, <2>2 DEF Enter, ReverseJournal, PayOps
  <2>3. CASE CommitJournal(r)
    BY <2>3, IdleKept DEF CommitJournal, At, Posted, Booked, Respond, PayOps
  <2>4. CASE CommitReversal(r)
    BY <2>4, IdleKept DEF CommitReversal, At, Booked, Marked, Respond, PayOps
  <2>5. CASE NextEntryNo(r)
    <3>1. PayKept
      BY <1>0, <2>5 DEF NextEntryNo, PayKept, KeptIn
    <3> QED
      BY <2>5, <3>1 DEF NextEntryNo
  <2>6. CASE Rollback(r)
    BY <2>6, IdleKept DEF Rollback
  <2> QED
    BY <1>6, <2>1, <2>2, <2>3, <2>4, <2>5, <2>6 DEF LedgerStep
<1>7. ASSUME NEW p, ClosePeriod(p) \/ ReopenPeriod(p), UNCHANGED payables
      PROVE  PayablesStay
  BY <1>1, <1>7 DEF ClosePeriod, ReopenPeriod, PayablesStay, payables
<1> QED
  BY <1>3, <1>4, <1>5, <1>6, <1>7 DEF Next

\* A row that held nothing raises a sum by what it is given.
LEMMA SumRaised ==
    ASSUME NEW S, IsFiniteSet(S), NEW f, NEW h, NEW t \in S, NEW v \in Nat,
           \A x \in S : f[x] \in Nat, f[t] = 0, h[t] = v, \A x \in S \ {t} : h[x] = f[x]
    PROVE  SumFunctionOnSet(h, S) = SumFunctionOnSet(f, S) + v
<1>1. \A x \in S : f[x] \in Int /\ h[x] \in Int
  OBVIOUS
<1>2. SumFunctionOnSet(h, S) + Share(t \in S, f[t]) = SumFunctionOnSet(f, S) + Share(t \in S, h[t])
  BY <1>1, SumStep
<1>3. Share(t \in S, f[t]) = 0 /\ Share(t \in S, h[t]) = v
  BY DEF Share
<1>4. SumFunctionOnSet(h, S) \in Int /\ SumFunctionOnSet(f, S) \in Int
  BY <1>1, SumType
<1> QED
  BY <1>2, <1>3, <1>4

AllocatedTo(a, b) == [p \in SupplierPayments |-> a[p][b]]

LEMMA SumAllocatedIs ==
    ASSUME NEW b
    PROVE  /\ sum_allocated(b) = SumFunctionOnSet(AllocatedTo(allocation, b), SupplierPayments)
           /\ sum_allocated(b)' = SumFunctionOnSet(AllocatedTo(allocation', b), SupplierPayments)
<1>1. /\ DOMAIN AllocatedTo(allocation, b) = SupplierPayments
      /\ DOMAIN AllocatedTo(allocation', b) = SupplierPayments
  BY DEF AllocatedTo
<1>2. /\ sum_allocated(b) = SumFunction(AllocatedTo(allocation, b))
      /\ sum_allocated(b)' = SumFunction(AllocatedTo(allocation', b))
  BY DEF sum_allocated, AllocatedTo
<1> HIDE DEF AllocatedTo
<1> QED
  BY <1>1, <1>2 DEF SumFunction

AllocationTyped == allocation \in [SupplierPayments -> [Bills -> Nat]]

LEMMA SumAllocatedNat ==
    ASSUME AllocationTyped, NEW b \in Bills
    PROVE  sum_allocated(b) \in Nat
<1>1. \A p \in SupplierPayments : AllocatedTo(allocation, b)[p] \in Nat
  BY DEF AllocatedTo, AllocationTyped
<1> QED
  BY <1>1, SumAllocatedIs, PayablesAssumption, SumNat

\* A bill has its entry from its issue on; it is not in the journal more often than
\* requests can overlap.
BillCount(b) ==
    /\ Entries(b) + Cardinality(Issuing(b)) <= Cardinality(Requests)
    /\ bill[b] \in {"none", "draft"} => Entries(b) = 0
    /\ bill[b] \in {"issued", "overdue", "paid"} \/ sum_allocated(b) > 0 => Entries(b) >= 1

\* What is allocated to a bill, and whether it is paid.
BillSum(b) ==
    /\ b \notin unseen => sum_allocated(b) <= Total[b]
    /\ bill[b] = "paid" => sum_allocated(b) >= Total[b]
    /\ sum_allocated(b) > 0 /\ sum_allocated(b) >= Total[b] =>
          bill[b] \in {"paid", "void"} \/ b \in unseen \/ Entries(b) > 1

\* A request that allocates to bill b has read a sum, and would not go beyond the
\* total with it.
AllocatingTo(b, row) ==
    /\ row.doc[2] \in SupplierPayments /\ row.doc[3] \in Nat \ {0} /\ row.view \in Nat
    /\ row.view + row.doc[3] <= Total[b]

AllocationSound(q) ==
    request[q].op = "allocate bill" =>
        LET b == request[q].doc[1] IN
        AllocatingTo(b, request[q]) /\ request[q].view <= sum_allocated(b) /\ Entries(b) >= 1

\* A payment is cleared by its entry.
PaymentCount(p) ==
    /\ Entries(p) + Cardinality(Issuing(p)) <= Cardinality(Requests)
    /\ payment[p] = "cleared" <=> Entries(p) >= 1

PayInv ==
    /\ AllocationTyped /\ unseen \subseteq Bills
    /\ \A b \in Bills : BillCount(b) /\ BillSum(b)
    /\ \A p \in SupplierPayments : PaymentCount(p)
    /\ \A q \in Requests : AllocationSound(q)

SameRows(b) == (\A p \in SupplierPayments : allocation'[p][b] = allocation[p][b]) /\ (b \in unseen' <=> b \in unseen)

\* How a step looks for one bill.
BillMoves(b) ==
    \/ /\ SameRows(b) /\ Entries(b)' = Entries(b) /\ Issuing(b)' \subseteq Issuing(b)
       /\ \/ bill'[b] = bill[b] \/ bill'[b] = "void"
          \/ bill[b] = "none" /\ bill'[b] = "draft"
          \/ bill[b] = "issued" /\ bill'[b] = "overdue"
    \/ /\ SameRows(b) /\ Entries(b)' = Entries(b)
       /\ bill[b] = "draft" /\ bill'[b] = "draft"
    \/ /\ SameRows(b) /\ Entries(b)' = Entries(b) + 1 /\ Issuing(b)' \subseteq Issuing(b)
       /\ Issuing(b)' # Issuing(b)
       /\ bill'[b] = "issued"
    \/ /\ Entries(b)' = Entries(b) /\ Issuing(b)' \subseteq Issuing(b)
       /\ \E r \in Requests : request[r].doc[1] = b /\ CommitAllocateBill(r)

LEMMA SumSameRows ==
    ASSUME NEW b, SameRows(b)
    PROVE  sum_allocated(b)' = sum_allocated(b)
<1>1. AllocatedTo(allocation', b) = AllocatedTo(allocation, b)
  BY DEF AllocatedTo, SameRows
<1> QED
  BY <1>1, SumAllocatedIs

\* The row of an allocation raises the sum of its bill by the amount.
LEMMA SumAllocatedMore ==
    ASSUME IInv, PayInv, NEW b \in Bills, NEW r \in Requests, CommitAllocateBill(r), request[r].doc[1] = b
    PROVE  sum_allocated(b)' = sum_allocated(b) + request[r].doc[3]
<1> DEFINE p == request[r].doc[2]
           v == request[r].doc[3]
<1>1. /\ request[r].op = "allocate bill" /\ allocation[p][b] = 0
      /\ allocation' = [allocation EXCEPT ![p][b] = v]
  BY DEF CommitAllocateBill, At
<1>2. p \in SupplierPayments /\ v \in Nat
  BY <1>1 DEF PayInv, AllocationSound, AllocatingTo
<1>3. allocation \in [SupplierPayments -> [Bills -> Nat]]
  BY DEF PayInv, AllocationTyped
<1> HIDE DEF p, v
<1> DEFINE f == AllocatedTo(allocation, b)
           h == AllocatedTo(allocation', b)
<1>4. /\ \A x \in SupplierPayments : f[x] \in Nat
      /\ f[p] = 0 /\ h[p] = v /\ \A x \in SupplierPayments \ {p} : h[x] = f[x]
  BY <1>1, <1>2, <1>3 DEF AllocatedTo
<1> HIDE DEF f, h
<1>5. SumFunctionOnSet(h, SupplierPayments) = SumFunctionOnSet(f, SupplierPayments) + v
  <2>1. IsFiniteSet(SupplierPayments)
    BY PayablesAssumption
  <2> QED
    BY <1>2, <1>4, <2>1, SumRaised
<1>6. sum_allocated(b) = SumFunctionOnSet(f, SupplierPayments) /\ sum_allocated(b)' = SumFunctionOnSet(h, SupplierPayments)
  BY SumAllocatedIs DEF f, h
<1> QED
  BY <1>5, <1>6, Zenon DEF v

\* Requests that are kept or gone are no more than before.
LEMMA IssuingKept ==
    ASSUME NEW d, NEW ops, OpFor(d) \in ops, \A q \in Requests : KeptIn(q, ops)
    PROVE  Issuing(d)' \subseteq Issuing(d)
<1>1. Issuing(d)' = {q \in Requests : request'[q].op = OpFor(d) /\ request'[q].doc[1] = d}
  BY DEF Issuing, OpFor
<1> QED
  BY <1>1 DEF Issuing, KeptIn

LEMMA PayOpsFor ==
    ASSUME NEW d \in Bills \union SupplierPayments
    PROVE  /\ OpFor(d) \in PayOps /\ d \in Sources
           /\ d \in Bills => OpFor(d) = "issue bill"
           /\ d \in SupplierPayments => OpFor(d) = "reconcile"
BY PayablesAssumption DEF OpFor, PayOps, Sources

\* A commit of another operation leaves the count of a document alone.
LEMMA OtherCount ==
    ASSUME IInv, EntriesInv, NEW d \in Sources,
           UNCHANGED journal \/ \E r \in Requests : Booked(r) /\ r \notin Issuing(d)
    PROVE  Entries(d)' = Entries(d)
<1>1. ASSUME NEW r \in Requests, Booked(r), r \notin Issuing(d)
      PROVE  Entries(d)' = Entries(d)
  <2>1. Entries(d)' = Entries(d) + Share(r \in Issuing(d), 1) /\ Entries(d) \in Nat
    BY <1>1, BookedCount, EntriesType
  <2>2. Share(r \in Issuing(d), 1) = 0
    BY <1>1 DEF Share
  <2> QED
    BY <2>1, <2>2
<1> QED
  BY <1>1, SameCount

\* When the payables stay, so does what is counted of them.
LEMMA StayCount ==
    ASSUME IInv, EntriesInv, PayablesStay, NEW d \in Bills \union SupplierPayments
    PROVE  Entries(d)' = Entries(d) /\ Issuing(d)' \subseteq Issuing(d)
<1>1. OpFor(d) \in PayOps /\ d \in Sources
  BY PayOpsFor
<1>2. Issuing(d)' \subseteq Issuing(d)
  BY <1>1, IssuingKept DEF PayablesStay, PayKept
<1>3. \A r \in Requests : request[r].op \notin PayOps => r \notin Issuing(d)
  BY <1>1 DEF Issuing
<1> QED
  BY <1>1, <1>2, <1>3, OtherCount DEF PayablesStay

\* Who answers is no longer counted among the requests for a document.
LEMMA AnsweredCount ==
    ASSUME IInv, NEW r \in Requests, Respond(r), NEW d \in Bills \union SupplierPayments
    PROVE  Issuing(d)' \subseteq Issuing(d) /\ r \notin Issuing(d)'
<1>1. OpFor(d) \in PayOps /\ OpFor(d) # "none"
  BY PayOpsFor DEF PayOps
<1>2. Issuing(d)' \subseteq Issuing(d)
  BY <1>1, IdleKept, IssuingKept DEF PayKept
<1>3. request'[r].op = "none"
  BY DEF Respond, Idle, IInv, Shape
<1>4. Issuing(d)' = {q \in Requests : request'[q].op = OpFor(d) /\ request'[q].doc[1] = d}
  BY DEF Issuing, OpFor
<1> QED
  BY <1>1, <1>2, <1>3, <1>4

LEMMA BillMovesHolds ==
    ASSUME IInv, EntriesInv, AllocationTyped, Next, NEW b \in Bills
    PROVE  BillMoves(b)
<1>0. /\ DOMAIN request = Requests /\ \A r \in Requests : DOMAIN request[r] = Fields
      /\ bill \in [Bills -> BillStatus]
      /\ OpFor(b) = "issue bill" /\ b \in Sources
  BY PayOpsFor DEF IInv, Shape
<1>1. CASE PayablesStay
  BY <1>1, StayCount DEF PayablesStay, BillMoves, SameRows
<1>2. ASSUME UNCHANGED <<journal, request>>
      PROVE  Entries(b)' = Entries(b) /\ Issuing(b)' \subseteq Issuing(b)
  BY <1>2, SameCount DEF Issuing, OpFor
<1>3. ASSUME NEW c \in Bills, CreateBill(c)
      PROVE  BillMoves(b)
  BY <1>0, <1>2, <1>3 DEF CreateBill, BillMoves, SameRows
<1>4. ASSUME NEW p, CreateSupplierPayment(p)
      PROVE  BillMoves(b)
  BY <1>2, <1>4 DEF CreateSupplierPayment, BillMoves, SameRows
<1>5. CASE BillsOverdue
  BY <1>0, <1>2, <1>5 DEF BillsOverdue, BillMoves, SameRows, ledger
<1>6. ASSUME NEW r \in Requests, NEW c \in Bills, IssueBill(r, c)
      PROVE  BillMoves(b)
  <2>1. UNCHANGED <<journal, bill, allocation, unseen>> /\ bill[c] = "draft"
    BY <1>6 DEF IssueBill, ledger, payables
  <2>2. CASE b = c
    BY <2>1, <2>2, SameCount DEF BillMoves, SameRows
  <2>3. CASE b # c
    <3>1. \A q \in Requests : request'[q].op = "issue bill" /\ request'[q].doc[1] = b
                                  => request[q].op = "issue bill" /\ request[q].doc[1] = b
      BY <1>0, <1>6, <2>3 DEF IssueBill, Enter
    <3>2. Issuing(b)' \subseteq Issuing(b)
      BY <1>0, <3>1 DEF Issuing, OpFor
    <3> QED
      BY <2>1, <3>2, SameCount DEF BillMoves, SameRows
  <2> QED
    BY <2>2, <2>3
<1>7. ASSUME NEW r \in Requests, \/ \E c, p, amount : AllocateBill(r, p, c, amount)
                                \/ \E p : ReconcileSupplierPayment(r, p)
      PROVE  BillMoves(b)
  <2>1. UNCHANGED <<journal, bill, allocation, unseen>>
    BY <1>7 DEF AllocateBill, ReconcileSupplierPayment, ledger, payables
  <2>2. /\ request' = [request EXCEPT ![r] = request'[r]]
        /\ request'[r].op # "issue bill"
    <3>1. ASSUME NEW c, NEW p, NEW amount, AllocateBill(r, p, c, amount)
          PROVE  request' = [request EXCEPT ![r] = request'[r]] /\ request'[r].op # "issue bill"
      BY <1>0, <3>1 DEF AllocateBill, Enter
    <3>2. ASSUME NEW p, ReconcileSupplierPayment(r, p)
          PROVE  request' = [request EXCEPT ![r] = request'[r]] /\ request'[r].op # "issue bill"
      BY <1>0, <3>2 DEF ReconcileSupplierPayment, Enter
    <3> QED
      BY <1>7, <3>1, <3>2
  <2>3. Issuing(b)' \subseteq Issuing(b)
    BY <1>0, <2>2 DEF Issuing, OpFor
  <2> QED
    BY <2>1, <2>3, SameCount DEF BillMoves, SameRows
<1>8. ASSUME NEW r \in Requests, CommitBill(r) \/ CommitReconcile(r)
      PROVE  BillMoves(b)
  <2>1. Booked(r) /\ Respond(r)
    BY <1>8 DEF CommitBill, CommitReconcile, At, Posted, Respond, Booked
  <2>2. Issuing(b)' \subseteq Issuing(b) /\ r \notin Issuing(b)'
    BY <2>1, AnsweredCount
  <2>3. UNCHANGED <<allocation, unseen>>
    BY <1>8 DEF CommitBill, CommitReconcile
  <2>4. CASE r \in Issuing(b)
    <3>1. Share(r \in Issuing(b), 1) = 1
      BY <2>4 DEF Share
    <3>2. Entries(b)' = Entries(b) + 1
      BY <1>0, <2>1, <3>1, BookedCount
    <3>3. request[r].op = "issue bill" /\ request[r].doc[1] = b
      BY <1>0, <2>4 DEF Issuing
    <3>4. bill'[b] = "issued"
      BY <1>0, <1>8, <3>3 DEF CommitBill, CommitReconcile, At
    <3> QED
      BY <2>2, <2>3, <2>4, <3>2, <3>4 DEF BillMoves, SameRows
  <2>5. CASE r \notin Issuing(b)
    <3>1. Entries(b)' = Entries(b)
      BY <1>0, <2>1, <2>5, OtherCount
    <3>2. bill'[b] = bill[b]
      BY <1>0, <1>8, <2>5 DEF CommitBill, CommitReconcile, At, Issuing
    <3> QED
      BY <2>2, <2>3, <3>1, <3>2 DEF BillMoves, SameRows
  <2> QED
    BY <2>4, <2>5
<1>9. ASSUME NEW r \in Requests, CommitVoidBill(r)
      PROVE  BillMoves(b)
  <2>1. Issuing(b)' \subseteq Issuing(b)
    BY <1>9, AnsweredCount DEF CommitVoidBill
  <2>2. Entries(b)' = Entries(b)
    BY <1>9, SameCount DEF CommitVoidBill, ledger
  <2>3. bill'[b] = bill[b] \/ bill'[b] = "void"
    BY <1>0, <1>9 DEF CommitVoidBill
  <2> QED
    BY <1>9, <2>1, <2>2, <2>3 DEF CommitVoidBill, BillMoves, SameRows
<1>10. ASSUME NEW r \in Requests, CommitAllocateBill(r)
       PROVE  BillMoves(b)
  <2>1. Issuing(b)' \subseteq Issuing(b)
    BY <1>10, AnsweredCount DEF CommitAllocateBill
  <2>2. Entries(b)' = Entries(b)
    BY <1>10, SameCount DEF CommitAllocateBill, ledger
  <2>3. CASE request[r].doc[1] = b
    BY <1>10, <2>1, <2>2, <2>3 DEF BillMoves
  <2>4. CASE request[r].doc[1] # b
    <3>1. bill'[b] = bill[b] /\ (b \in unseen' <=> b \in unseen)
      BY <1>0, <1>10, <2>4 DEF CommitAllocateBill
    <3>2. \A p \in SupplierPayments : allocation'[p][b] = allocation[p][b]
      <4> DEFINE t == request[r].doc[2]
                 c == request[r].doc[1]
      <4>1. allocation' = [allocation EXCEPT ![t][c] = request[r].doc[3]] /\ b # c
        BY <1>10, <2>4 DEF CommitAllocateBill
      <4> HIDE DEF t, c
      <4> QED
        BY <4>1 DEF AllocationTyped
    <3> QED
      BY <2>1, <2>2, <3>1, <3>2 DEF BillMoves, SameRows
  <2> QED
    BY <2>3, <2>4
<1> QED
  BY <1>1, <1>3, <1>4, <1>5, <1>6, <1>7, <1>8, <1>9, <1>10, PayablesCases DEF PayablesChange

\* An allocation raises the sum of its bill, and tells whether it has missed another.
LEMMA AllocatedIs ==
    ASSUME IInv, PayInv, NEW b \in Bills, NEW r \in Requests, CommitAllocateBill(r), request[r].doc[1] = b
    PROVE  \E v \in Nat \ {0}, seen \in Nat :
              /\ sum_allocated(b)' = sum_allocated(b) + v /\ seen <= sum_allocated(b)
              /\ seen + v <= Total[b] /\ Entries(b) >= 1
              /\ bill'[b] = IF seen + v >= Total[b] THEN "paid" ELSE bill[b]
              /\ b \in unseen' <=> b \in unseen \/ seen # sum_allocated(b)
<1>1. request[r].op = "allocate bill"
  BY DEF CommitAllocateBill, At
<1>2. AllocationSound(r)
  BY DEF PayInv
<1>3. PICK v : v = request[r].doc[3]
  OBVIOUS
<1>4. PICK seen : seen = request[r].view
  OBVIOUS
<1>5. /\ v \in Nat \ {0} /\ seen \in Nat
      /\ seen <= sum_allocated(b)
      /\ seen + v <= Total[b] /\ Entries(b) >= 1
  BY <1>1, <1>2, <1>3, <1>4 DEF AllocationSound, AllocatingTo
<1>6. sum_allocated(b)' = sum_allocated(b) + v
  BY <1>3, SumAllocatedMore
<1>7. bill'[b] = IF seen + v >= Total[b] THEN "paid" ELSE bill[b]
  BY <1>3, <1>4 DEF CommitAllocateBill, IInv, Shape
<1>8. b \in unseen' <=> b \in unseen \/ seen # sum_allocated(b)
  BY <1>4 DEF CommitAllocateBill
<1> QED
  BY <1>5, <1>6, <1>7, <1>8

LEMMA BillCountStep ==
    ASSUME IInv, EntriesInv, PayInv, Next, NEW b \in Bills
    PROVE  BillCount(b)'
<1> DEFINE n == Entries(b)
           m == Entries(b)'
           c == Cardinality(Issuing(b))
           d == Cardinality(Issuing(b)')
           N == Cardinality(Requests)
           s == sum_allocated(b)
           t == sum_allocated(b)'
<1>1. BillMoves(b)
  BY BillMovesHolds DEF PayInv
<1>2. /\ n + c <= N /\ (bill[b] \in {"none", "draft"} => n = 0)
      /\ bill[b] \in {"issued", "overdue", "paid"} \/ s > 0 => n >= 1
  BY DEF PayInv, BillCount
<1>3. n \in Nat /\ c \in Nat /\ N \in Nat /\ s \in Nat /\ IsFiniteSet(Issuing(b))
  BY EntriesType, IssuingCount, SumAllocatedNat, LedgerAssumption, FS_CardinalityType DEF PayInv
<1>4. /\ Issuing(b)' \subseteq Issuing(b) => d \in Nat /\ d <= c
      /\ Issuing(b)' \subseteq Issuing(b) /\ Issuing(b)' # Issuing(b) => d + 1 <= c
      /\ d \in Nat /\ d <= N
  <2>1. Issuing(b)' \subseteq Issuing(b) => d \in Nat /\ d <= c
    BY <1>3, FewerRequests
  <2>2. ASSUME Issuing(b)' \subseteq Issuing(b), Issuing(b)' # Issuing(b)
        PROVE  d + 1 <= c
    <3>1. PICK r \in Issuing(b) : r \notin Issuing(b)'
      BY <2>2
    <3> QED
      BY <1>3, <2>2, <3>1, FewerRequests
  <2>3. Issuing(b)' \subseteq Requests
    BY DEF Issuing
  <2>4. d \in Nat /\ d <= N
    BY <2>3, LedgerAssumption, FewerRequests
  <2> QED
    BY <2>1, <2>2, <2>4
<1>5. BillCount(b)' <=>
          /\ m + d <= N
          /\ bill'[b] \in {"none", "draft"} => m = 0
          /\ bill'[b] \in {"issued", "overdue", "paid"} \/ t > 0 => m >= 1
  BY DEF BillCount
<1>6. bill[b] \in BillStatus
  BY DEF IInv, Shape
<1>7. SameRows(b) => t = s
  BY SumSameRows
<1> HIDE DEF n, m, c, d, N, s, t
<1>8. CASE /\ SameRows(b) /\ m = n /\ Issuing(b)' \subseteq Issuing(b)
           /\ \/ bill'[b] = bill[b] \/ bill'[b] = "void"
              \/ bill[b] = "none" /\ bill'[b] = "draft"
              \/ bill[b] = "issued" /\ bill'[b] = "overdue"
  BY <1>2, <1>3, <1>4, <1>5, <1>7, <1>8
<1>9. CASE /\ SameRows(b) /\ m = n /\ bill[b] = "draft" /\ bill'[b] = "draft"
  BY <1>2, <1>3, <1>4, <1>5, <1>7, <1>9
<1>10. CASE /\ SameRows(b) /\ m = n + 1 /\ Issuing(b)' \subseteq Issuing(b)
            /\ Issuing(b)' # Issuing(b) /\ bill'[b] = "issued"
  BY <1>2, <1>3, <1>4, <1>5, <1>7, <1>10
<1>11. ASSUME m = n, Issuing(b)' \subseteq Issuing(b),
              NEW r \in Requests, request[r].doc[1] = b, CommitAllocateBill(r)
       PROVE  BillCount(b)'
  <2>1. n >= 1 /\ bill'[b] \in {"paid", bill[b]}
    BY <1>11, AllocatedIs DEF n
  <2> QED
    BY <1>2, <1>3, <1>4, <1>5, <1>11, <2>1
<1> QED
  BY <1>1, <1>8, <1>9, <1>10, <1>11 DEF BillMoves, n, m

LEMMA BillSumStep ==
    ASSUME IInv, EntriesInv, PayInv, Next, NEW b \in Bills
    PROVE  BillSum(b)'
<1> DEFINE n == Entries(b)
           m == Entries(b)'
           s == sum_allocated(b)
           t == sum_allocated(b)'
<1>1. BillMoves(b)
  BY BillMovesHolds DEF PayInv
<1>2. /\ b \notin unseen => s <= Total[b]
      /\ bill[b] = "paid" => s >= Total[b]
      /\ s > 0 /\ s >= Total[b] => bill[b] \in {"paid", "void"} \/ b \in unseen \/ n > 1
  BY DEF PayInv, BillSum
<1>3. /\ bill[b] \in {"none", "draft"} => n = 0
      /\ s > 0 => n >= 1
  BY DEF PayInv, BillCount
<1>4. n \in Nat /\ s \in Nat /\ Total[b] \in Nat
  BY EntriesType, SumAllocatedNat, PayablesAssumption DEF PayInv
<1>5. BillSum(b)' <=>
          /\ b \notin unseen' => t <= Total[b]
          /\ bill'[b] = "paid" => t >= Total[b]
          /\ t > 0 /\ t >= Total[b] => bill'[b] \in {"paid", "void"} \/ b \in unseen' \/ m > 1
  BY DEF BillSum
<1>6. SameRows(b) => t = s /\ (b \in unseen' <=> b \in unseen)
  BY SumSameRows DEF SameRows
<1> HIDE DEF n, m, s, t
<1>7. CASE /\ SameRows(b) /\ m = n /\ Issuing(b)' \subseteq Issuing(b)
           /\ \/ bill'[b] = bill[b] \/ bill'[b] = "void"
              \/ bill[b] = "none" /\ bill'[b] = "draft"
              \/ bill[b] = "issued" /\ bill'[b] = "overdue"
  BY <1>2, <1>3, <1>4, <1>5, <1>6, <1>7
<1>8. CASE /\ SameRows(b) /\ m = n /\ bill[b] = "draft" /\ bill'[b] = "draft"
  BY <1>2, <1>3, <1>4, <1>5, <1>6, <1>8
<1>9. CASE /\ SameRows(b) /\ m = n + 1 /\ Issuing(b)' \subseteq Issuing(b)
           /\ Issuing(b)' # Issuing(b) /\ bill'[b] = "issued"
  BY <1>2, <1>3, <1>4, <1>5, <1>6, <1>9
<1>10. ASSUME m = n, NEW r \in Requests, request[r].doc[1] = b, CommitAllocateBill(r)
       PROVE  BillSum(b)'
  <2>1. PICK v \in Nat \ {0}, seen \in Nat :
              /\ t = s + v /\ seen <= s
              /\ seen + v <= Total[b]
              /\ bill'[b] = IF seen + v >= Total[b] THEN "paid" ELSE bill[b]
              /\ b \in unseen' <=> b \in unseen \/ seen # s
    BY <1>10, AllocatedIs DEF s, t
  <2> QED
    BY <1>2, <1>4, <1>5, <2>1
<1> QED
  BY <1>1, <1>7, <1>8, <1>9, <1>10 DEF BillMoves, n, m

\* Neither what is allocated to a bill nor its entries become less.
LEMMA BillGrows ==
    ASSUME IInv, EntriesInv, PayInv, Next, NEW b \in Bills
    PROVE  /\ sum_allocated(b) \in Nat /\ sum_allocated(b)' \in Nat /\ sum_allocated(b)' >= sum_allocated(b)
           /\ Entries(b) \in Nat /\ Entries(b)' \in Nat /\ Entries(b)' >= Entries(b)
<1> DEFINE n == Entries(b)
           m == Entries(b)'
           s == sum_allocated(b)
           t == sum_allocated(b)'
<1>1. BillMoves(b)
  BY BillMovesHolds DEF PayInv
<1>2. n \in Nat /\ s \in Nat
  BY EntriesType, SumAllocatedNat DEF PayInv
<1>3. SameRows(b) => t = s
  BY SumSameRows
<1>4. ASSUME NEW r \in Requests, request[r].doc[1] = b, CommitAllocateBill(r)
      PROVE  t \in Nat /\ t >= s
  <2>1. PICK v \in Nat \ {0} : t = s + v
    BY <1>4, AllocatedIs
  <2> QED
    BY <1>2, <2>1
<1> HIDE DEF n, m, s, t
<1>5. m = n \/ m = n + 1
  BY <1>1 DEF BillMoves, n, m
<1>6. t \in Nat /\ t >= s
  BY <1>1, <1>2, <1>3, <1>4 DEF BillMoves
<1> QED
  BY <1>2, <1>5, <1>6 DEF n, m, s, t

\* Who allocates has been doing so, or has just begun to.
LEMMA AllocatingCases ==
    ASSUME IInv, Next, NEW q \in Requests, request'[q].op = "allocate bill"
    PROVE  \/ /\ request[q].op = "allocate bill" /\ request'[q].doc = request[q].doc
              /\ request'[q].view = request[q].view
           \/ \E b \in Bills, p \in SupplierPayments : \E amount \in 1 .. Amount[p] : AllocateBill(q, p, b, amount)
<1>0. DOMAIN request = Requests /\ \A r \in Requests : DOMAIN request[r] = Fields
  BY DEF IInv, Shape
<1> DEFINE Kept == /\ request[q].op = "allocate bill" /\ request'[q].doc = request[q].doc
                   /\ request'[q].view = request[q].view
<1>1. CASE PayablesStay
  BY <1>1 DEF PayablesStay, PayKept, KeptIn, PayOps
<1>2. UNCHANGED request => Kept
  OBVIOUS
<1>3. ASSUME (\E b \in Bills : CreateBill(b)) \/ (\E p \in SupplierPayments : CreateSupplierPayment(p)) \/ BillsOverdue
      PROVE  Kept
  BY <1>2, <1>3 DEF CreateBill, CreateSupplierPayment, BillsOverdue
<1>4. ASSUME NEW r \in Requests, NEW b \in Bills, IssueBill(r, b)
      PROVE  Kept
  BY <1>0, <1>4 DEF IssueBill, Enter
<1>5. ASSUME NEW r \in Requests, NEW p \in SupplierPayments, ReconcileSupplierPayment(r, p)
      PROVE  Kept
  BY <1>0, <1>5 DEF ReconcileSupplierPayment, Enter
<1>6. ASSUME NEW r \in Requests, Respond(r)
      PROVE  Kept
  BY <1>0, <1>6 DEF Respond, Idle
<1>7. ASSUME NEW r \in Requests,
             CommitBill(r) \/ CommitVoidBill(r) \/ CommitAllocateBill(r) \/ CommitReconcile(r)
      PROVE  Kept
  BY <1>6, <1>7 DEF CommitBill, CommitVoidBill, CommitAllocateBill, CommitReconcile
<1>8. ASSUME NEW r \in Requests, NEW b \in Bills, NEW p \in SupplierPayments, NEW amount \in 1 .. Amount[p],
             AllocateBill(r, p, b, amount)
      PROVE  Kept \/ AllocateBill(q, p, b, amount)
  <2>1. CASE r = q
    BY <1>8, <2>1
  <2>2. CASE r # q
    BY <1>0, <1>8, <2>2 DEF AllocateBill, Enter
  <2> QED
    BY <2>1, <2>2
<1> HIDE DEF Kept
<1>9. CASE PayablesChange
  <2>1. Kept \/ \E b \in Bills, p \in SupplierPayments : \E amount \in 1 .. Amount[p] : AllocateBill(q, p, b, amount)
    BY <1>3, <1>4, <1>5, <1>7, <1>8, <1>9 DEF PayablesChange
  <2> QED
    BY <2>1 DEF Kept
<1> QED
  BY <1>1, <1>9, PayablesCases

LEMMA AllocationSoundStep ==
    ASSUME IInv, EntriesInv, PayInv, Next, NEW q \in Requests
    PROVE  AllocationSound(q)'
<1>1. SUFFICES ASSUME request'[q].op = "allocate bill", NEW b, request'[q].doc[1] = b
               PROVE  /\ AllocatingTo(b, request'[q])
                      /\ request'[q].view <= sum_allocated(b)' /\ Entries(b)' >= 1
  <2>1. PICK b : request'[q].doc[1] = b
    OBVIOUS
  <2> QED
    BY <2>1 DEF AllocationSound
<1> DEFINE t == sum_allocated(b)'
           m == Entries(b)'
<1>2. (sum_allocated(b)' = t) /\ (Entries(b)' = m)
  OBVIOUS
<1> HIDE DEF t, m
<1>3. CASE /\ request[q].op = "allocate bill" /\ request'[q].doc = request[q].doc
           /\ request'[q].view = request[q].view
  <2>1. b \in Bills
    BY <1>3, <1>1 DEF IInv, BillSound
  <2>2. AllocatingTo(b, request[q]) /\ request[q].view <= sum_allocated(b) /\ Entries(b) >= 1
    BY <1>3, <1>1 DEF PayInv, AllocationSound
  <2>3. request[q].view \in Nat
    BY <2>2 DEF AllocatingTo
  <2>4. /\ sum_allocated(b) \in Nat /\ t \in Nat /\ t >= sum_allocated(b)
        /\ Entries(b) \in Nat /\ m \in Nat /\ m >= Entries(b)
    BY <1>2, <1>1, <2>1, BillGrows
  <2>5. AllocatingTo(b, request'[q])
    BY <1>3, <2>2 DEF AllocatingTo
  <2>6. PICK v : v = request[q].view
    OBVIOUS
  <2>7. v \in Nat /\ v <= sum_allocated(b) /\ request'[q].view = v
    BY <1>3, <2>2, <2>3, <2>6
  <2>8. m >= 1
    BY <2>2, <2>4
  <2>9. request'[q].view <= t
    BY <2>4, <2>7
  <2> QED
    BY <1>2, <2>5, <2>8, <2>9, Zenon
<1>4. ASSUME NEW c \in Bills, NEW p \in SupplierPayments, NEW amount \in 1 .. Amount[p],
             AllocateBill(q, p, c, amount)
      PROVE  AllocatingTo(b, request'[q]) /\ request'[q].view <= t /\ m >= 1
  <2>1. /\ request'[q].doc = <<c, p, amount>> /\ request'[q].view = sum_allocated(c)
        /\ bill[c] \in {"issued", "overdue"} /\ amount <= Total[c] - sum_allocated(c)
    BY <1>4 DEF AllocateBill, Enter, IInv, Shape
  <2>2. b = c /\ request'[q].doc[2] = p /\ request'[q].doc[3] = amount
    <3>1. PICK d : d = request'[q].doc
      OBVIOUS
    <3>2. d = <<c, p, amount>> /\ d[1] = b
      BY <1>1, <2>1, <3>1
    <3>3. d[1] = c /\ d[2] = p /\ d[3] = amount
      BY <3>2
    <3> QED
      BY <3>1, <3>2, <3>3
  <2>3. /\ sum_allocated(b) \in Nat /\ t \in Nat /\ t >= sum_allocated(b)
        /\ Entries(b) \in Nat /\ m \in Nat /\ m >= Entries(b)
    BY <1>2, <1>1, <2>2, BillGrows
  <2>4. Entries(b) >= 1
    BY <2>1, <2>2 DEF PayInv, BillCount
  <2>5. Amount[p] \in Nat /\ Total[b] \in Nat
    BY <2>2, PayablesAssumption
  <2>6. PICK s : s = sum_allocated(b)
    OBVIOUS
  <2>7. amount <= Total[b] - s /\ s \in Nat /\ t >= s /\ request'[q].view = s
    BY <2>1, <2>2, <2>3, <2>6
  <2>8. amount \in Nat \ {0} /\ s + amount <= Total[b]
    <3>1. amount \in Nat /\ amount >= 1
      BY <2>5
    <3>2. amount <= Total[b] - s /\ s \in Nat
      BY <2>7
    <3> QED
      BY <2>5, <3>1, <3>2
  <2>9. AllocatingTo(b, request'[q])
    BY <2>2, <2>7, <2>8 DEF AllocatingTo
  <2>10. request'[q].view <= t
    BY <2>7
  <2>11. m >= 1
    BY <2>3, <2>4
  <2> QED
    BY <2>9, <2>10, <2>11, Zenon
<1> QED
  BY <1>3, <1>4, <1>1, <1>2, AllocatingCases

\* How a step looks for one payment to a supplier.
PaymentMoves(p) ==
    \/ /\ Entries(p)' = Entries(p) /\ Issuing(p)' \subseteq Issuing(p)
       /\ payment'[p] = payment[p] \/ (payment[p] = "none" /\ payment'[p] = "uncleared")
    \/ Entries(p)' = Entries(p) /\ payment[p] = "uncleared" /\ payment'[p] = "uncleared"
    \/ /\ Entries(p)' = Entries(p) + 1 /\ Issuing(p)' \subseteq Issuing(p) /\ Issuing(p)' # Issuing(p)
       /\ payment'[p] = "cleared"

LEMMA PaymentMovesHolds ==
    ASSUME IInv, EntriesInv, Next, NEW p \in SupplierPayments
    PROVE  PaymentMoves(p)
<1>0. /\ DOMAIN request = Requests /\ \A r \in Requests : DOMAIN request[r] = Fields
      /\ payment \in [SupplierPayments -> PaymentStatus]
      /\ OpFor(p) = "reconcile" /\ p \in Sources
  BY PayOpsFor DEF IInv, Shape
<1>1. CASE PayablesStay
  BY <1>1, StayCount DEF PayablesStay, PaymentMoves
<1>2. ASSUME UNCHANGED <<journal, request>>
      PROVE  Entries(p)' = Entries(p) /\ Issuing(p)' \subseteq Issuing(p)
  BY <1>2, SameCount DEF Issuing, OpFor
<1>3. ASSUME (\E b \in Bills : CreateBill(b)) \/ BillsOverdue
      PROVE  PaymentMoves(p)
  BY <1>2, <1>3 DEF CreateBill, BillsOverdue, ledger, PaymentMoves
<1>4. ASSUME NEW c \in SupplierPayments, CreateSupplierPayment(c)
      PROVE  PaymentMoves(p)
  BY <1>0, <1>2, <1>4 DEF CreateSupplierPayment, PaymentMoves
<1>5. ASSUME NEW r \in Requests, NEW c \in SupplierPayments, ReconcileSupplierPayment(r, c)
      PROVE  PaymentMoves(p)
  <2>1. UNCHANGED <<journal, payment>> /\ payment[c] = "uncleared"
    BY <1>5 DEF ReconcileSupplierPayment, ledger, payables
  <2>2. CASE p = c
    BY <2>1, <2>2, SameCount DEF PaymentMoves
  <2>3. CASE p # c
    <3>1. \A q \in Requests : request'[q].op = "reconcile" /\ request'[q].doc[1] = p
                                  => request[q].op = "reconcile" /\ request[q].doc[1] = p
      BY <1>0, <1>5, <2>3 DEF ReconcileSupplierPayment, Enter
    <3>2. Issuing(p)' \subseteq Issuing(p)
      BY <1>0, <3>1 DEF Issuing, OpFor
    <3> QED
      BY <2>1, <3>2, SameCount DEF PaymentMoves
  <2> QED
    BY <2>2, <2>3
<1>6. ASSUME NEW r \in Requests, \/ \E b : IssueBill(r, b)
                                \/ \E b, c, amount : AllocateBill(r, c, b, amount)
      PROVE  PaymentMoves(p)
  <2>1. UNCHANGED <<journal, payment>>
    BY <1>6 DEF AllocateBill, IssueBill, ledger, payables
  <2>2. request' = [request EXCEPT ![r] = request'[r]] /\ request'[r].op # "reconcile"
    <3>1. ASSUME NEW b, NEW c, NEW amount, AllocateBill(r, c, b, amount)
          PROVE  request' = [request EXCEPT ![r] = request'[r]] /\ request'[r].op # "reconcile"
      BY <1>0, <3>1 DEF AllocateBill, Enter
    <3>2. ASSUME NEW b, IssueBill(r, b)
          PROVE  request' = [request EXCEPT ![r] = request'[r]] /\ request'[r].op # "reconcile"
      BY <1>0, <3>2 DEF IssueBill, Enter
    <3> QED
      BY <1>6, <3>1, <3>2
  <2>3. Issuing(p)' \subseteq Issuing(p)
    BY <1>0, <2>2 DEF Issuing, OpFor
  <2> QED
    BY <2>1, <2>3, SameCount DEF PaymentMoves
<1>7. ASSUME NEW r \in Requests, CommitBill(r) \/ CommitReconcile(r)
      PROVE  PaymentMoves(p)
  <2>1. Booked(r) /\ Respond(r)
    BY <1>7 DEF CommitBill, CommitReconcile, At, Posted, Respond, Booked
  <2>2. Issuing(p)' \subseteq Issuing(p) /\ r \notin Issuing(p)'
    BY <2>1, AnsweredCount
  <2>3. CASE r \in Issuing(p)
    <3>1. Share(r \in Issuing(p), 1) = 1
      BY <2>3 DEF Share
    <3>2. Entries(p)' = Entries(p) + 1
      BY <1>0, <2>1, <3>1, BookedCount
    <3>3. request[r].op = "reconcile" /\ request[r].doc[1] = p
      BY <1>0, <2>3 DEF Issuing
    <3>4. payment'[p] = "cleared"
      BY <1>0, <1>7, <3>3 DEF CommitBill, CommitReconcile, At
    <3> QED
      BY <2>2, <2>3, <3>2, <3>4 DEF PaymentMoves
  <2>4. CASE r \notin Issuing(p)
    <3>1. Entries(p)' = Entries(p)
      BY <1>0, <2>1, <2>4, OtherCount
    <3>2. payment'[p] = payment[p]
      BY <1>0, <1>7, <2>4 DEF CommitBill, CommitReconcile, At, Issuing
    <3> QED
      BY <2>2, <3>1, <3>2 DEF PaymentMoves
  <2> QED
    BY <2>3, <2>4
<1>8. ASSUME NEW r \in Requests, CommitVoidBill(r) \/ CommitAllocateBill(r)
      PROVE  PaymentMoves(p)
  <2>1. Respond(r) /\ UNCHANGED <<journal, payment>>
    BY <1>8 DEF CommitVoidBill, CommitAllocateBill, ledger
  <2> QED
    BY <2>1, AnsweredCount, SameCount DEF PaymentMoves
<1> QED
  BY <1>1, <1>3, <1>4, <1>5, <1>6, <1>7, <1>8, PayablesCases DEF PayablesChange

LEMMA PaymentCountStep ==
    ASSUME IInv, EntriesInv, PayInv, Next, NEW p \in SupplierPayments
    PROVE  PaymentCount(p)'
<1> DEFINE n == Entries(p)
           m == Entries(p)'
           c == Cardinality(Issuing(p))
           d == Cardinality(Issuing(p)')
           N == Cardinality(Requests)
<1>1. PaymentMoves(p)
  BY PaymentMovesHolds
<1>2. n + c <= N /\ (payment[p] = "cleared" <=> n >= 1)
  BY DEF PayInv, PaymentCount
<1>3. n \in Nat /\ c \in Nat /\ N \in Nat /\ IsFiniteSet(Issuing(p))
  BY EntriesType, IssuingCount, LedgerAssumption, FS_CardinalityType
<1>4. /\ Issuing(p)' \subseteq Issuing(p) => d \in Nat /\ d <= c
      /\ Issuing(p)' \subseteq Issuing(p) /\ Issuing(p)' # Issuing(p) => d + 1 <= c
      /\ d \in Nat /\ d <= N
  <2>1. Issuing(p)' \subseteq Issuing(p) => d \in Nat /\ d <= c
    BY <1>3, FewerRequests
  <2>2. ASSUME Issuing(p)' \subseteq Issuing(p), Issuing(p)' # Issuing(p)
        PROVE  d + 1 <= c
    <3>1. PICK r \in Issuing(p) : r \notin Issuing(p)'
      BY <2>2
    <3> QED
      BY <1>3, <2>2, <3>1, FewerRequests
  <2>3. Issuing(p)' \subseteq Requests
    BY DEF Issuing
  <2>4. d \in Nat /\ d <= N
    BY <2>3, LedgerAssumption, FewerRequests
  <2> QED
    BY <2>1, <2>2, <2>4
<1>5. PaymentCount(p)' <=> m + d <= N /\ (payment'[p] = "cleared" <=> m >= 1)
  BY DEF PaymentCount
<1> HIDE DEF n, m, c, d, N
<1>6. CASE /\ m = n /\ Issuing(p)' \subseteq Issuing(p)
           /\ payment'[p] = payment[p] \/ (payment[p] = "none" /\ payment'[p] = "uncleared")
  BY <1>2, <1>3, <1>4, <1>5, <1>6
<1>7. CASE m = n /\ payment[p] = "uncleared" /\ payment'[p] = "uncleared"
  BY <1>2, <1>3, <1>4, <1>5, <1>7
<1>8. CASE /\ m = n + 1 /\ Issuing(p)' \subseteq Issuing(p) /\ Issuing(p)' # Issuing(p)
           /\ payment'[p] = "cleared"
  BY <1>2, <1>3, <1>4, <1>5, <1>8
<1> QED
  BY <1>1, <1>6, <1>7, <1>8 DEF PaymentMoves, n, m

LEMMA PayTypesStep ==
    ASSUME IInv, PayInv, Next
    PROVE  AllocationTyped' /\ unseen' \subseteq Bills
<1>1. AllocationTyped /\ unseen \subseteq Bills
  BY DEF PayInv
<1>2. CASE UNCHANGED <<allocation, unseen>>
  BY <1>1, <1>2 DEF AllocationTyped
<1>3. ASSUME NEW r \in Requests, CommitAllocateBill(r)
      PROVE  AllocationTyped' /\ unseen' \subseteq Bills
  <2>1. request[r].op = "allocate bill"
    BY <1>3 DEF CommitAllocateBill, At
  <2>2. request[r].doc[1] \in Bills
    BY <2>1 DEF IInv, BillSound
  <2>3. request[r].doc[2] \in SupplierPayments /\ request[r].doc[3] \in Nat
    BY <2>1 DEF PayInv, AllocationSound, AllocatingTo
  <2>4. allocation' = [allocation EXCEPT ![request[r].doc[2]][request[r].doc[1]] = request[r].doc[3]]
    BY <1>3 DEF CommitAllocateBill
  <2>5. AllocationTyped'
    BY <1>1, <2>2, <2>3, <2>4 DEF AllocationTyped
  <2>6. unseen' \subseteq Bills
    BY <1>1, <1>3, <2>2 DEF CommitAllocateBill
  <2> QED
    BY <2>5, <2>6
<1>4. PayablesStay => UNCHANGED <<allocation, unseen>>
  BY DEF PayablesStay
<1>5. PayablesChange => UNCHANGED <<allocation, unseen>> \/ \E r \in Requests : CommitAllocateBill(r)
  BY DEF PayablesChange, CreateBill, CreateSupplierPayment, BillsOverdue, IssueBill, AllocateBill,
         ReconcileSupplierPayment, CommitBill, CommitVoidBill, CommitReconcile, payables
<1> QED
  BY <1>2, <1>3, <1>4, <1>5, PayablesCases

LEMMA InitCounts ==
    ASSUME Init
    PROVE  \A d : Entries(d) = 0 /\ Issuing(d) = {}
<1> TAKE d
<1>1. journal = << >> /\ \A q \in Requests : request[q] = Idle
  BY DEF Init, LedgerInit
<1>2. {i \in DOMAIN journal : journal[i].source = d} = {}
  BY <1>1
<1>3. Cardinality({}) = 0
  BY FS_EmptySet
<1>4. Issuing(d) = {}
  <2>1. \A q \in Requests : request[q].op = "none"
    BY <1>1 DEF Idle
  <2>2. OpFor(d) # "none"
    BY DEF OpFor
  <2> QED
    BY <2>1, <2>2 DEF Issuing
<1> QED
  BY <1>2, <1>3, <1>4 DEF Entries

LEMMA InitPayInv ==
    ASSUME Init
    PROVE  PayInv
<1> USE DEF Init, LedgerInit, PayablesInit
<1>1. AllocationTyped /\ unseen \subseteq Bills
  BY DEF AllocationTyped
<1>2. Cardinality({}) = 0 /\ Cardinality(Requests) \in Nat
  BY LedgerAssumption, FS_EmptySet, FS_CardinalityType
<1>3. \A d : Entries(d) = 0 /\ Cardinality(Issuing(d)) = 0
  BY <1>2, InitCounts
<1>4. \A b \in Bills : sum_allocated(b) = 0
  <2> TAKE b \in Bills
  <2>1. \A p \in SupplierPayments : AllocatedTo(allocation, b)[p] = 0
    BY DEF AllocatedTo
  <2> QED
    BY <2>1, SumAllocatedIs, PayablesAssumption, SumZero
<1>5. \A b \in Bills : BillCount(b) /\ BillSum(b)
  BY <1>2, <1>3, <1>4, PayablesAssumption DEF BillCount, BillSum
<1>6. \A p \in SupplierPayments : PaymentCount(p)
  BY <1>2, <1>3 DEF PaymentCount
<1>7. \A q \in Requests : AllocationSound(q)
  BY DEF AllocationSound, Idle
<1> QED
  BY <1>1, <1>5, <1>6, <1>7 DEF PayInv

LEMMA StepPayInv ==
    ASSUME IInv, EntriesInv, PayInv, [Next]_vars
    PROVE  PayInv'
<1>1. CASE Next
  BY <1>1, BillCountStep, BillSumStep, PaymentCountStep, AllocationSoundStep, PayTypesStep DEF PayInv
<1>2. CASE UNCHANGED vars
  BY <1>2 DEF vars, ledger, payables, PayInv, AllocationTyped, BillCount, BillSum, PaymentCount,
              AllocationSound, AllocatingTo, Entries, Issuing, OpFor, sum_allocated
<1> QED
  BY <1>1, <1>2

-----------------------------------------------------------------------------
(* Books: invoices, what is allocated to them, and customers' payments *)

\* A request that issues, allocates or sweeps has been doing so before.
InvoiceKept(q) ==
    /\ request'[q].op = "issue invoice" =>
          request[q].op = "issue invoice" /\ request'[q].doc = request[q].doc
    /\ request'[q].op \in {"allocate", "sweep"} =>
          /\ request'[q].op = request[q].op /\ request'[q].doc = request[q].doc
          /\ request'[q].view = request[q].view
          /\ request'[q].pc = "applied" =>
                request[q].pc = "applied" /\ request'[q].entry = request[q].entry

InvoicesKept == \A q \in Requests : InvoiceKept(q)

SameReceivables ==
    UNCHANGED <<invoice, received, applied, lost, unseenPayment, unseenInvoice, swept>>

\* Nothing of the receivables changes.
ReceivablesStay ==
    /\ SameReceivables /\ InvoicesKept
    /\ UNCHANGED journal \/ \E r \in Requests : Booked(r) /\ request[r].op # "issue invoice"

\* The steps that something of the receivables changes by.
ReceivablesChange ==
    \/ \E i \in Invoices : CreateInvoice(i)
    \/ \E p \in CustomerPayments : CreateCustomerPayment(p)
    \/ \E r \in Requests :
          \/ \E i \in Invoices :
                \/ IssueInvoice(r, i)
                \/ \E p \in CustomerPayments : \E amount \in 1 .. Amount[p] : Allocate(r, p, i, amount)
          \/ Sweep(r) \/ CommitSweep(r) \/ CommitInvoice(r) \/ CommitVoidInvoice(r)
          \/ Apply(r) \/ CommitAllocation(r)

\* Who answers, or enters with another operation, leaves the others alone.
LEMMA InvoicesKeptBy ==
    ASSUME IInv, NEW r \in Requests, request' = [request EXCEPT ![r] = request'[r]],
           request'[r].op \notin {"issue invoice", "allocate", "sweep"}
    PROVE  InvoicesKept
BY DEF IInv, Shape, InvoicesKept, InvoiceKept

LEMMA InvoicesKeptByAnswer ==
    ASSUME IInv, NEW r \in Requests, Respond(r)
    PROVE  InvoicesKept
<1>1. request' = [request EXCEPT ![r] = request'[r]] /\ request'[r].op = "none"
  BY DEF Respond, Idle, IInv, Shape
<1> QED
  BY <1>1, InvoicesKeptBy

LEMMA ReceivablesCases ==
    ASSUME IInv, Next
    PROVE  ReceivablesStay \/ ReceivablesChange
<1>0. DOMAIN request = Requests /\ \A r \in Requests : DOMAIN request[r] = Fields
  BY DEF IInv, Shape
<1>1. UNCHANGED request => InvoicesKept
  BY DEF InvoicesKept, InvoiceKept
<1>2. UNCHANGED receivables => SameReceivables
  BY DEF receivables, SameReceivables
<1>3. CASE \/ CreatePayable /\ UNCHANGED <<receivables, inUse>>
           \/ BillsOverdue /\ UNCHANGED <<receivables, inUse>>
           \/ CreateReceivable /\ UNCHANGED <<payables, inUse>>
  BY <1>1, <1>2, <1>3 DEF CreatePayable, CreateReceivable, CreateDebitNote, CreateBill, CreateSupplierPayment,
                    BillsOverdue, ReceivablesStay, ReceivablesChange, ledger
<1>4. ASSUME NEW r \in Requests, PayablesStep(r), UNCHANGED receivables
      PROVE  ReceivablesStay
  <2> USE <1>2, <1>4 DEF ReceivablesStay, ledger
  <2>1. ASSUME NEW b \in Bills, IssueBill(r, b)
        PROVE  ReceivablesStay
    BY <1>0, <2>1, InvoicesKeptBy DEF Enter, IssueBill
  <2>2. ASSUME NEW b \in Bills, VoidBill(r, b)
        PROVE  ReceivablesStay
    BY <1>0, <2>2, InvoicesKeptBy DEF Enter, VoidBill
  <2>3. ASSUME NEW b \in Bills, NEW p, NEW amount, AllocateBill(r, p, b, amount)
        PROVE  ReceivablesStay
    BY <1>0, <2>3, InvoicesKeptBy DEF Enter, AllocateBill
  <2>4. ASSUME NEW p, ReconcileSupplierPayment(r, p)
        PROVE  ReceivablesStay
    BY <1>0, <2>4, InvoicesKeptBy DEF Enter, ReconcileSupplierPayment
  <2>5. CASE CommitVoidBill(r) \/ CommitAllocateBill(r)
    BY <2>5, InvoicesKeptByAnswer DEF CommitVoidBill, CommitAllocateBill
  <2>6. CASE CommitBill(r) \/ CommitReconcile(r)
    <3>1. Booked(r) /\ Respond(r) /\ request[r].op # "issue invoice"
      BY <2>6 DEF CommitBill, CommitReconcile, At, Posted, Respond, Booked
    <3> QED
      BY <3>1, InvoicesKeptByAnswer
  <2> QED
    BY <1>4, <2>1, <2>2, <2>3, <2>4, <2>5, <2>6 DEF PayablesStep
<1>5. ASSUME NEW r \in Requests, ReceivablesStep(r)
      PROVE  ReceivablesStay \/ ReceivablesChange
  <2>1. ASSUME NEW i \in Invoices, VoidInvoice(r, i)
        PROVE  ReceivablesStay
    <3>1. InvoicesKept
      BY <1>0, <2>1, InvoicesKeptBy DEF Enter, VoidInvoice
    <3> QED
      BY <1>2, <2>1, <3>1 DEF VoidInvoice, ReceivablesStay, ledger
  <2>2. CASE FlushInvoice(r)
    <3>1. InvoicesKept
      BY <1>0, <2>2 DEF FlushInvoice, Emit, At, InvoicesKept, InvoiceKept
    <3> QED
      BY <1>2, <2>2, <3>1 DEF FlushInvoice, ReceivablesStay, ledger
  <2> QED
    BY <1>5, <2>1, <2>2 DEF ReceivablesStep, ReceivablesChange
<1>6. ASSUME NEW r \in Requests, LedgerStep(r), UNCHANGED receivables
      PROVE  ReceivablesStay
  <2> USE <1>2, <1>6 DEF ReceivablesStay, ledger
  <2>1. ASSUME NEW v, NEW p, NEW ls, CreateJournal(r, v, p, ls)
        PROVE  ReceivablesStay
    BY <1>0, <2>1, InvoicesKeptBy DEF Enter, CreateJournal
  <2>2. ASSUME NEW i, ReverseJournal(r, i)
        PROVE  ReceivablesStay
    BY <1>0, <2>2, InvoicesKeptBy DEF Enter, ReverseJournal
  <2>3. CASE CommitJournal(r)
    BY <2>3, InvoicesKeptByAnswer DEF CommitJournal, At, Posted, Booked, Respond
  <2>4. CASE CommitReversal(r)
    BY <2>4, InvoicesKeptByAnswer DEF CommitReversal, At, Booked, Marked, Respond
  <2>5. CASE NextEntryNo(r)
    <3>1. InvoicesKept
      BY <1>0, <2>5 DEF NextEntryNo, InvoicesKept, InvoiceKept
    <3> QED
      BY <2>5, <3>1 DEF NextEntryNo
  <2>6. CASE Rollback(r)
    BY <2>6, InvoicesKeptByAnswer DEF Rollback
  <2> QED
    BY <1>6, <2>1, <2>2, <2>3, <2>4, <2>5, <2>6 DEF LedgerStep
<1>7. ASSUME NEW p, ClosePeriod(p) \/ ReopenPeriod(p), UNCHANGED receivables
      PROVE  ReceivablesStay
  BY <1>1, <1>2, <1>7 DEF ClosePeriod, ReopenPeriod, ReceivablesStay
<1> QED
  BY <1>3, <1>4, <1>5, <1>6, <1>7 DEF Next

AppliedTo(a, i) == [p \in CustomerPayments |-> a[p][i]]

AppliedTyped == applied \in [CustomerPayments -> [Invoices -> Nat]]

LEMMA SumAppliedIs ==
    ASSUME NEW i
    PROVE  /\ sum_applied(i) = SumFunctionOnSet(AppliedTo(applied, i), CustomerPayments)
           /\ sum_applied(i)' = SumFunctionOnSet(AppliedTo(applied', i), CustomerPayments)
<1>1. /\ DOMAIN AppliedTo(applied, i) = CustomerPayments
      /\ DOMAIN AppliedTo(applied', i) = CustomerPayments
  BY DEF AppliedTo
<1>2. /\ sum_applied(i) = SumFunction(AppliedTo(applied, i))
      /\ sum_applied(i)' = SumFunction(AppliedTo(applied', i))
  BY DEF sum_applied, AppliedTo
<1> HIDE DEF AppliedTo
<1> QED
  BY <1>1, <1>2 DEF SumFunction

LEMMA SumAppliedNat ==
    ASSUME AppliedTyped
    PROVE  /\ \A i \in Invoices : sum_applied(i) \in Nat
           /\ \A p \in CustomerPayments : sum_allocated_for_payment(p) \in Nat
<1>1. ASSUME NEW i \in Invoices
      PROVE  sum_applied(i) \in Nat
  <2>1. \A p \in CustomerPayments : AppliedTo(applied, i)[p] \in Nat
    BY DEF AppliedTo, AppliedTyped
  <2> QED
    BY <2>1, SumAppliedIs, ReceivablesAssumption, SumNat
<1>2. ASSUME NEW p \in CustomerPayments
      PROVE  sum_allocated_for_payment(p) \in Nat
  <2>1. \A i \in Invoices : applied[p][i] \in Nat
    BY DEF AppliedTyped
  <2> QED
    BY <2>1, ReceivablesAssumption, SumNat DEF sum_allocated_for_payment
<1> QED
  BY <1>1, <1>2

\* How often an invoice has been issued, with an entry or without.
Issues(i) == Entries(i) + lost[i]

LostTyped == lost \in [Invoices -> Nat]

LEMMA IssuesType ==
    ASSUME IInv, LostTyped, NEW i \in Invoices
    PROVE  Issues(i) \in Nat /\ Entries(i) \in Nat /\ lost[i] \in Nat
BY EntriesType DEF Issues, LostTyped

\* An invoice is issued before anything else happens to it, and not more often than
\* requests can overlap.
InvoiceCount(i) ==
    /\ Issues(i) + Cardinality(Issuing(i)) <= Cardinality(Requests)
    /\ invoice[i] \in {"none", "draft"} => Issues(i) = 0
    /\ invoice[i] \in {"issued", "overdue", "paid"} \/ sum_applied(i) > 0 => Issues(i) >= 1

\* What is allocated to an invoice, and whether it is paid.
InvoiceSum(i) ==
    /\ invoice[i] = "paid" => sum_applied(i) > 0 /\ sum_applied(i) >= Total[i]
    /\ sum_applied(i) > 0 /\ sum_applied(i) >= Total[i] =>
          invoice[i] \in {"paid", "void"} \/ i \in unseenInvoice \cup swept \/ Issues(i) > 1

\* A request that allocates to invoice i has read what is allocated of the payment,
\* and would not go beyond its amount; what it has found decides what it writes.
ApplyingTo(i, row) ==
    /\ row.doc[2] \in CustomerPayments /\ row.doc[3] \in Nat \ {0} /\ row.view \in Nat
    /\ row.view + row.doc[3] <= Amount[row.doc[2]]
    /\ row.pc = "applied" =>
          row.entry.sum \in Nat /\ row.entry.paid = (row.entry.sum + row.doc[3] >= Total[i])

CoveredBy(i, sum) == sum > 0 /\ sum >= Total[i]

ApplicationSound(q) ==
    request[q].op = "allocate" =>
        LET i == request[q].doc[1] IN
        /\ ApplyingTo(i, request[q]) /\ Issues(i) >= 1
        /\ request[q].doc[4] = "paid" => CoveredBy(i, sum_applied(i))
        /\ request[q].pc = "applied" => request[q].entry.sum <= sum_applied(i)

SweepSound(q) == request[q].op = "sweep" => \A i \in request[q].view : Issues(i) >= 1

CustomerPaymentSum(p) == p \notin unseenPayment => sum_allocated_for_payment(p) <= Amount[p]

ReceivablesTyped ==
    /\ received \in [CustomerPayments -> PaymentStatus]
    /\ unseenPayment \subseteq CustomerPayments /\ unseenInvoice \subseteq Invoices /\ swept \subseteq Invoices

RecInv ==
    /\ AppliedTyped /\ LostTyped /\ ReceivablesTyped
    /\ \A i \in Invoices : InvoiceCount(i) /\ InvoiceSum(i)
    /\ \A p \in CustomerPayments : CustomerPaymentSum(p)
    /\ \A q \in Requests : ApplicationSound(q) /\ SweepSound(q)

SameApplied(i) ==
    /\ \A p \in CustomerPayments : applied'[p][i] = applied[p][i]
    /\ i \in unseenInvoice' <=> i \in unseenInvoice

SameIssues(i) ==
    Entries(i)' = Entries(i) /\ lost'[i] = lost[i] /\ Issuing(i)' \subseteq Issuing(i)

\* How a step looks for one invoice.
InvoiceMoves(i) ==
    \/ /\ SameApplied(i) /\ SameIssues(i) /\ (i \in swept' <=> i \in swept)
       /\ \/ invoice'[i] = invoice[i] \/ invoice'[i] = "void"
          \/ invoice[i] = "none" /\ invoice'[i] = "draft"
    \/ /\ SameApplied(i) /\ Entries(i)' = Entries(i) /\ lost'[i] = lost[i] /\ (i \in swept' <=> i \in swept)
       /\ invoice[i] = "draft" /\ invoice'[i] = "draft"
    \/ /\ SameApplied(i) /\ (i \in swept' <=> i \in swept)
       /\ Issues(i)' = Issues(i) + 1 /\ Issuing(i)' \subseteq Issuing(i) /\ Issuing(i)' # Issuing(i)
       /\ invoice'[i] = "issued"
    \/ /\ SameApplied(i) /\ SameIssues(i)
       /\ i \in swept' <=> i \in swept \/ invoice[i] # "issued"
       /\ invoice'[i] = "overdue" /\ \E r \in Requests : CommitSweep(r) /\ i \in request[r].view
    \/ /\ SameIssues(i) /\ (i \in swept' <=> i \in swept)
       /\ \E r \in Requests : request[r].doc[1] = i /\ CommitAllocation(r)

LEMMA SumSameApplied ==
    ASSUME NEW i, SameApplied(i)
    PROVE  sum_applied(i)' = sum_applied(i)
<1>1. AppliedTo(applied', i) = AppliedTo(applied, i)
  BY DEF AppliedTo, SameApplied
<1> QED
  BY <1>1, SumAppliedIs

LEMMA InvoiceOp ==
    ASSUME NEW i \in Invoices
    PROVE  OpFor(i) = "issue invoice" /\ i \in Sources
BY ReceivablesAssumption DEF OpFor, Sources

LEMMA IssuesStay ==
    ASSUME IInv, EntriesInv, ReceivablesStay, NEW i \in Invoices
    PROVE  SameIssues(i)
<1>1. OpFor(i) = "issue invoice" /\ i \in Sources
  BY InvoiceOp
<1>2. Issuing(i)' = {q \in Requests : request'[q].op = OpFor(i) /\ request'[q].doc[1] = i}
  BY DEF Issuing, OpFor
<1>3. Issuing(i)' \subseteq Issuing(i)
  BY <1>1, <1>2 DEF ReceivablesStay, InvoicesKept, InvoiceKept, Issuing
<1>4. \A r \in Requests : request[r].op # "issue invoice" => r \notin Issuing(i)
  BY <1>1 DEF Issuing
<1>5. Entries(i)' = Entries(i)
  BY <1>1, <1>4, OtherCount DEF ReceivablesStay
<1> QED
  BY <1>3, <1>5 DEF ReceivablesStay, SameReceivables, SameIssues

LEMMA AnsweredIssue ==
    ASSUME IInv, NEW r \in Requests, Respond(r), NEW i \in Invoices
    PROVE  Issuing(i)' \subseteq Issuing(i) /\ r \notin Issuing(i)'
<1>1. OpFor(i) = "issue invoice"
  BY InvoiceOp
<1>2. InvoicesKept
  BY InvoicesKeptByAnswer
<1>3. request'[r].op = "none"
  BY DEF Respond, Idle, IInv, Shape
<1>4. Issuing(i)' = {q \in Requests : request'[q].op = OpFor(i) /\ request'[q].doc[1] = i}
  BY DEF Issuing, OpFor
<1> QED
  BY <1>1, <1>2, <1>3, <1>4 DEF InvoicesKept, InvoiceKept, Issuing

LEMMA InvoiceMovesHolds ==
    ASSUME IInv, EntriesInv, AppliedTyped, LostTyped, Next, NEW i \in Invoices
    PROVE  InvoiceMoves(i)
<1>0. /\ DOMAIN request = Requests /\ \A r \in Requests : DOMAIN request[r] = Fields
      /\ invoice \in [Invoices -> InvoiceStatus] /\ lost \in [Invoices -> Nat]
      /\ OpFor(i) = "issue invoice" /\ i \in Sources
  BY InvoiceOp DEF IInv, Shape, LostTyped
<1>1. CASE ReceivablesStay
  <2>1. SameIssues(i)
    BY <1>1, IssuesStay
  <2> QED
    BY <1>1, <2>1 DEF ReceivablesStay, SameReceivables, InvoiceMoves, SameApplied
<1>2. ASSUME UNCHANGED <<journal, request, lost>>
      PROVE  SameIssues(i)
  BY <1>2, SameCount DEF Issuing, OpFor, SameIssues
<1>3. ASSUME NEW k \in Invoices, CreateInvoice(k)
      PROVE  InvoiceMoves(i)
  <2>1. SameIssues(i)
    BY <1>2, <1>3 DEF CreateInvoice, ledger
  <2> QED
    BY <1>0, <1>3, <2>1 DEF CreateInvoice, InvoiceMoves, SameApplied
<1>4. ASSUME NEW p, CreateCustomerPayment(p)
      PROVE  InvoiceMoves(i)
  <2>1. SameIssues(i)
    BY <1>2, <1>4 DEF CreateCustomerPayment, ledger
  <2> QED
    BY <1>4, <2>1 DEF CreateCustomerPayment, InvoiceMoves, SameApplied
<1>5. ASSUME UNCHANGED <<journal, lost, applied, unseenInvoice, swept, invoice>>,
             SameIssues(i) \/ invoice[i] = "draft"
      PROVE  InvoiceMoves(i)
  BY <1>5, SameCount DEF InvoiceMoves, SameApplied
<1>6. ASSUME NEW r \in Requests, NEW k \in Invoices, IssueInvoice(r, k)
      PROVE  InvoiceMoves(i)
  <2>1. UNCHANGED <<journal, lost, applied, unseenInvoice, swept, invoice>> /\ invoice[k] = "draft"
    BY <1>6 DEF IssueInvoice, ledger, receivables
  <2>2. CASE i = k
    BY <1>5, <2>1, <2>2
  <2>3. CASE i # k
    <3>1. \A q \in Requests : request'[q].op = "issue invoice" /\ request'[q].doc[1] = i
                                  => request[q].op = "issue invoice" /\ request[q].doc[1] = i
      BY <1>0, <1>6, <2>3 DEF IssueInvoice, Enter
    <3>2. Issuing(i)' \subseteq Issuing(i)
      BY <1>0, <3>1 DEF Issuing, OpFor
    <3>3. SameIssues(i)
      BY <2>1, <3>2, SameCount DEF SameIssues
    <3> QED
      BY <1>5, <2>1, <3>3
  <2> QED
    BY <2>2, <2>3
<1>7. ASSUME NEW r \in Requests, request' = [request EXCEPT ![r] = request'[r]],
             request'[r].op \in {"allocate", "sweep"},
             UNCHANGED <<journal, lost, applied, unseenInvoice, swept, invoice>>
      PROVE  InvoiceMoves(i)
  <2>1. Issuing(i)' \subseteq Issuing(i)
    BY <1>0, <1>7 DEF Issuing, OpFor
  <2>2. SameIssues(i)
    BY <1>7, <2>1, SameCount DEF SameIssues
  <2> QED
    BY <1>5, <1>7, <2>2
<1>8. ASSUME NEW r \in Requests, (\E k, p, amount : Allocate(r, p, k, amount)) \/ Sweep(r) \/ Apply(r)
      PROVE  InvoiceMoves(i)
  <2>1. UNCHANGED <<journal, lost, applied, unseenInvoice, swept, invoice>>
    BY <1>8 DEF Allocate, Sweep, Apply, ledger, receivables
  <2>2. ASSUME NEW k, NEW p, NEW amount, Allocate(r, p, k, amount)
        PROVE  request' = [request EXCEPT ![r] = request'[r]] /\ request'[r].op \in {"allocate", "sweep"}
    BY <1>0, <2>2 DEF Allocate, Enter
  <2>3. ASSUME Sweep(r)
        PROVE  request' = [request EXCEPT ![r] = request'[r]] /\ request'[r].op \in {"allocate", "sweep"}
    BY <1>0, <2>3 DEF Sweep, Enter
  <2>4. ASSUME Apply(r)
        PROVE  request' = [request EXCEPT ![r] = request'[r]] /\ request'[r].op \in {"allocate", "sweep"}
    BY <1>0, <2>4 DEF Apply, At
  <2> QED
    BY <1>7, <1>8, <2>1, <2>2, <2>3, <2>4
<1>9. ASSUME NEW r \in Requests, CommitInvoice(r)
      PROVE  InvoiceMoves(i)
  <2> DEFINE k == request[r].doc[1]
  <2>1. /\ request[r].op = "issue invoice" /\ Respond(r)
        /\ UNCHANGED <<applied, unseenInvoice, swept>>
        /\ invoice' = [invoice EXCEPT ![k] = "issued"]
    BY <1>9 DEF CommitInvoice
  <2>2. Issuing(i)' \subseteq Issuing(i) /\ r \notin Issuing(i)'
    BY <2>1, AnsweredIssue
  <2>3. \/ Booked(r) /\ lost' = lost
        \/ UNCHANGED journal /\ lost' = [lost EXCEPT ![k] = @ + 1]
    BY <1>9 DEF CommitInvoice, Posted, Respond, Booked
  <2>4. Entries(i) \in Nat /\ lost[i] \in Nat
    BY IssuesType
  <2>5. r \in Issuing(i) <=> k = i
    BY <1>0, <2>1 DEF Issuing
  <2>6. Issues(i)' = Entries(i)' + lost'[i]
    BY DEF Issues
  <2> HIDE DEF k
  <2>7. CASE k = i
    <3>1. CASE Booked(r) /\ lost' = lost
      <4>1. Share(r \in Issuing(i), 1) = 1
        BY <2>5, <2>7 DEF Share
      <4>2. Entries(i)' = Entries(i) + 1
        BY <1>0, <3>1, <4>1, BookedCount
      <4>3. Issues(i)' = Issues(i) + 1
        BY <2>4, <2>6, <3>1, <4>2 DEF Issues
      <4> QED
        BY <1>0, <2>1, <2>2, <2>5, <2>7, <4>3 DEF InvoiceMoves, SameApplied
    <3>2. CASE UNCHANGED journal /\ lost' = [lost EXCEPT ![k] = @ + 1]
      <4>1. Entries(i)' = Entries(i) /\ lost'[i] = lost[i] + 1
        BY <1>0, <2>7, <3>2, SameCount
      <4>2. Issues(i)' = Issues(i) + 1
        BY <2>4, <2>6, <4>1 DEF Issues
      <4> QED
        BY <1>0, <2>1, <2>2, <2>5, <2>7, <4>2 DEF InvoiceMoves, SameApplied
    <3> QED
      BY <2>3, <3>1, <3>2
  <2>8. CASE k # i
    <3>1. r \notin Issuing(i)
      BY <2>5, <2>8
    <3>2. Entries(i)' = Entries(i) /\ lost'[i] = lost[i]
      BY <1>0, <2>3, <2>8, <3>1, OtherCount
    <3>3. SameIssues(i)
      BY <2>2, <3>2 DEF SameIssues
    <3> QED
      BY <1>0, <2>1, <2>8, <3>3 DEF InvoiceMoves, SameApplied
  <2> QED
    BY <2>7, <2>8
<1>10. ASSUME NEW r \in Requests, Respond(r), UNCHANGED <<journal, lost>>
       PROVE  SameIssues(i)
  BY <1>10, AnsweredIssue, SameCount DEF SameIssues
<1>11. ASSUME NEW r \in Requests, CommitVoidInvoice(r)
       PROVE  InvoiceMoves(i)
  <2>1. SameIssues(i)
    BY <1>10, <1>11 DEF CommitVoidInvoice, ledger
  <2> QED
    BY <1>0, <1>11, <2>1 DEF CommitVoidInvoice, InvoiceMoves, SameApplied
<1>12. ASSUME NEW r \in Requests, CommitSweep(r)
       PROVE  InvoiceMoves(i)
  <2>1. SameIssues(i)
    BY <1>10, <1>12 DEF CommitSweep, ledger
  <2>2. CASE i \in request[r].view
    BY <1>0, <1>12, <2>1, <2>2 DEF CommitSweep, InvoiceMoves, SameApplied
  <2>3. CASE i \notin request[r].view
    BY <1>0, <1>12, <2>1, <2>3 DEF CommitSweep, InvoiceMoves, SameApplied
  <2> QED
    BY <2>2, <2>3
<1>13. ASSUME NEW r \in Requests, CommitAllocation(r)
       PROVE  InvoiceMoves(i)
  <2>1. SameIssues(i)
    BY <1>10, <1>13 DEF CommitAllocation, ledger
  <2>2. UNCHANGED swept
    BY <1>13 DEF CommitAllocation
  <2>3. CASE request[r].doc[1] = i
    BY <1>13, <2>1, <2>2, <2>3 DEF InvoiceMoves
  <2>4. CASE request[r].doc[1] # i
    <3>1. invoice'[i] = invoice[i] /\ (i \in unseenInvoice' <=> i \in unseenInvoice)
      BY <1>0, <1>13, <2>4 DEF CommitAllocation
    <3>2. \A p \in CustomerPayments : applied'[p][i] = applied[p][i]
      <4> DEFINE t == request[r].doc[2]
                 c == request[r].doc[1]
      <4>1. applied' = [applied EXCEPT ![t][c] = request[r].doc[3]] /\ i # c
        BY <1>13, <2>4 DEF CommitAllocation
      <4> HIDE DEF t, c
      <4> QED
        BY <4>1 DEF AppliedTyped
    <3> QED
      BY <2>1, <2>2, <3>1, <3>2 DEF InvoiceMoves, SameApplied
  <2> QED
    BY <2>3, <2>4
<1>14. CASE ReceivablesChange
  BY <1>3, <1>4, <1>6, <1>8, <1>9, <1>11, <1>12, <1>13, <1>14 DEF ReceivablesChange
<1> QED
  BY <1>1, <1>14, ReceivablesCases

\* The row of an allocation raises what is applied to its invoice, and what is
\* allocated of its payment, by the amount.
LEMMA AppliedMore ==
    ASSUME IInv, RecInv, NEW r \in Requests, CommitAllocation(r)
    PROVE  /\ \A i \in Invoices : request[r].doc[1] = i => sum_applied(i)' = sum_applied(i) + request[r].doc[3]
           /\ \A p \in CustomerPayments :
                 sum_allocated_for_payment(p)' =
                    IF request[r].doc[2] = p THEN sum_allocated_for_payment(p) + request[r].doc[3]
                    ELSE sum_allocated_for_payment(p)
<1> DEFINE t == request[r].doc[2]
           c == request[r].doc[1]
           v == request[r].doc[3]
<1>1. /\ request[r].op = "allocate" /\ applied[t][c] = 0
      /\ applied' = [applied EXCEPT ![t][c] = v]
  BY DEF CommitAllocation, At
<1>2. c \in Invoices
  BY <1>1 DEF IInv, InvoiceSound
<1>3. t \in CustomerPayments /\ v \in Nat
  BY <1>1 DEF RecInv, ApplicationSound, ApplyingTo
<1>4. applied \in [CustomerPayments -> [Invoices -> Nat]]
  BY DEF RecInv, AppliedTyped
<1>5. IsFiniteSet(Invoices) /\ IsFiniteSet(CustomerPayments)
  BY ReceivablesAssumption
<1> HIDE DEF t, c, v
<1>6. ASSUME NEW i \in Invoices, i = c
      PROVE  sum_applied(i)' = sum_applied(i) + v
  <2> DEFINE f == AppliedTo(applied, i)
             h == AppliedTo(applied', i)
  <2>1. /\ \A x \in CustomerPayments : f[x] \in Nat
        /\ f[t] = 0 /\ h[t] = v /\ \A x \in CustomerPayments \ {t} : h[x] = f[x]
    BY <1>1, <1>3, <1>4, <1>6 DEF AppliedTo
  <2> HIDE DEF f, h
  <2>2. SumFunctionOnSet(h, CustomerPayments) = SumFunctionOnSet(f, CustomerPayments) + v
    BY <1>3, <1>5, <2>1, SumRaised
  <2>3. sum_applied(i) = SumFunctionOnSet(f, CustomerPayments) /\ sum_applied(i)' = SumFunctionOnSet(h, CustomerPayments)
    BY SumAppliedIs DEF f, h
  <2> QED
    BY <2>2, <2>3
<1>7. ASSUME NEW p \in CustomerPayments
      PROVE  sum_allocated_for_payment(p)' = IF t = p THEN sum_allocated_for_payment(p) + v
                                             ELSE sum_allocated_for_payment(p)
  <2>1. /\ sum_allocated_for_payment(p) = SumFunctionOnSet(applied[p], Invoices)
        /\ sum_allocated_for_payment(p)' = SumFunctionOnSet(applied'[p], Invoices)
    BY DEF sum_allocated_for_payment
  <2>2. CASE t = p
    <3>1. PICK g : g = applied[p]
      OBVIOUS
    <3>2. PICK k : k = applied'[p]
      OBVIOUS
    <3>3. /\ \A x \in Invoices : g[x] \in Nat
          /\ g[c] = 0 /\ k[c] = v /\ \A x \in Invoices \ {c} : k[x] = g[x]
      BY <1>1, <1>2, <1>4, <2>2, <3>1, <3>2
    <3>4. SumFunctionOnSet(k, Invoices) = SumFunctionOnSet(g, Invoices) + v
      BY <1>2, <1>3, <1>5, <3>3, SumRaised
    <3> QED
      BY <2>1, <2>2, <3>1, <3>2, <3>4
  <2>3. CASE t # p
    <3>1. applied'[p] = applied[p]
      BY <1>1, <1>4, <2>3
    <3> QED
      BY <2>1, <2>3, <3>1
  <2> QED
    BY <2>2, <2>3
<1> QED
  BY <1>6, <1>7 DEF t, c, v

\* An allocation raises the sum of its invoice, and tells whether it has missed another.
LEMMA ApplicationIs ==
    ASSUME IInv, RecInv, NEW i \in Invoices, NEW r \in Requests, CommitAllocation(r), request[r].doc[1] = i
    PROVE  \E v \in Nat \ {0}, seen \in Nat :
              /\ sum_applied(i)' = sum_applied(i) + v /\ seen <= sum_applied(i) /\ Issues(i) >= 1
              /\ \/ seen + v >= Total[i] /\ invoice'[i] = "paid"
                 \/ seen + v >= Total[i] /\ invoice'[i] = invoice[i] /\ CoveredBy(i, sum_applied(i))
                 \/ ~(seen + v >= Total[i]) /\ invoice'[i] = invoice[i]
              /\ i \in unseenInvoice' <=> i \in unseenInvoice \/ seen # sum_applied(i)
<1>1. request[r].op = "allocate" /\ request[r].pc = "applied"
  BY DEF CommitAllocation, At
<1>2. ApplicationSound(r)
  BY DEF RecInv
<1>3. PICK v : v = request[r].doc[3]
  OBVIOUS
<1>4. PICK seen : seen = request[r].entry.sum
  OBVIOUS
<1>5. /\ v \in Nat \ {0} /\ seen \in Nat /\ seen <= sum_applied(i) /\ Issues(i) >= 1
      /\ request[r].doc[4] = "paid" => CoveredBy(i, sum_applied(i))
  BY <1>1, <1>2, <1>3, <1>4 DEF ApplicationSound, ApplyingTo
<1>6. request[r].entry.paid = (seen + v >= Total[i])
  BY <1>1, <1>2, <1>3, <1>4 DEF ApplicationSound, ApplyingTo
<1>7. sum_applied(i)' = sum_applied(i) + v
  BY <1>3, AppliedMore
<1>8. i \in unseenInvoice' <=> i \in unseenInvoice \/ seen # sum_applied(i)
  BY <1>4 DEF CommitAllocation
<1>9. invoice' = IF (seen + v >= Total[i]) /\ request[r].doc[4] # "paid"
                 THEN [invoice EXCEPT ![i] = "paid"] ELSE invoice
  <2>1. invoice' = IF request[r].entry.paid /\ request[r].doc[4] # "paid"
                   THEN [invoice EXCEPT ![i] = "paid"] ELSE invoice
    BY DEF CommitAllocation
  <2> QED
    BY <1>6, <2>1, Zenon
<1>10. invoice \in [Invoices -> InvoiceStatus]
  BY DEF IInv, Shape
<1>11. \/ seen + v >= Total[i] /\ invoice'[i] = "paid"
       \/ seen + v >= Total[i] /\ invoice'[i] = invoice[i] /\ CoveredBy(i, sum_applied(i))
       \/ ~(seen + v >= Total[i]) /\ invoice'[i] = invoice[i]
  BY <1>5, <1>9, <1>10
<1> QED
  BY <1>5, <1>7, <1>8, <1>11

LEMMA InvoiceCountStep ==
    ASSUME IInv, EntriesInv, RecInv, Next, NEW i \in Invoices
    PROVE  InvoiceCount(i)'
<1> DEFINE n == Issues(i)
           m == Issues(i)'
           c == Cardinality(Issuing(i))
           d == Cardinality(Issuing(i)')
           N == Cardinality(Requests)
           s == sum_applied(i)
           t == sum_applied(i)'
<1>1. InvoiceMoves(i)
  BY InvoiceMovesHolds DEF RecInv
<1>2. /\ n + c <= N /\ (invoice[i] \in {"none", "draft"} => n = 0)
      /\ invoice[i] \in {"issued", "overdue", "paid"} \/ s > 0 => n >= 1
  BY DEF RecInv, InvoiceCount
<1>3. n \in Nat /\ c \in Nat /\ N \in Nat /\ s \in Nat /\ IsFiniteSet(Issuing(i))
  BY IssuesType, IssuingCount, SumAppliedNat, LedgerAssumption, FS_CardinalityType DEF RecInv
<1>4. /\ Issuing(i)' \subseteq Issuing(i) => d \in Nat /\ d <= c
      /\ Issuing(i)' \subseteq Issuing(i) /\ Issuing(i)' # Issuing(i) => d + 1 <= c
      /\ d \in Nat /\ d <= N
  <2>1. Issuing(i)' \subseteq Issuing(i) => d \in Nat /\ d <= c
    BY <1>3, FewerRequests
  <2>2. ASSUME Issuing(i)' \subseteq Issuing(i), Issuing(i)' # Issuing(i)
        PROVE  d + 1 <= c
    <3>1. PICK r \in Issuing(i) : r \notin Issuing(i)'
      BY <2>2
    <3> QED
      BY <1>3, <2>2, <3>1, FewerRequests
  <2>3. Issuing(i)' \subseteq Requests
    BY DEF Issuing
  <2>4. d \in Nat /\ d <= N
    BY <2>3, LedgerAssumption, FewerRequests
  <2> QED
    BY <2>1, <2>2, <2>4
<1>5. InvoiceCount(i)' <=>
          /\ m + d <= N
          /\ invoice'[i] \in {"none", "draft"} => m = 0
          /\ invoice'[i] \in {"issued", "overdue", "paid"} \/ t > 0 => m >= 1
  BY DEF InvoiceCount
<1>6. SameApplied(i) => t = s
  BY SumSameApplied
<1>7. Entries(i)' = Entries(i) /\ lost'[i] = lost[i] => m = n
  BY DEF Issues
<1>8. SameIssues(i) => m = n /\ Issuing(i)' \subseteq Issuing(i)
  BY <1>7 DEF SameIssues
<1> HIDE DEF n, m, c, d, N, s, t
<1>9. CASE /\ SameApplied(i) /\ SameIssues(i)
           /\ \/ invoice'[i] = invoice[i] \/ invoice'[i] = "void"
              \/ invoice[i] = "none" /\ invoice'[i] = "draft"
  BY <1>2, <1>3, <1>4, <1>5, <1>6, <1>8, <1>9
<1>10. CASE /\ SameApplied(i) /\ Entries(i)' = Entries(i) /\ lost'[i] = lost[i]
            /\ invoice[i] = "draft" /\ invoice'[i] = "draft"
  BY <1>2, <1>3, <1>4, <1>5, <1>6, <1>7, <1>10
<1>11. CASE /\ SameApplied(i) /\ m = n + 1 /\ Issuing(i)' \subseteq Issuing(i)
            /\ Issuing(i)' # Issuing(i) /\ invoice'[i] = "issued"
  BY <1>2, <1>3, <1>4, <1>5, <1>6, <1>11
<1>12. ASSUME SameApplied(i), SameIssues(i), invoice'[i] = "overdue",
              NEW r \in Requests, CommitSweep(r), i \in request[r].view
       PROVE  InvoiceCount(i)'
  <2>1. request[r].op = "sweep"
    BY <1>12 DEF CommitSweep, At
  <2>2. n >= 1
    BY <1>12, <2>1 DEF RecInv, SweepSound, n
  <2> QED
    BY <1>2, <1>3, <1>4, <1>5, <1>6, <1>8, <1>12, <2>2
<1>13. ASSUME SameIssues(i), NEW r \in Requests, request[r].doc[1] = i, CommitAllocation(r)
       PROVE  InvoiceCount(i)'
  <2>1. n >= 1 /\ invoice'[i] \in {"paid", invoice[i]}
    BY <1>13, ApplicationIs DEF n
  <2> QED
    BY <1>2, <1>3, <1>4, <1>5, <1>8, <1>13, <2>1
<1> QED
  BY <1>1, <1>9, <1>10, <1>11, <1>12, <1>13 DEF InvoiceMoves, n, m

LEMMA InvoiceSumStep ==
    ASSUME IInv, EntriesInv, RecInv, Next, NEW i \in Invoices
    PROVE  InvoiceSum(i)'
<1> DEFINE n == Issues(i)
           m == Issues(i)'
           s == sum_applied(i)
           t == sum_applied(i)'
           overlooked == i \in unseenInvoice \union swept
           misses == i \in unseenInvoice' \union swept'
<1>1. InvoiceMoves(i)
  BY InvoiceMovesHolds DEF RecInv
<1>2. /\ invoice[i] = "paid" => s > 0 /\ s >= Total[i]
      /\ s > 0 /\ s >= Total[i] => invoice[i] \in {"paid", "void"} \/ overlooked \/ n > 1
  BY DEF RecInv, InvoiceSum
<1>3. s > 0 => n >= 1
  BY DEF RecInv, InvoiceCount
<1>4. n \in Nat /\ s \in Nat /\ Total[i] \in Nat
  BY IssuesType, SumAppliedNat, ReceivablesAssumption DEF RecInv
<1>5. InvoiceSum(i)' <=>
          /\ invoice'[i] = "paid" => t > 0 /\ t >= Total[i]
          /\ t > 0 /\ t >= Total[i] => invoice'[i] \in {"paid", "void"} \/ misses \/ m > 1
  BY DEF InvoiceSum
<1>6. SameApplied(i) => t = s /\ (i \in unseenInvoice' <=> i \in unseenInvoice)
  BY SumSameApplied DEF SameApplied
<1>7. SameIssues(i) => m = n
  BY DEF SameIssues, Issues
<1>8. Entries(i)' = Entries(i) /\ lost'[i] = lost[i] => m = n
  BY DEF Issues
<1>9. overlooked <=> i \in unseenInvoice \/ i \in swept
  OBVIOUS
<1>10. misses <=> i \in unseenInvoice' \/ i \in swept'
  OBVIOUS
<1> HIDE DEF n, m, s, t, overlooked, misses
<1>11. CASE /\ SameApplied(i) /\ SameIssues(i) /\ (i \in swept' <=> i \in swept)
            /\ \/ invoice'[i] = invoice[i] \/ invoice'[i] = "void"
               \/ invoice[i] = "none" /\ invoice'[i] = "draft"
  <2>1. n = 0 \/ invoice[i] # "none"
    BY DEF RecInv, InvoiceCount, n
  <2> QED
    BY <1>2, <1>3, <1>4, <1>5, <1>6, <1>7, <1>9, <1>10, <1>11, <2>1
<1>12. CASE /\ SameApplied(i) /\ Entries(i)' = Entries(i) /\ lost'[i] = lost[i] /\ (i \in swept' <=> i \in swept)
            /\ invoice[i] = "draft" /\ invoice'[i] = "draft"
  BY <1>2, <1>4, <1>5, <1>6, <1>8, <1>9, <1>10, <1>12
<1>13. CASE SameApplied(i) /\ m = n + 1 /\ invoice'[i] = "issued"
  BY <1>3, <1>4, <1>5, <1>6, <1>13
<1>14. CASE /\ SameApplied(i) /\ SameIssues(i) /\ (i \in swept' <=> i \in swept \/ invoice[i] # "issued")
            /\ invoice'[i] = "overdue"
  BY <1>2, <1>4, <1>5, <1>6, <1>7, <1>9, <1>10, <1>14
<1>15. ASSUME SameIssues(i), i \in swept' <=> i \in swept,
              NEW r \in Requests, request[r].doc[1] = i, CommitAllocation(r)
       PROVE  InvoiceSum(i)'
  <2>1. PICK v \in Nat \ {0}, seen \in Nat :
              /\ t = s + v /\ seen <= s
              /\ \/ seen + v >= Total[i] /\ invoice'[i] = "paid"
                 \/ seen + v >= Total[i] /\ invoice'[i] = invoice[i] /\ CoveredBy(i, s)
                 \/ ~(seen + v >= Total[i]) /\ invoice'[i] = invoice[i]
              /\ i \in unseenInvoice' <=> i \in unseenInvoice \/ seen # s
    BY <1>15, ApplicationIs DEF s, t
  <2> QED
    BY <1>2, <1>4, <1>5, <1>7, <1>9, <1>10, <1>15, <2>1 DEF CoveredBy
<1> QED
  BY <1>1, <1>11, <1>12, <1>13, <1>14, <1>15 DEF InvoiceMoves, n, m

\* Neither what is applied to an invoice nor its issues become less.
LEMMA InvoiceGrows ==
    ASSUME IInv, EntriesInv, RecInv, Next, NEW i \in Invoices
    PROVE  /\ sum_applied(i) \in Nat /\ sum_applied(i)' \in Nat /\ sum_applied(i)' >= sum_applied(i)
           /\ Issues(i) \in Nat /\ Issues(i)' \in Nat /\ Issues(i)' >= Issues(i)
<1> DEFINE n == Issues(i)
           m == Issues(i)'
           s == sum_applied(i)
           t == sum_applied(i)'
<1>1. InvoiceMoves(i)
  BY InvoiceMovesHolds DEF RecInv
<1>2. n \in Nat /\ s \in Nat
  BY IssuesType, SumAppliedNat DEF RecInv
<1>3. SameApplied(i) => t = s
  BY SumSameApplied
<1>4. ASSUME NEW r \in Requests, request[r].doc[1] = i, CommitAllocation(r)
      PROVE  t \in Nat /\ t >= s
  <2>1. PICK v \in Nat \ {0} : t = s + v
    BY <1>4, ApplicationIs
  <2> QED
    BY <1>2, <2>1
<1>5. (SameIssues(i) => m = n) /\ (Entries(i)' = Entries(i) /\ lost'[i] = lost[i] => m = n)
  BY DEF SameIssues, Issues
<1> HIDE DEF n, m, s, t
<1>6. m = n \/ m = n + 1
  BY <1>1, <1>5 DEF InvoiceMoves, n, m
<1>7. t \in Nat /\ t >= s
  BY <1>1, <1>2, <1>3, <1>4 DEF InvoiceMoves
<1> QED
  BY <1>2, <1>6, <1>7 DEF n, m, s, t

\* What a request has read or found out stays with it.
KeptFacts(q) ==
    /\ request'[q].op = request[q].op /\ request'[q].doc = request[q].doc
    /\ request'[q].view = request[q].view
    /\ request'[q].pc = "applied" => request[q].pc = "applied" /\ request'[q].entry = request[q].entry

\* Who allocates or sweeps has been doing so, or has just begun or gone on.
LEMMA ApplyingCases ==
    ASSUME IInv, Next, NEW q \in Requests, request'[q].op \in {"allocate", "sweep"}
    PROVE  \/ KeptFacts(q) \/ Apply(q) \/ Sweep(q)
           \/ \E i \in Invoices, p \in CustomerPayments : \E amount \in 1 .. Amount[p] : Allocate(q, p, i, amount)
<1>0. DOMAIN request = Requests /\ \A r \in Requests : DOMAIN request[r] = Fields
  BY DEF IInv, Shape
<1>1. CASE ReceivablesStay
  BY <1>1 DEF ReceivablesStay, InvoicesKept, InvoiceKept, KeptFacts
<1>2. UNCHANGED request => KeptFacts(q)
  BY DEF KeptFacts
<1>3. ASSUME NEW r \in Requests, request' = [request EXCEPT ![r] = request'[r]], r # q
      PROVE  KeptFacts(q)
  BY <1>0, <1>3 DEF KeptFacts
<1>4. ASSUME (\E i \in Invoices : CreateInvoice(i)) \/ (\E p \in CustomerPayments : CreateCustomerPayment(p))
      PROVE  KeptFacts(q)
  BY <1>2, <1>4 DEF CreateInvoice, CreateCustomerPayment
<1>5. ASSUME NEW r \in Requests, NEW i \in Invoices, IssueInvoice(r, i)
      PROVE  KeptFacts(q)
  BY <1>0, <1>3, <1>5 DEF IssueInvoice, Enter
<1>6. ASSUME NEW r \in Requests, Respond(r)
      PROVE  KeptFacts(q)
  BY <1>0, <1>3, <1>6 DEF Respond, Idle
<1>7. ASSUME NEW r \in Requests,
             CommitSweep(r) \/ CommitInvoice(r) \/ CommitVoidInvoice(r) \/ CommitAllocation(r)
      PROVE  KeptFacts(q)
  BY <1>6, <1>7 DEF CommitSweep, CommitInvoice, CommitVoidInvoice, CommitAllocation
<1>8. ASSUME NEW r \in Requests, Sweep(r)
      PROVE  KeptFacts(q) \/ Sweep(q)
  BY <1>0, <1>3, <1>8 DEF Sweep, Enter
<1>9. ASSUME NEW r \in Requests, Apply(r)
      PROVE  KeptFacts(q) \/ Apply(q)
  BY <1>0, <1>3, <1>9 DEF Apply
<1>10. ASSUME NEW r \in Requests, NEW i \in Invoices, NEW p \in CustomerPayments, NEW amount \in 1 .. Amount[p],
              Allocate(r, p, i, amount)
       PROVE  KeptFacts(q) \/ Allocate(q, p, i, amount)
  <2>1. CASE r = q
    BY <1>10, <2>1
  <2>2. CASE r # q
    BY <1>0, <1>3, <1>10, <2>2 DEF Allocate, Enter
  <2> QED
    BY <2>1, <2>2
<1>11. CASE ReceivablesChange
  BY <1>4, <1>5, <1>7, <1>8, <1>9, <1>10, <1>11 DEF ReceivablesChange
<1> QED
  BY <1>1, <1>11, ReceivablesCases

LEMMA SweepSoundStep ==
    ASSUME IInv, EntriesInv, RecInv, Next, NEW q \in Requests
    PROVE  SweepSound(q)'
<1>1. SUFFICES ASSUME request'[q].op = "sweep", NEW i, i \in request'[q].view
               PROVE  Issues(i)' >= 1
  BY DEF SweepSound
<1>2. CASE KeptFacts(q)
  <2>1. request[q].op = "sweep" /\ i \in request[q].view
    BY <1>1, <1>2 DEF KeptFacts
  <2>2. i \in Invoices /\ Issues(i) >= 1
    BY <2>1 DEF IInv, InvoiceSound, RecInv, SweepSound
  <2>3. Issues(i) \in Nat /\ Issues(i)' \in Nat /\ Issues(i)' >= Issues(i)
    BY <2>2, InvoiceGrows
  <2> QED
    BY <2>2, <2>3
<1>3. CASE Sweep(q)
  <2>1. request'[q].view = list_overdue_and_issued
    BY <1>3 DEF Sweep, Enter, IInv, Shape
  <2>2. i \in Invoices /\ invoice[i] = "issued"
    BY <1>1, <2>1 DEF list_overdue_and_issued
  <2>3. Issues(i) >= 1
    BY <2>2 DEF RecInv, InvoiceCount
  <2>4. Issues(i) \in Nat /\ Issues(i)' \in Nat /\ Issues(i)' >= Issues(i)
    BY <2>2, InvoiceGrows
  <2> QED
    BY <2>3, <2>4
<1>4. ~Apply(q)
  BY <1>1 DEF Apply, At, IInv, Shape
<1>5. \A k, p, amount : ~Allocate(q, p, k, amount)
  BY <1>1 DEF Allocate, Enter, IInv, Shape
<1> QED
  BY <1>1, <1>2, <1>3, <1>4, <1>5, ApplyingCases

LEMMA ApplicationSoundStep ==
    ASSUME IInv, EntriesInv, RecInv, Next, NEW q \in Requests
    PROVE  ApplicationSound(q)'
<1>0. SUFFICES ASSUME request'[q].op = "allocate", NEW i, request'[q].doc[1] = i
               PROVE  /\ ApplyingTo(i, request'[q]) /\ Issues(i)' >= 1
                      /\ request'[q].doc[4] = "paid" => CoveredBy(i, sum_applied(i)')
                      /\ request'[q].pc = "applied" => request'[q].entry.sum <= sum_applied(i)'
  <2>1. PICK i : request'[q].doc[1] = i
    OBVIOUS
  <2> QED
    BY <2>1 DEF ApplicationSound, CoveredBy
<1> DEFINE t == sum_applied(i)'
           m == Issues(i)'
<1>1. (sum_applied(i)' = t) /\ (Issues(i)' = m)
  OBVIOUS
<1> HIDE DEF t, m
<1> DEFINE row == request'[q]
           Goal == /\ ApplyingTo(i, request'[q]) /\ m >= 1
                   /\ request'[q].doc[4] = "paid" => CoveredBy(i, t)
                   /\ request'[q].pc = "applied" => request'[q].entry.sum <= t
<1>2. ASSUME i \in Invoices
      PROVE  /\ sum_applied(i) \in Nat /\ t \in Nat /\ t >= sum_applied(i)
             /\ Issues(i) \in Nat /\ m \in Nat /\ m >= Issues(i) /\ Total[i] \in Nat
             /\ CoveredBy(i, sum_applied(i)) => CoveredBy(i, t)
  <2>1. /\ sum_applied(i) \in Nat /\ t \in Nat /\ t >= sum_applied(i)
        /\ Issues(i) \in Nat /\ m \in Nat /\ m >= Issues(i) /\ Total[i] \in Nat
    BY <1>1, <1>2, InvoiceGrows, ReceivablesAssumption
  <2> QED
    BY <2>1 DEF CoveredBy
<1>3. ASSUME request[q].op = "allocate", request[q].doc = request'[q].doc
      PROVE  /\ i \in Invoices /\ ApplyingTo(i, request[q]) /\ Issues(i) >= 1
             /\ request[q].doc[4] = "paid" => CoveredBy(i, sum_applied(i))
             /\ request[q].pc = "applied" => request[q].entry.sum <= sum_applied(i)
  <2>1. request[q].doc[1] = i
    BY <1>0, <1>3
  <2>2. i \in Invoices
    BY <1>3, <2>1 DEF IInv, InvoiceSound
  <2>3. ApplicationSound(q)
    BY DEF RecInv
  <2> QED
    BY <1>3, <2>1, <2>2, <2>3 DEF ApplicationSound
<1>4. ASSUME KeptFacts(q)
      PROVE  Goal
  <2>1. /\ request[q].op = "allocate" /\ request[q].doc = request'[q].doc /\ request'[q].view = request[q].view
        /\ request'[q].pc = "applied" => request[q].pc = "applied" /\ request'[q].entry = request[q].entry
    BY <1>0, <1>4 DEF KeptFacts
  <2>2. ApplyingTo(i, request'[q])
    BY <1>3, <2>1 DEF ApplyingTo
  <2>3. m >= 1 /\ (request'[q].doc[4] = "paid" => CoveredBy(i, t))
    BY <1>2, <1>3, <2>1
  <2>4. request'[q].pc = "applied" => request'[q].entry.sum <= t
    <3> SUFFICES ASSUME request'[q].pc = "applied" PROVE request'[q].entry.sum <= t
      OBVIOUS
    <3>1. PICK s : s = request[q].entry.sum
      OBVIOUS
    <3>2. s \in Nat /\ s <= sum_applied(i) /\ request'[q].entry.sum = s
      BY <1>3, <2>1, <3>1 DEF ApplyingTo
    <3>3. sum_applied(i) \in Nat /\ t \in Nat /\ t >= sum_applied(i)
      BY <1>2, <1>3, <2>1
    <3> QED
      BY <3>2, <3>3
  <2> QED
    BY <2>2, <2>3, <2>4
<1>5. ASSUME Apply(q)
      PROVE  Goal
  <2>1. /\ request[q].op = "allocate" /\ request[q].doc = request'[q].doc /\ request'[q].view = request[q].view
        /\ request'[q].pc = "applied"
        /\ request'[q].entry.sum = sum_applied(request[q].doc[1])
        /\ request'[q].entry.paid = (sum_applied(request[q].doc[1]) + request[q].doc[3] >= Total[request[q].doc[1]])
    BY <1>5 DEF Apply, At, IInv, Shape
  <2>2. request[q].doc[1] = i
    BY <1>0, <2>1
  <2>3. PICK s : s = sum_applied(i)
    OBVIOUS
  <2>4. request'[q].entry.sum = s
    BY <2>1, <2>2, <2>3, Zenon
  <2>5. request'[q].entry.paid = (request'[q].entry.sum + request'[q].doc[3] >= Total[i])
    BY <2>1, <2>2, <2>3, <2>4, Zenon
  <2>6. s \in Nat /\ t \in Nat /\ t >= s
    BY <1>2, <1>3, <2>1, <2>3
  <2>7. request'[q].entry.sum \in Nat
    BY <2>4, <2>6
  <2>8. /\ request'[q].doc[2] \in CustomerPayments /\ request'[q].doc[3] \in Nat \ {0} /\ request'[q].view \in Nat
        /\ request'[q].view + request'[q].doc[3] <= Amount[request'[q].doc[2]]
    BY <1>3, <2>1 DEF ApplyingTo
  <2>9. ApplyingTo(i, request'[q])
    BY <2>5, <2>7, <2>8, Zenon DEF ApplyingTo
  <2>10. m >= 1 /\ (request'[q].doc[4] = "paid" => CoveredBy(i, t))
    BY <1>2, <1>3, <2>1
  <2>11. request'[q].entry.sum <= t
    BY <2>4, <2>6
  <2> QED
    BY <2>9, <2>10, <2>11
<1>6. ASSUME NEW k \in Invoices, NEW p \in CustomerPayments, NEW amount \in 1 .. Amount[p], Allocate(q, p, k, amount)
      PROVE  Goal
  <2>1. /\ request'[q].doc = <<k, p, amount, invoice[k]>> /\ request'[q].view = sum_allocated_for_payment(p)
        /\ request'[q].pc = "begun"
        /\ sum_allocated_for_payment(p) + amount <= Amount[p] /\ invoice[k] \in {"issued", "overdue", "paid"}
    BY <1>6 DEF Allocate, Enter, IInv, Shape
  <2>2. i = k /\ request'[q].doc[2] = p /\ request'[q].doc[3] = amount /\ request'[q].doc[4] = invoice[k]
    <3>1. PICK d : d = request'[q].doc
      OBVIOUS
    <3>2. d = <<k, p, amount, invoice[k]>> /\ d[1] = i
      BY <1>0, <2>1, <3>1
    <3>3. d[1] = k /\ d[2] = p /\ d[3] = amount /\ d[4] = invoice[k]
      BY <3>2
    <3> QED
      BY <3>1, <3>2, <3>3
  <2>3. PICK s : s = sum_allocated_for_payment(p)
    OBVIOUS
  <2>4. s \in Nat /\ Amount[p] \in Nat
    BY <2>3, SumAppliedNat, ReceivablesAssumption DEF RecInv
  <2>5. s + amount <= Amount[p] /\ request'[q].view = s
    BY <2>1, <2>3
  <2>6. amount \in Nat \ {0}
    BY <2>4
  <2>7. ApplyingTo(i, request'[q])
    BY <2>1, <2>2, <2>4, <2>5, <2>6 DEF ApplyingTo
  <2>8. Issues(i) >= 1 /\ (invoice[i] = "paid" => CoveredBy(i, sum_applied(i)))
    BY <2>1, <2>2 DEF RecInv, InvoiceCount, InvoiceSum, CoveredBy
  <2>9. m >= 1 /\ (request'[q].doc[4] = "paid" => CoveredBy(i, t))
    BY <1>2, <2>2, <2>8
  <2> QED
    BY <2>1, <2>7, <2>9
<1>7. ~Sweep(q)
  BY <1>0 DEF Sweep, Enter, IInv, Shape
<1>8. Goal
  <2> HIDE DEF Goal
  <2> QED
    BY <1>0, <1>4, <1>5, <1>6, <1>7, ApplyingCases
<1> QED
  BY <1>1, <1>8, Zenon

LEMMA CustomerPaymentSumStep ==
    ASSUME IInv, EntriesInv, RecInv, Next, NEW p \in CustomerPayments
    PROVE  CustomerPaymentSum(p)'
<1> DEFINE s == sum_allocated_for_payment(p)
           t == sum_allocated_for_payment(p)'
<1>1. CustomerPaymentSum(p)' <=> (p \notin unseenPayment' => t <= Amount[p])
  BY DEF CustomerPaymentSum
<1>2. p \notin unseenPayment => s <= Amount[p]
  BY DEF RecInv, CustomerPaymentSum
<1>3. CASE UNCHANGED <<applied, unseenPayment>>
  <2>1. t = s
    BY <1>3 DEF sum_allocated_for_payment
  <2> QED
    BY <1>1, <1>2, <1>3, <2>1
<1>4. ASSUME NEW r \in Requests, CommitAllocation(r)
      PROVE  CustomerPaymentSum(p)'
  <2>1. request[r].op = "allocate"
    BY <1>4 DEF CommitAllocation, At
  <2>2. ApplicationSound(r)
    BY DEF RecInv
  <2>3. PICK v : v = request[r].doc[3]
    OBVIOUS
  <2>4. PICK seen : seen = request[r].view
    OBVIOUS
  <2>5. PICK c : c = request[r].doc[2]
    OBVIOUS
  <2>6. v \in Nat \ {0} /\ seen \in Nat /\ seen + v <= Amount[c]
    BY <2>1, <2>2, <2>3, <2>4, <2>5 DEF ApplicationSound, ApplyingTo
  <2>7. t = IF c = p THEN s + v ELSE s
    BY <1>4, <2>3, <2>5, AppliedMore
  <2>8. unseenPayment' = IF seen # sum_allocated_for_payment(c) THEN unseenPayment \union {c} ELSE unseenPayment
    BY <1>4, <2>4, <2>5 DEF CommitAllocation
  <2>9. CASE c = p
    <3>1. p \in unseenPayment' <=> p \in unseenPayment \/ seen # s
      BY <2>8, <2>9
    <3> HIDE DEF s, t
    <3> QED
      BY <1>1, <1>2, <2>6, <2>7, <2>9, <3>1
  <2>10. CASE c # p
    <3>1. p \in unseenPayment' <=> p \in unseenPayment
      BY <2>8, <2>10
    <3> HIDE DEF s, t
    <3> QED
      BY <1>1, <1>2, <2>7, <2>10, <3>1
  <2> QED
    BY <2>9, <2>10
<1>5. ReceivablesStay => UNCHANGED <<applied, unseenPayment>>
  BY DEF ReceivablesStay, SameReceivables
<1>6. ReceivablesChange => UNCHANGED <<applied, unseenPayment>> \/ \E r \in Requests : CommitAllocation(r)
  BY DEF ReceivablesChange, CreateInvoice, CreateCustomerPayment, IssueInvoice, Allocate, Sweep,
         CommitSweep, CommitInvoice, CommitVoidInvoice, Apply, receivables
<1> QED
  BY <1>3, <1>4, <1>5, <1>6, ReceivablesCases

LEMMA RecTypesStep ==
    ASSUME IInv, RecInv, Next
    PROVE  AppliedTyped' /\ LostTyped' /\ ReceivablesTyped'
<1>1. AppliedTyped /\ LostTyped /\ ReceivablesTyped
  BY DEF RecInv
<1>2. CASE SameReceivables
  BY <1>1, <1>2 DEF SameReceivables, AppliedTyped, LostTyped, ReceivablesTyped
<1>3. ASSUME NEW r \in Requests, CommitAllocation(r)
      PROVE  AppliedTyped' /\ LostTyped' /\ ReceivablesTyped'
  <2>1. request[r].op = "allocate"
    BY <1>3 DEF CommitAllocation, At
  <2>2. request[r].doc[1] \in Invoices
    BY <2>1 DEF IInv, InvoiceSound
  <2>3. request[r].doc[2] \in CustomerPayments /\ request[r].doc[3] \in Nat
    BY <2>1 DEF RecInv, ApplicationSound, ApplyingTo
  <2>4. applied' = [applied EXCEPT ![request[r].doc[2]][request[r].doc[1]] = request[r].doc[3]]
    BY <1>3 DEF CommitAllocation
  <2>5. AppliedTyped'
    BY <1>1, <2>2, <2>3, <2>4 DEF AppliedTyped
  <2>6. ReceivablesTyped' /\ LostTyped'
    BY <1>1, <1>3, <2>2, <2>3 DEF CommitAllocation, ReceivablesTyped, LostTyped, PaymentStatus
  <2> QED
    BY <2>5, <2>6
<1>4. ASSUME NEW r \in Requests, CommitInvoice(r)
      PROVE  AppliedTyped' /\ LostTyped' /\ ReceivablesTyped'
  <2>1. request[r].doc[1] \in Invoices
    BY <1>4 DEF CommitInvoice, IInv, InvoiceSound
  <2>2. UNCHANGED <<received, applied, unseenPayment, unseenInvoice, swept>>
    BY <1>4 DEF CommitInvoice
  <2>3. lost' = lost \/ lost' = [lost EXCEPT ![request[r].doc[1]] = @ + 1]
    BY <1>4 DEF CommitInvoice
  <2>4. LostTyped'
    BY <1>1, <2>1, <2>3 DEF LostTyped
  <2> QED
    BY <1>1, <2>2, <2>4 DEF AppliedTyped, ReceivablesTyped
<1>5. ASSUME NEW r \in Requests, CommitSweep(r)
      PROVE  AppliedTyped' /\ LostTyped' /\ ReceivablesTyped'
  <2>1. \A i \in request[r].view : i \in Invoices
    BY <1>5 DEF CommitSweep, At, IInv, InvoiceSound
  <2> QED
    BY <1>1, <1>5, <2>1 DEF CommitSweep, AppliedTyped, LostTyped, ReceivablesTyped
<1>6. ASSUME NEW p \in CustomerPayments, CreateCustomerPayment(p)
      PROVE  AppliedTyped' /\ LostTyped' /\ ReceivablesTyped'
  BY <1>1, <1>6 DEF CreateCustomerPayment, AppliedTyped, LostTyped, ReceivablesTyped, PaymentStatus
<1>7. CASE UNCHANGED <<received, applied, lost, unseenPayment, unseenInvoice, swept>>
  BY <1>1, <1>7 DEF AppliedTyped, LostTyped, ReceivablesTyped
<1>8. CASE ReceivablesChange
  <2>1. \/ UNCHANGED <<received, applied, lost, unseenPayment, unseenInvoice, swept>>
        \/ \E r \in Requests : CommitAllocation(r) \/ CommitInvoice(r) \/ CommitSweep(r)
        \/ \E p \in CustomerPayments : CreateCustomerPayment(p)
    BY <1>8 DEF ReceivablesChange, CreateInvoice, IssueInvoice, Allocate, Sweep, CommitVoidInvoice, Apply, receivables
  <2> QED
    BY <1>3, <1>4, <1>5, <1>6, <1>7, <2>1
<1> QED
  BY <1>2, <1>8, ReceivablesCases DEF ReceivablesStay

LEMMA InitRecInv ==
    ASSUME Init
    PROVE  RecInv
<1> USE DEF Init, LedgerInit, ReceivablesInit
<1>1. AppliedTyped /\ LostTyped /\ ReceivablesTyped
  BY DEF AppliedTyped, LostTyped, ReceivablesTyped, PaymentStatus
<1>2. Cardinality({}) = 0 /\ Cardinality(Requests) \in Nat
  BY LedgerAssumption, FS_EmptySet, FS_CardinalityType
<1>3. \A d : Entries(d) = 0 /\ Cardinality(Issuing(d)) = 0
  BY <1>2, InitCounts
<1>4. \A i \in Invoices : sum_applied(i) = 0
  <2> TAKE i \in Invoices
  <2>1. \A p \in CustomerPayments : AppliedTo(applied, i)[p] = 0
    BY DEF AppliedTo
  <2> QED
    BY <2>1, SumAppliedIs, ReceivablesAssumption, SumZero
<1>5. \A p \in CustomerPayments : sum_allocated_for_payment(p) = 0
  <2> TAKE p \in CustomerPayments
  <2>1. \A i \in Invoices : applied[p][i] = 0
    OBVIOUS
  <2> QED
    BY <2>1, ReceivablesAssumption, SumZero DEF sum_allocated_for_payment
<1>6. \A i \in Invoices : Issues(i) = 0
  BY <1>3 DEF Issues
<1>7. \A i \in Invoices : InvoiceCount(i) /\ InvoiceSum(i)
  BY <1>2, <1>3, <1>4, <1>6 DEF InvoiceCount, InvoiceSum
<1>8. \A p \in CustomerPayments : CustomerPaymentSum(p)
  BY <1>5, ReceivablesAssumption DEF CustomerPaymentSum
<1>9. \A q \in Requests : ApplicationSound(q) /\ SweepSound(q)
  BY DEF ApplicationSound, SweepSound, Idle
<1> QED
  BY <1>1, <1>7, <1>8, <1>9 DEF RecInv

LEMMA StepRecInv ==
    ASSUME IInv, EntriesInv, RecInv, [Next]_vars
    PROVE  RecInv'
<1>1. CASE Next
  BY <1>1, InvoiceCountStep, InvoiceSumStep, CustomerPaymentSumStep, ApplicationSoundStep, SweepSoundStep,
     RecTypesStep DEF RecInv
<1>2. CASE UNCHANGED vars
  BY <1>2 DEF vars, ledger, receivables, RecInv, AppliedTyped, LostTyped, ReceivablesTyped, InvoiceCount,
              InvoiceSum, CustomerPaymentSum, ApplicationSound, ApplyingTo, CoveredBy, SweepSound, Issues,
              Entries, Issuing, OpFor, sum_applied, sum_allocated_for_payment
<1> QED
  BY <1>1, <1>2

-----------------------------------------------------------------------------
(* Books: reversals and their mirrors *)

MirrorOf(i) == <<"journal_entry", i>>
Reversing(i) == {q \in Requests : request[q].op = "reverse" /\ request[q].view = i}

\* A reversal is accepted as it enters, and its entry is not mirrored more often than
\* requests can overlap; it has the last of the mirrors as its own.
ReversalSound(q) ==
    request[q].op = "reverse" => request[q].pc \in {"accepted", "numbered"} /\ request[q].view \in DOMAIN journal

MirrorCount(i) ==
    /\ Entries(MirrorOf(i)) + Cardinality(Reversing(i)) <= Cardinality(Requests)
    /\ journal[i].status = "reversed" <=> Entries(MirrorOf(i)) >= 1
    /\ journal[i].status = "reversed" => journal[i].mirror \in SourcedFrom(journal, MirrorOf(i))
    /\ journal[i].mirror \in 0 .. Len(journal)

MirrorInv ==
    /\ \A i \in DOMAIN journal : MirrorCount(i)
    /\ \A q \in Requests : ReversalSound(q)

KeptReversal(q) ==
    /\ request[q].op = "reverse" /\ request'[q].view = request[q].view
    /\ request'[q].pc \in {"numbered", request[q].pc}

LEMMA ReverseCases ==
    ASSUME IInv, Next, NEW q \in Requests, request'[q].op = "reverse"
    PROVE  KeptReversal(q) \/ \E i \in DOMAIN journal : ReverseJournal(q, i)
<1>0. DOMAIN request = Requests /\ \A r \in Requests : DOMAIN request[r] = Fields
  BY DEF IInv, Shape
<1>1. UNCHANGED request => KeptReversal(q)
  BY DEF KeptReversal
<1>2. ASSUME NEW r \in Requests, request' = [request EXCEPT ![r] = request'[r]],
             r # q \/ request'[r].op # "reverse"
      PROVE  KeptReversal(q)
  BY <1>0, <1>2 DEF KeptReversal
<1>3. CASE \/ CreatePayable /\ UNCHANGED <<receivables, inUse>>
           \/ BillsOverdue /\ UNCHANGED <<receivables, inUse>>
           \/ CreateReceivable /\ UNCHANGED <<payables, inUse>>
  BY <1>1, <1>3 DEF CreatePayable, CreateReceivable, CreateDebitNote, CreateBill, CreateSupplierPayment,
                    BillsOverdue, CreateInvoice, CreateCustomerPayment
<1>4. ASSUME NEW r \in Requests, Respond(r)
      PROVE  KeptReversal(q)
  BY <1>0, <1>2, <1>4 DEF Respond, Idle
<1>5. ASSUME NEW r \in Requests, PayablesStep(r)
      PROVE  KeptReversal(q)
  <2>1. ASSUME NEW b \in Bills, IssueBill(r, b)
        PROVE  KeptReversal(q)
    BY <1>0, <1>2, <2>1 DEF Enter, IssueBill
  <2>2. ASSUME NEW b \in Bills, VoidBill(r, b)
        PROVE  KeptReversal(q)
    BY <1>0, <1>2, <2>2 DEF Enter, VoidBill
  <2>3. ASSUME NEW b \in Bills, NEW p, NEW amount, AllocateBill(r, p, b, amount)
        PROVE  KeptReversal(q)
    BY <1>0, <1>2, <2>3 DEF Enter, AllocateBill
  <2>4. ASSUME NEW p, ReconcileSupplierPayment(r, p)
        PROVE  KeptReversal(q)
    BY <1>0, <1>2, <2>4 DEF Enter, ReconcileSupplierPayment
  <2>5. CASE CommitVoidBill(r) \/ CommitAllocateBill(r) \/ CommitBill(r) \/ CommitReconcile(r)
    BY <1>4, <2>5 DEF CommitVoidBill, CommitAllocateBill, CommitBill, CommitReconcile
  <2> QED
    BY <1>5, <2>1, <2>2, <2>3, <2>4, <2>5 DEF PayablesStep
<1>6. ASSUME NEW r \in Requests, ReceivablesStep(r)
      PROVE  KeptReversal(q)
  <2>1. ASSUME NEW i \in Invoices, IssueInvoice(r, i)
        PROVE  KeptReversal(q)
    BY <1>0, <1>2, <2>1 DEF Enter, IssueInvoice
  <2>2. ASSUME NEW i \in Invoices, VoidInvoice(r, i)
        PROVE  KeptReversal(q)
    BY <1>0, <1>2, <2>2 DEF Enter, VoidInvoice
  <2>3. ASSUME NEW i \in Invoices, NEW p, NEW amount, Allocate(r, p, i, amount)
        PROVE  KeptReversal(q)
    BY <1>0, <1>2, <2>3 DEF Enter, Allocate
  <2>4. CASE Sweep(r)
    BY <1>0, <1>2, <2>4 DEF Enter, Sweep
  <2>5. CASE FlushInvoice(r)
    BY <1>0, <1>2, <2>5 DEF FlushInvoice, Emit, At
  <2>6. CASE Apply(r)
    BY <1>0, <1>2, <2>6 DEF Apply, At
  <2>7. CASE CommitSweep(r) \/ CommitInvoice(r) \/ CommitVoidInvoice(r) \/ CommitAllocation(r)
    BY <1>4, <2>7 DEF CommitSweep, CommitInvoice, CommitVoidInvoice, CommitAllocation
  <2> QED
    BY <1>6, <2>1, <2>2, <2>3, <2>4, <2>5, <2>6, <2>7 DEF ReceivablesStep
<1>7. ASSUME NEW r \in Requests, LedgerStep(r)
      PROVE  KeptReversal(q) \/ \E i \in DOMAIN journal : ReverseJournal(q, i)
  <2>1. ASSUME NEW v, NEW p, NEW ls, CreateJournal(r, v, p, ls)
        PROVE  KeptReversal(q)
    BY <1>0, <1>2, <2>1 DEF Enter, CreateJournal
  <2>2. ASSUME NEW i \in DOMAIN journal, ReverseJournal(r, i)
        PROVE  KeptReversal(q) \/ ReverseJournal(q, i)
    <3>1. CASE r = q
      BY <2>2, <3>1
    <3>2. CASE r # q
      BY <1>0, <1>2, <2>2, <3>2 DEF Enter, ReverseJournal
    <3> QED
      BY <3>1, <3>2
  <2>3. CASE NextEntryNo(r)
    <3>1. CASE r = q
      BY <1>0, <2>3, <3>1 DEF NextEntryNo, KeptReversal
    <3>2. CASE r # q
      BY <1>0, <1>2, <2>3, <3>2 DEF NextEntryNo
    <3> QED
      BY <3>1, <3>2
  <2>4. CASE CommitJournal(r) \/ CommitReversal(r) \/ Rollback(r)
    BY <1>4, <2>4 DEF CommitJournal, CommitReversal, Rollback
  <2> QED
    BY <1>7, <2>1, <2>2, <2>3, <2>4 DEF LedgerStep
<1>8. ASSUME NEW p, ClosePeriod(p) \/ ReopenPeriod(p)
      PROVE  KeptReversal(q)
  BY <1>1, <1>8 DEF ClosePeriod, ReopenPeriod
<1> QED
  BY <1>3, <1>5, <1>6, <1>7, <1>8 DEF Next

LEMMA ReversalSoundStep ==
    ASSUME IInv, MirrorInv, Next, NEW q \in Requests
    PROVE  ReversalSound(q)'
<1>1. SUFFICES ASSUME request'[q].op = "reverse"
               PROVE  request'[q].pc \in {"accepted", "numbered"} /\ request'[q].view \in DOMAIN journal'
  BY DEF ReversalSound
<1>2. \A i \in DOMAIN journal : i \in DOMAIN journal'
  BY JournalKeeps
<1>3. CASE KeptReversal(q)
  BY <1>2, <1>3 DEF KeptReversal, MirrorInv, ReversalSound
<1>4. ASSUME NEW i \in DOMAIN journal, ReverseJournal(q, i)
      PROVE  request'[q].pc \in {"accepted", "numbered"} /\ request'[q].view \in DOMAIN journal'
  BY <1>2, <1>4 DEF ReverseJournal, Enter, IInv, Shape
<1> QED
  BY <1>1, <1>3, <1>4, ReverseCases

LEMMA ReversingCount ==
    \A i : IsFiniteSet(Reversing(i)) /\ Cardinality(Reversing(i)) \in Nat
              /\ Cardinality(Reversing(i)) <= Cardinality(Requests)
<1> TAKE i
<1>1. Reversing(i) \subseteq Requests
  BY DEF Reversing
<1> QED
  BY <1>1, LedgerAssumption, FS_Subset, FS_CardinalityType

\* A reversal of an entry enters while the entry is posted.
LEMMA ReversingStep ==
    ASSUME IInv, Next, NEW i \in DOMAIN journal
    PROVE  Reversing(i)' \subseteq Reversing(i) \/ (UNCHANGED journal /\ journal[i].status = "posted")
<1>1. SUFFICES ASSUME NEW q \in Requests, request'[q].op = "reverse", request'[q].view = i,
                      ~(request[q].op = "reverse" /\ request[q].view = i)
               PROVE  UNCHANGED journal /\ journal[i].status = "posted"
  <2>1. Reversing(i)' = {q \in Requests : request'[q].op = "reverse" /\ request'[q].view = i}
    BY DEF Reversing
  <2> QED
    BY <2>1 DEF Reversing
<1>2. ~KeptReversal(q)
  BY <1>1 DEF KeptReversal
<1>3. PICK k \in DOMAIN journal : ReverseJournal(q, k)
  BY <1>1, <1>2, ReverseCases
<1>4. request'[q].view = k
  BY <1>3 DEF ReverseJournal, Enter, IInv, Shape
<1>5. journal[k].status = "posted" /\ UNCHANGED journal
  BY <1>3 DEF ReverseJournal, ledger
<1> QED
  BY <1>1, <1>4, <1>5

\* A commit mirrors an entry exactly when it is a reversal of it.
LEMMA BookedMirrors ==
    ASSUME IInv, EntriesInv, NEW r \in Requests, Booked(r), NEW i \in DOMAIN journal
    PROVE  /\ r \in Reversing(i) =>
                 /\ Entries(MirrorOf(i))' = Entries(MirrorOf(i)) + 1
                 /\ Len(journal) + 1 \in SourcedFrom(journal', MirrorOf(i))
           /\ r \notin Reversing(i) => Entries(MirrorOf(i))' = Entries(MirrorOf(i))
           /\ SourcedFrom(journal, MirrorOf(i)) \subseteq SourcedFrom(journal', MirrorOf(i))
<1> DEFINE e == request[r].entry
           n == Len(journal)
           S == SourcedFrom(journal, MirrorOf(i))
           T == SourcedFrom(journal', MirrorOf(i))
<1>1. /\ n \in Nat /\ DOMAIN journal = 1 .. n /\ DOMAIN journal' = 1 .. n + 1
      /\ journal'[n + 1] = e
      /\ \A k \in DOMAIN journal : journal'[k].source = journal[k].source
  BY BookedIs DEF SameBooking
<1>2. e.source = MirrorOf(i) <=> r \in Reversing(i)
  <2>1. MadeFor(journal, request[r].op, request[r].doc[1], request[r].view, e)
    BY DEF EntriesInv, Writing, Booked
  <2>2. MirrorOf(i) \in {"journal_entry"} \X Nat
    BY <1>1 DEF MirrorOf
  <2>3. MirrorOf(i) \notin Bills \union SupplierPayments \union Invoices \union {None}
    BY <2>2, BooksAssumption
  <2>4. \A k : MirrorOf(k) = MirrorOf(i) => k = i
    BY DEF MirrorOf
  <2> HIDE DEF e
  <2>5. CASE request[r].op = "reverse"
    <3>1. e.source = MirrorOf(request[r].view)
      BY <2>1, <2>5 DEF MadeFor, MirrorOf
    <3> QED
      BY <2>4, <2>5, <3>1 DEF Reversing
  <2>6. CASE request[r].op # "reverse"
    <3>1. e.source \in Bills \union SupplierPayments \union Invoices \union {None}
      BY <2>1, <2>6 DEF MadeFor
    <3> QED
      BY <2>3, <2>6, <3>1 DEF Reversing
  <2> QED
    BY <2>5, <2>6
<1>3. IsFiniteSet(S) /\ Entries(MirrorOf(i)) = Cardinality(S) /\ Cardinality(S) \in Nat
  BY EntriesType
<1>4. Entries(MirrorOf(i))' = Cardinality(T)
  BY DEF Entries, SourcedFrom, MirrorOf
<1>5. CASE r \in Reversing(i)
  <2>1. T = S \union {n + 1} /\ n + 1 \notin S
    BY <1>1, <1>2, <1>5 DEF SourcedFrom
  <2> HIDE DEF S, T, n
  <2>2. Cardinality(S \union {n + 1}) = Cardinality(S) + 1
    BY <1>3, <2>1, FS_AddElement
  <2> QED
    BY <1>3, <1>4, <1>5, <2>1, <2>2 DEF S, T, n
<1>6. CASE r \notin Reversing(i)
  <2>1. T = S
    BY <1>1, <1>2, <1>6 DEF SourcedFrom
  <2> QED
    BY <1>3, <1>4, <1>6, <2>1
<1> QED
  BY <1>5, <1>6

\* An entry that is new has no mirror yet.
LEMMA NewEntryUnmirrored ==
    ASSUME IInv, EntriesInv, MirrorInv, Next, NEW r \in Requests, Booked(r),
           NEW k, k = Len(journal) + 1
    PROVE  SourcedFrom(journal', MirrorOf(k)) = {} /\ Reversing(k)' = {}
<1> DEFINE e == request[r].entry
           n == Len(journal)
<1>1. /\ n \in Nat /\ DOMAIN journal = 1 .. n /\ DOMAIN journal' = 1 .. n + 1
      /\ journal'[n + 1] = e
      /\ \A i \in DOMAIN journal : journal'[i].source = journal[i].source
  BY BookedIs DEF SameBooking
<1>2. k \in Nat /\ k \notin DOMAIN journal
  BY <1>1
<1>3. ASSUME NEW f, OriginIn(journal, f)
      PROVE  f.source # MirrorOf(k)
  <2> SUFFICES ASSUME f.source = <<"journal_entry", k>> PROVE FALSE
    BY DEF MirrorOf
  <2> QED
    BY <1>2, <1>3, MirrorOrigin
<1>4. \A i \in DOMAIN journal : OriginIn(journal, journal[i])
  BY DEF EntriesInv, Stored
<1>5. OriginIn(journal, e)
  BY DEF EntriesInv, Writing, Booked
<1> HIDE DEF e
<1>6. \A i \in DOMAIN journal' : journal'[i].source # MirrorOf(k)
  <2> TAKE i \in DOMAIN journal'
  <2>1. i \in DOMAIN journal \/ i = n + 1
    BY <1>1
  <2> QED
    BY <1>1, <1>3, <1>4, <1>5, <2>1
<1>7. SourcedFrom(journal', MirrorOf(k)) = {}
  BY <1>6 DEF SourcedFrom
<1>8. \A q \in Requests : ~(request'[q].op = "reverse" /\ request'[q].view = k)
  <2> SUFFICES ASSUME NEW q \in Requests, request'[q].op = "reverse", request'[q].view = k PROVE FALSE
    OBVIOUS
  <2>1. CASE KeptReversal(q)
    BY <1>2, <2>1 DEF KeptReversal, MirrorInv, ReversalSound
  <2>2. ASSUME NEW i \in DOMAIN journal, ReverseJournal(q, i)
        PROVE  FALSE
    BY <1>2, <2>2 DEF ReverseJournal, Enter, IInv, Shape
  <2> QED
    BY <2>1, <2>2, ReverseCases
<1>9. Reversing(k)' = {q \in Requests : request'[q].op = "reverse" /\ request'[q].view = k}
  BY DEF Reversing
<1> QED
  BY <1>7, <1>8, <1>9

LEMMA MirrorCountStep ==
    ASSUME IInv, EntriesInv, MirrorInv, Next, NEW i \in DOMAIN journal'
    PROVE  MirrorCount(i)'
<1> DEFINE n == Entries(MirrorOf(i))
           m == Entries(MirrorOf(i))'
           c == Cardinality(Reversing(i))
           d == Cardinality(Reversing(i)')
           N == Cardinality(Requests)
<1>1. MirrorCount(i)' <=>
          /\ m + d <= N
          /\ journal'[i].status = "reversed" <=> m >= 1
          /\ journal'[i].status = "reversed" => journal'[i].mirror \in SourcedFrom(journal', MirrorOf(i))
          /\ journal'[i].mirror \in 0 .. Len(journal')
  BY DEF MirrorCount, SourcedFrom, MirrorOf
<1>2. n \in Nat /\ c \in Nat /\ N \in Nat /\ IsFiniteSet(Reversing(i))
  BY EntriesType, ReversingCount, LedgerAssumption, FS_CardinalityType
<1>3. /\ Reversing(i)' \subseteq Reversing(i) => d \in Nat /\ d <= c
      /\ d \in Nat /\ d <= N
      /\ \A r \in Reversing(i) : Reversing(i)' \subseteq Reversing(i) /\ r \notin Reversing(i)' => d + 1 <= c
  <2>1. Reversing(i)' \subseteq Requests
    BY DEF Reversing
  <2>2. d \in Nat /\ d <= N
    BY <2>1, LedgerAssumption, FewerRequests
  <2>3. Reversing(i)' \subseteq Reversing(i) => d \in Nat /\ d <= c
    BY <1>2, FewerRequests
  <2>4. \A r \in Reversing(i) : Reversing(i)' \subseteq Reversing(i) /\ r \notin Reversing(i)' => d + 1 <= c
    BY <1>2, FewerRequests
  <2> QED
    BY <2>2, <2>3, <2>4
<1>4. ASSUME i \in DOMAIN journal
      PROVE  /\ n + c <= N /\ (journal[i].status = "reversed" <=> n >= 1)
             /\ journal[i].status = "reversed" => journal[i].mirror \in SourcedFrom(journal, MirrorOf(i))
             /\ journal[i].mirror \in 0 .. Len(journal)
             /\ journal[i].status \in {"posted", "reversed"}
  BY <1>4 DEF MirrorInv, MirrorCount, EntriesInv, Stored
<1>5. CASE UNCHANGED journal
  <2>1. i \in DOMAIN journal /\ m = n
    BY <1>5, SameCount DEF Entries, MirrorOf
  <2> HIDE DEF n, m, c, d, N
  <2>2. Reversing(i)' \subseteq Reversing(i) \/ journal[i].status = "posted"
    BY <2>1, ReversingStep
  <2>3. m + d <= N
    BY <1>2, <1>3, <1>4, <2>1, <2>2
  <2> QED
    BY <1>1, <1>4, <1>5, <2>1, <2>3
<1>6. ASSUME NEW r \in Requests, Booked(r)
      PROVE  MirrorCount(i)'
  <2>1. /\ Len(journal) \in Nat /\ DOMAIN journal = 1 .. Len(journal)
        /\ DOMAIN journal' = 1 .. Len(journal) + 1 /\ Len(journal') = Len(journal) + 1
        /\ journal'[Len(journal) + 1] = request[r].entry
    BY <1>6, BookedIs
  <2>2. request[r].pc = "numbered" /\ request'[r].op = "none"
    BY <1>6 DEF Booked, Idle, IInv, Shape
  <2>3. r \notin Reversing(i)'
    BY <2>2 DEF Reversing
  <2>4. CASE i = Len(journal) + 1
    <3>1. SourcedFrom(journal', MirrorOf(i)) = {} /\ Reversing(i)' = {}
      BY <1>6, <2>4, NewEntryUnmirrored
    <3>2. m = Cardinality(SourcedFrom(journal', MirrorOf(i)))
      BY DEF Entries, SourcedFrom, MirrorOf
    <3>3. m = 0 /\ d = 0
      BY <3>1, <3>2, FS_EmptySet
    <3>4. request[r].entry.status = "posted" /\ request[r].entry.mirror = 0
      BY <2>2 DEF EntriesInv, Writing
    <3> HIDE DEF n, m, c, d, N
    <3> QED
      BY <1>1, <1>2, <2>1, <2>4, <3>3, <3>4
  <2>5. CASE i \in DOMAIN journal
    <3>1. IF request[r].op = "reverse" /\ request[r].view = i
          THEN journal'[i].status = "reversed" /\ journal'[i].mirror = Len(journal) + 1
          ELSE journal'[i].status = journal[i].status /\ journal'[i].mirror = journal[i].mirror
      BY <1>6, <2>5, BookedIs
    <3>2. Reversing(i)' \subseteq Reversing(i)
      <4>1. ASSUME UNCHANGED journal
            PROVE  FALSE
        BY <2>1, <4>1
      <4> QED
        BY <2>5, <4>1, ReversingStep
    <3>3. r \in Reversing(i) <=> request[r].op = "reverse" /\ request[r].view = i
      BY DEF Reversing
    <3>4. /\ r \in Reversing(i) => m = n + 1 /\ Len(journal) + 1 \in SourcedFrom(journal', MirrorOf(i))
          /\ r \notin Reversing(i) => m = n
          /\ SourcedFrom(journal, MirrorOf(i)) \subseteq SourcedFrom(journal', MirrorOf(i))
      BY <1>6, <2>5, BookedMirrors
    <3> HIDE DEF n, m, c, d, N
    <3>5. CASE r \in Reversing(i)
      BY <1>1, <1>2, <1>3, <1>4, <2>1, <2>3, <2>5, <3>1, <3>2, <3>3, <3>4, <3>5
    <3>6. CASE r \notin Reversing(i)
      BY <1>1, <1>2, <1>3, <1>4, <2>1, <2>5, <3>1, <3>2, <3>3, <3>4, <3>6
    <3> QED
      BY <3>5, <3>6
  <2> QED
    BY <2>1, <2>4, <2>5
<1> QED
  BY <1>5, <1>6, JournalMoves

LEMMA InitMirrorInv == Init => MirrorInv
BY DEF Init, LedgerInit, MirrorInv, ReversalSound, Idle

LEMMA StepMirrorInv ==
    ASSUME IInv, EntriesInv, MirrorInv, [Next]_vars
    PROVE  MirrorInv'
<1>1. CASE Next
  BY <1>1, MirrorCountStep, ReversalSoundStep DEF MirrorInv
<1>2. CASE UNCHANGED vars
  BY <1>2 DEF vars, ledger, MirrorInv, MirrorCount, ReversalSound, Entries, SourcedFrom, MirrorOf, Reversing
<1> QED
  BY <1>1, <1>2

\* What is reversed is mirrored, by lines on the other side (MirroredPerOverlap).
LEMMA MirroredHolds ==
    ASSUME IInv, EntriesInv, MirrorInv
    PROVE  MirroredPerOverlap
<1> SUFFICES ASSUME NEW i \in DOMAIN journal
             PROVE  LET mirrors == {m \in DOMAIN journal : journal[m].source = <<"journal_entry", i>>} IN
                    /\ journal[i].status = "reversed" <=> mirrors # {}
                    /\ mirrors # {} => ~journal[i].system /\ journal[i].mirror \in mirrors
                    /\ Cardinality(mirrors) <= Cardinality(Requests)
                    /\ \A m \in mirrors, a \in Accounts :
                          TotalDr({l \in journal[m].lines : l.account = a})
                              = TotalCr({l \in journal[i].lines : l.account = a})
  BY DEF MirroredPerOverlap
<1> DEFINE mirrors == {m \in DOMAIN journal : journal[m].source = <<"journal_entry", i>>}
<1>1. mirrors = SourcedFrom(journal, MirrorOf(i))
  BY DEF SourcedFrom, MirrorOf
<1>2. IsFiniteSet(mirrors) /\ Entries(MirrorOf(i)) = Cardinality(mirrors) /\ Cardinality(mirrors) \in Nat
  BY <1>1, EntriesType
<1>3. Cardinality(Reversing(i)) \in Nat /\ Cardinality(Requests) \in Nat
  BY ReversingCount, LedgerAssumption, FS_CardinalityType
<1>4. MirrorCount(i)
  BY DEF MirrorInv
<1>5. i \in Nat
  BY SeqLength DEF IInv, Shape
<1>6. ASSUME NEW m \in mirrors
      PROVE  journal[i].system = FALSE /\ journal[m].lines = Swapped(journal[i].lines)
  <2>1. OriginIn(journal, journal[m]) /\ journal[m].source = <<"journal_entry", i>>
    BY DEF EntriesInv, Stored
  <2> QED
    BY <1>5, <2>1, MirrorOrigin
<1>7. IsFiniteSet(journal[i].lines) /\ journal[i].lines \subseteq ChartLines
  BY DEF EntriesInv, Stored, Gated, Balanced, ChartLines
<1>8. mirrors # {} <=> Cardinality(mirrors) >= 1
  BY <1>2, FS_EmptySet
<1> HIDE DEF mirrors
<1>9. journal[i].status = "reversed" <=> mirrors # {}
  BY <1>2, <1>4, <1>8 DEF MirrorCount
<1>10. mirrors # {} => ~journal[i].system /\ journal[i].mirror \in mirrors
  BY <1>1, <1>4, <1>6, <1>9 DEF MirrorCount
<1>11. Cardinality(mirrors) <= Cardinality(Requests)
  BY <1>2, <1>3, <1>4 DEF MirrorCount
<1>12. ASSUME NEW m \in mirrors, NEW a \in Accounts
       PROVE  TotalDr({l \in journal[m].lines : l.account = a}) = TotalCr({l \in journal[i].lines : l.account = a})
  <2>1. TotalDr({l \in Swapped(journal[i].lines) : l.account = a}) = TotalCr({l \in journal[i].lines : l.account = a})
    BY <1>7, SwappedLines
  <2>2. journal[m].lines = Swapped(journal[i].lines)
    BY <1>6
  <2> QED
    BY <2>1, <2>2, Zenon
<1> QED
  BY <1>9, <1>10, <1>11, <1>12 DEF mirrors

-----------------------------------------------------------------------------
(* Books: the types *)

BoundsInv ==
    /\ requests \in 0 .. MaxRequests /\ periodMoves \in 0 .. MaxPeriodMoves
    /\ inUse \in Scenarios

LEMMA BoundsStep ==
    ASSUME BoundsInv, [Next]_vars
    PROVE  BoundsInv'
<1>1. /\ requests \in 0 .. MaxRequests /\ periodMoves \in 0 .. MaxPeriodMoves /\ inUse \in Scenarios
      /\ MaxRequests \in Nat /\ MaxPeriodMoves \in Nat
  BY LedgerAssumption DEF BoundsInv
<1>2. UNCHANGED inUse
  BY DEF vars, Next
<1>3. requests' = requests \/ (requests < MaxRequests /\ requests' = requests + 1)
  <2> DEFINE Moved == requests' = requests \/ (requests < MaxRequests /\ requests' = requests + 1)
  <2>1. CASE UNCHANGED vars
    BY <2>1 DEF vars
  <2>2. CASE CreatePayable \/ BillsOverdue \/ CreateReceivable
    BY <2>2 DEF CreatePayable, BillsOverdue, CreateReceivable, CreateBill, CreateSupplierPayment,
                CreateDebitNote, CreateInvoice, CreateCustomerPayment
  <2>3. ASSUME NEW r \in Requests, PayablesStep(r)
        PROVE  Moved
    BY <2>3 DEF PayablesStep, IssueBill, VoidBill, AllocateBill, ReconcileSupplierPayment, CommitBill,
                CommitVoidBill, CommitAllocateBill, CommitReconcile, Enter
  <2>4. ASSUME NEW r \in Requests, ReceivablesStep(r)
        PROVE  Moved
    BY <2>4 DEF ReceivablesStep, IssueInvoice, VoidInvoice, Allocate, Sweep, CommitSweep, FlushInvoice,
                CommitInvoice, CommitVoidInvoice, Apply, CommitAllocation, Enter
  <2>5. ASSUME NEW r \in Requests, LedgerStep(r)
        PROVE  Moved
    BY <2>5 DEF LedgerStep, CreateJournal, ReverseJournal, CommitJournal, CommitReversal, NextEntryNo,
                Rollback, Enter
  <2>6. ASSUME NEW p, ClosePeriod(p) \/ ReopenPeriod(p)
        PROVE  Moved
    BY <2>6 DEF ClosePeriod, ReopenPeriod
  <2> QED
    BY <2>1, <2>2, <2>3, <2>4, <2>5, <2>6 DEF Next
<1>4. periodMoves' = periodMoves \/ (periodMoves < MaxPeriodMoves /\ periodMoves' = periodMoves + 1)
  <2> DEFINE Moved == periodMoves' = periodMoves \/ (periodMoves < MaxPeriodMoves /\ periodMoves' = periodMoves + 1)
  <2>1. CASE UNCHANGED vars
    BY <2>1 DEF vars, ledger
  <2>2. CASE CreatePayable \/ BillsOverdue \/ CreateReceivable
    BY <2>2 DEF CreatePayable, BillsOverdue, CreateReceivable, CreateBill, CreateSupplierPayment,
                CreateDebitNote, CreateInvoice, CreateCustomerPayment, ledger
  <2>3. ASSUME NEW r \in Requests, PayablesStep(r)
        PROVE  Moved
    BY <2>3 DEF PayablesStep, IssueBill, VoidBill, AllocateBill, ReconcileSupplierPayment, CommitBill,
                CommitVoidBill, CommitAllocateBill, CommitReconcile, ledger
  <2>4. ASSUME NEW r \in Requests, ReceivablesStep(r)
        PROVE  Moved
    BY <2>4 DEF ReceivablesStep, IssueInvoice, VoidInvoice, Allocate, Sweep, CommitSweep, FlushInvoice,
                CommitInvoice, CommitVoidInvoice, Apply, CommitAllocation, ledger
  <2>5. ASSUME NEW r \in Requests, LedgerStep(r)
        PROVE  Moved
    BY <2>5 DEF LedgerStep, CreateJournal, ReverseJournal, CommitJournal, CommitReversal, NextEntryNo,
                Rollback, ledger
  <2>6. ASSUME NEW p, ClosePeriod(p) \/ ReopenPeriod(p)
        PROVE  Moved
    BY <2>6 DEF ClosePeriod, ReopenPeriod
  <2> QED
    BY <2>1, <2>2, <2>3, <2>4, <2>5, <2>6 DEF Next
<1>5. requests' \in 0 .. MaxRequests
  BY <1>1, <1>3
<1>6. periodMoves' \in 0 .. MaxPeriodMoves
  BY <1>1, <1>4
<1> QED
  BY <1>1, <1>2, <1>5, <1>6 DEF BoundsInv

LEMMA InitBounds == Init => BoundsInv
BY LedgerAssumption DEF Init, LedgerInit, BoundsInv

LEMMA TypesHold ==
    ASSUME IInv, EntriesInv, PayInv, RecInv, MirrorInv, BoundsInv
    PROVE  TypeOK
<1>1. ASSUME NEW i \in DOMAIN journal
      PROVE  JournalEntryRow(journal[i])
  <2>1. journal[i].voucher \in Vouchers /\ journal[i].date \in Periods
    BY DEF IInv, Shape, EntryOK
  <2>2. journal[i].no \in Nat \ {0} /\ journal[i].status \in {"posted", "reversed"}
    BY DEF EntriesInv, Stored
  <2>3. journal[i].mirror \in 0 .. Len(journal)
    BY DEF MirrorInv, MirrorCount
  <2>4. \A l \in journal[i].lines : JournalLineRow(l)
    <3> TAKE l \in journal[i].lines
    <3>1. l \in [account : Accounts, dr : Nat, cr : Nat] /\ (l.dr = 0) # (l.cr = 0)
      BY DEF EntriesInv, Stored, Gated, Balanced
    <3>2. ~(l.dr > 0 /\ l.cr > 0)
      BY <3>1
    <3> QED
      BY <3>1, <3>2 DEF JournalLineRow
  <2> QED
    BY <2>1, <2>2, <2>3, <2>4 DEF JournalEntryRow
<1>2. LedgerTypeOK
  BY <1>1 DEF LedgerTypeOK, BoundsInv, IInv, Shape
<1>3. PayablesTypeOK
  BY DEF PayablesTypeOK, PayInv, AllocationTyped, IInv, Shape
<1>4. ReceivablesTypeOK
  BY DEF ReceivablesTypeOK, RecInv, AppliedTyped, LostTyped, ReceivablesTyped, IInv, Shape
<1> QED
  BY <1>2, <1>3, <1>4 DEF TypeOK, BoundsInv

\* Allocations stay within totals and amounts unless one has missed another; what is
\* covered is paid and what is paid is covered, up to what overlaps.
LEMMA AllocationsHold ==
    ASSUME PayInv, RecInv, IInv
    PROVE  AllocatedWithin /\ PaidIsCovered
<1>1. AllocatedWithin
  <2>1. ASSUME NEW b \in Bills, sum_allocated(b) > Total[b]
        PROVE  b \in unseen
    <3>1. sum_allocated(b) \in Nat /\ Total[b] \in Nat
      BY SumAllocatedNat, PayablesAssumption DEF PayInv
    <3>2. b \notin unseen => sum_allocated(b) <= Total[b]
      BY DEF PayInv, BillSum
    <3> QED
      BY <2>1, <3>1, <3>2
  <2>2. ASSUME NEW p \in CustomerPayments, sum_allocated_for_payment(p) > Amount[p]
        PROVE  p \in unseenPayment
    <3>1. sum_allocated_for_payment(p) \in Nat /\ Amount[p] \in Nat
      BY SumAppliedNat, ReceivablesAssumption DEF RecInv
    <3>2. p \notin unseenPayment => sum_allocated_for_payment(p) <= Amount[p]
      BY DEF RecInv, CustomerPaymentSum
    <3> QED
      BY <2>2, <3>1, <3>2
  <2> QED
    BY <2>1, <2>2 DEF AllocatedWithin
<1>2. PaidIsCovered
  BY DEF PaidIsCovered, PayInv, BillSum, RecInv, InvoiceSum, Issues
<1> QED
  BY <1>1, <1>2

-----------------------------------------------------------------------------
(* Books: the control accounts are what the documents say *)

\* What an entry moves on the accounts of payables and of receivables.
Paid(d) == IF d \in Bills THEN -Total[d] ELSE IF d \in SupplierPayments THEN Amount[d] ELSE 0
Due(d) == IF d \in Invoices THEN Total[d] ELSE 0

LEMMA ControlLines ==
    ASSUME IInv, EntriesInv, NEW i \in DOMAIN journal
    PROVE  /\ NetOn(journal[i], {"2100"}) = Paid(journal[i].source)
           /\ NetOn(journal[i], {"1100"}) = Due(journal[i].source)
           /\ journal[i].source \in Sources => i \in PostedEntries
<1> DEFINE e == journal[i]
           d == e.source
<1>1. /\ Gated(e) /\ OriginIn(journal, e)
      /\ e.system = TRUE => e.status = "posted"
  BY DEF EntriesInv, Stored
<1>2. CASE d \in Sources
  <2>1. \A j \in DOMAIN journal : d # <<"journal_entry", j>>
    <3>1. d \notin {"journal_entry"} \X Nat
      BY <1>2, BooksAssumption DEF Sources
    <3>2. \A j \in DOMAIN journal : j \in Nat
      BY SeqLength DEF IInv, Shape
    <3> HIDE DEF d
    <3> QED
      BY <3>1, <3>2
  <2>2. d # None
    BY <1>2, BooksAssumption DEF Sources
  <2>3. \/ d \in Bills /\ e.system = TRUE /\ e.lines = BillLines(d)
        \/ d \in SupplierPayments /\ e.system = TRUE /\ e.lines = PaymentLines(d)
        \/ d \in Invoices /\ e.system = TRUE /\ e.lines = InvoiceLines(d)
    BY <1>1, <2>1, <2>2 DEF OriginIn
  <2>4. i \in PostedEntries
    BY <1>1, <2>3 DEF PostedEntries
  <2>5. /\ d \in Bills => d \notin SupplierPayments /\ d \notin Invoices
        /\ d \in SupplierPayments => d \notin Invoices
    BY PayablesAssumption, ReceivablesAssumption
  <2> HIDE DEF d, e
  <2>6. ASSUME d \in Bills, e.lines = BillLines(d)
        PROVE  NetOn(e, {"2100"}) = -Total[d] /\ NetOn(e, {"1100"}) = 0
    <3>1. Total[d] \in Nat /\ "2200" # "2100" /\ IsPair(e, "2200", "2100", Total[d])
      BY <2>6, PayablesAssumption DEF BillLines, IsPair
    <3>2. \A a : NetOn(e, {a}) = IF a = "2200" THEN Total[d] ELSE IF a = "2100" THEN -Total[d] ELSE 0
      BY <3>1, PairNet
    <3>3. NetOn(e, {"2100"}) = -Total[d] /\ NetOn(e, {"1100"}) = 0
      BY <3>2
    <3> QED
      BY <3>1, <3>3
  <2>7. ASSUME d \in SupplierPayments, e.lines = PaymentLines(d)
        PROVE  NetOn(e, {"2100"}) = Amount[d] /\ NetOn(e, {"1100"}) = 0
    <3>1. Amount[d] \in Nat /\ "2100" # "1020" /\ IsPair(e, "2100", "1020", Amount[d])
      BY <2>7, PayablesAssumption DEF PaymentLines, IsPair
    <3>2. \A a : NetOn(e, {a}) = IF a = "2100" THEN Amount[d] ELSE IF a = "1020" THEN -Amount[d] ELSE 0
      BY <3>1, PairNet
    <3>3. NetOn(e, {"2100"}) = Amount[d] /\ NetOn(e, {"1100"}) = 0
      BY <3>2
    <3> QED
      BY <3>1, <3>3
  <2>8. ASSUME d \in Invoices, e.lines = InvoiceLines(d)
        PROVE  NetOn(e, {"2100"}) = 0 /\ NetOn(e, {"1100"}) = Total[d]
    <3>1. Total[d] \in Nat /\ "1100" # "4100" /\ IsPair(e, "1100", "4100", Total[d])
      BY <2>8, ReceivablesAssumption DEF InvoiceLines, IsPair
    <3>2. \A a : NetOn(e, {a}) = IF a = "1100" THEN Total[d] ELSE IF a = "4100" THEN -Total[d] ELSE 0
      BY <3>1, PairNet
    <3>3. NetOn(e, {"2100"}) = 0 /\ NetOn(e, {"1100"}) = Total[d]
      BY <3>2
    <3> QED
      BY <3>1, <3>3
  <2>9. /\ NetOn(e, {"2100"}) = Paid(d)
        /\ NetOn(e, {"1100"}) = Due(d)
    <3>1. CASE d \in Bills
      BY <2>3, <2>5, <2>6, <3>1 DEF Paid, Due
    <3>2. CASE d \in SupplierPayments
      BY <2>3, <2>5, <2>7, <3>2 DEF Paid, Due
    <3>3. CASE d \in Invoices
      BY <2>3, <2>5, <2>8, <3>3 DEF Paid, Due
    <3> QED
      BY <2>3, <3>1, <3>2, <3>3
  <2> QED
    BY <2>4, <2>9 DEF e, d
<1>3. CASE d \notin Sources
  <2>1. e.system = FALSE
    BY <1>1, <1>3 DEF OriginIn, Sources
  <2>2. \A l \in e.lines : l.account \notin {"2100", "1100"}
    BY <1>1, <2>1 DEF Gated, ControlAccounts
  <2>3. LinesOn(e, {"2100"}) = {} /\ LinesOn(e, {"1100"}) = {}
    BY <2>2 DEF LinesOn
  <2>4. NetOn(e, {"2100"}) = 0 /\ NetOn(e, {"1100"}) = 0
    BY <2>3, TotalOfNone DEF NetOn
  <2>5. Paid(d) = 0 /\ Due(d) = 0
    BY <1>3 DEF Paid, Due, Sources
  <2> HIDE DEF d, e
  <2>6. NetOn(e, {"2100"}) = Paid(d) /\ NetOn(e, {"1100"}) = Due(d)
    BY <2>4, <2>5, Zenon
  <2> QED
    BY <1>3, <2>6 DEF d, e
<1> QED
  BY <1>2, <1>3

\* What the entries of some documents move, document by document.
LEMMA DocumentSum ==
    ASSUME IInv, EntriesInv, NEW K \in SUBSET Sources, IsFiniteSet(K),
           NEW w, \A d \in K : w[d] \in Int,
           NEW f, \A i \in PostedEntries : journal[i].source \in K => f[i] = w[journal[i].source]
    PROVE  SumFunctionOnSet(f, {i \in PostedEntries : journal[i].source \in K})
              = SumFunctionOnSet([d \in K |-> Entries(d) * w[d]], K)
<1> DEFINE S == PostedEntries
           key == [i \in DOMAIN journal |-> journal[i].source]
           n == [d \in K |-> SourcedFrom(journal, d)]
           t == [d \in K |-> Entries(d) * w[d]]
           R == {i \in PostedEntries : journal[i].source \in K}
<1>1. IsFiniteSet(S) /\ \A i \in S : key[i] = journal[i].source
  BY Positions, PositionsOfEntries
<1>2. \A d \in K : \A i : i \in n[d] <=> i \in S /\ key[i] = d
  <2> TAKE d \in K
  <2> TAKE i
  <2>1. i \in DOMAIN journal /\ journal[i].source = d => i \in S
    BY ControlLines
  <2> QED
    BY <1>1, <2>1, PositionsOfEntries DEF SourcedFrom
<1>3. \A d \in K : t[d] = Cardinality(n[d]) * w[d]
  BY EntriesType
<1>4. \A i \in S : key[i] \in K => f[i] = w[key[i]]
  BY <1>1
<1>5. R = {i \in S : key[i] \in K}
  BY <1>1
<1> HIDE DEF S, key, n, t, R
<1>6. CountedByKey(S, key, K, n, w, f, t)
  BY <1>2, <1>3, <1>4 DEF CountedByKey
<1>7. SumFunctionOnSet(f, {i \in S : key[i] \in K}) = SumFunctionOnSet(t, K)
  BY <1>1, <1>6, SumByKey
<1> QED
  BY <1>5, <1>7, Zenon DEF t, R

\* What its documents have put on a control account, before it is told apart by what
\* has become of them.
LEMMA ControlBalances ==
    ASSUME IInv, EntriesInv
    PROVE  /\ -Balance("2100") = SumFunctionOnSet([b \in Bills |-> Entries(b) * Total[b]], Bills)
                 - SumFunctionOnSet([p \in SupplierPayments |-> Entries(p) * Amount[p]], SupplierPayments)
           /\ Balance("1100") = SumFunctionOnSet([i \in Invoices |-> Entries(i) * Total[i]], Invoices)
<1> DEFINE Of(K) == {i \in PostedEntries : journal[i].source \in K}
           ap == Nets({"2100"})
           ar == Nets({"1100"})
           back == [b \in Bills |-> Entries(b) * (-Total[b])]
           owed == [b \in Bills |-> Entries(b) * Total[b]]
           paid == [p \in SupplierPayments |-> Entries(p) * Amount[p]]
           due == [i \in Invoices |-> Entries(i) * Total[i]]
<1>1. AllBalanced /\ IsFiniteSet(PostedEntries) /\ PostedEntries \in SUBSET DOMAIN journal
  BY StoredBalanced, Positions, PositionsOfEntries
<1>2. /\ Balance("2100") = SumFunctionOnSet(ap, PostedEntries)
      /\ Balance("1100") = SumFunctionOnSet(ar, PostedEntries)
      /\ Balance("2100") \in Int /\ Balance("1100") \in Int
  BY <1>1, BalanceNet, NetInIs
<1>3. \A i \in PostedEntries : ap[i] = Paid(journal[i].source) /\ ar[i] = Due(journal[i].source)
  BY <1>1, ControlLines DEF Nets
<1>4. /\ IsFiniteSet(Bills) /\ IsFiniteSet(SupplierPayments) /\ IsFiniteSet(Invoices)
      /\ \A b \in Bills : Total[b] \in Int /\ Paid(b) = -Total[b]
      /\ \A p \in SupplierPayments : Amount[p] \in Int /\ Paid(p) = Amount[p]
      /\ \A i \in Invoices : Total[i] \in Int /\ Due(i) = Total[i]
      /\ \A d : d \notin Bills /\ d \notin SupplierPayments => Paid(d) = 0
      /\ \A d : d \notin Invoices => Due(d) = 0
      /\ Bills \cap SupplierPayments = {}
  BY PayablesAssumption, ReceivablesAssumption DEF Paid, Due
<1>5. \A d : Entries(d) \in Nat
  BY EntriesType
<1>6. SumFunctionOnSet(ap, Of(Bills)) = SumFunctionOnSet(back, Bills)
  <2> DEFINE w == [b \in Bills |-> -Total[b]]
             t == [d \in Bills |-> Entries(d) * w[d]]
  <2>1. /\ Bills \in SUBSET Sources
        /\ \A d \in Bills : w[d] \in Int
        /\ \A i \in PostedEntries : journal[i].source \in Bills => ap[i] = w[journal[i].source]
    BY <1>3, <1>4 DEF Sources
  <2>2. t = back
    OBVIOUS
  <2> HIDE DEF w, ap
  <2>3. SumFunctionOnSet(ap, Of(Bills)) = SumFunctionOnSet(t, Bills)
    BY <1>4, <2>1, DocumentSum
  <2> QED
    BY <2>2, <2>3, Zenon
<1>7. SumFunctionOnSet(ap, Of(SupplierPayments)) = SumFunctionOnSet(paid, SupplierPayments)
  <2>1. /\ SupplierPayments \in SUBSET Sources
        /\ \A d \in SupplierPayments : Amount[d] \in Int
        /\ \A i \in PostedEntries :
              journal[i].source \in SupplierPayments => ap[i] = Amount[journal[i].source]
    BY <1>3, <1>4 DEF Sources
  <2> HIDE DEF ap
  <2> QED
    BY <1>4, <2>1, DocumentSum
<1>8. SumFunctionOnSet(ar, Of(Invoices)) = SumFunctionOnSet(due, Invoices)
  <2>1. /\ Invoices \in SUBSET Sources
        /\ \A d \in Invoices : Total[d] \in Int
        /\ \A i \in PostedEntries : journal[i].source \in Invoices => ar[i] = Total[journal[i].source]
    BY <1>3, <1>4 DEF Sources
  <2> HIDE DEF ar
  <2> QED
    BY <1>4, <2>1, DocumentSum
<1>9. \A i \in PostedEntries :
         /\ ap[i] \in Int /\ ar[i] \in Int
         /\ i \notin Of(Bills) /\ i \notin Of(SupplierPayments) => ap[i] = 0
         /\ i \notin Of(Invoices) => ar[i] = 0
  <2> TAKE i \in PostedEntries
  <2>1. Nets({"2100"})[i] \in Int /\ Nets({"1100"})[i] \in Int
    BY <1>1, TotalType, BalancedLines DEF AllBalanced, Nets
  <2> QED
    BY <1>3, <1>4, <2>1
<1>10. /\ Of(Bills) \in SUBSET PostedEntries /\ Of(SupplierPayments) \in SUBSET PostedEntries
       /\ Of(Invoices) \in SUBSET PostedEntries
       /\ Of(Bills) \cap Of(SupplierPayments) = {}
  BY <1>4
<1> HIDE DEF Of, ap, ar
<1>11. /\ IsFiniteSet(Of(Bills)) /\ IsFiniteSet(Of(SupplierPayments))
       /\ SumFunctionOnSet(ap, PostedEntries) = SumFunctionOnSet(ap, Of(Bills) \union Of(SupplierPayments))
       /\ SumFunctionOnSet(ar, PostedEntries) = SumFunctionOnSet(ar, Of(Invoices))
  <2> DEFINE both == Of(Bills) \union Of(SupplierPayments)
  <2>1. both \in SUBSET PostedEntries /\ (\A i \in both : ap[i] \in Int)
        /\ (\A i \in PostedEntries \ both : ap[i] = 0)
    BY <1>9, <1>10
  <2>2. \A i \in Of(Invoices) : ar[i] \in Int
    BY <1>9, <1>10
  <2>3. \A i \in PostedEntries \ Of(Invoices) : ar[i] = 0
    BY <1>9
  <2> HIDE DEF both
  <2>4. SumFunctionOnSet(ap, PostedEntries) = SumFunctionOnSet(ap, both)
    BY <1>1, <2>1, SumSupport
  <2>5. SumFunctionOnSet(ar, PostedEntries) = SumFunctionOnSet(ar, Of(Invoices))
    BY <1>1, <1>10, <2>2, <2>3, SumSupport
  <2> QED
    BY <1>1, <1>10, <2>4, <2>5, FS_Subset DEF both
<1>12. SumFunctionOnSet(ap, Of(Bills) \union Of(SupplierPayments))
          = SumFunctionOnSet(ap, Of(Bills)) + SumFunctionOnSet(ap, Of(SupplierPayments))
  <2>1. \A i \in Of(Bills) \union Of(SupplierPayments) : ap[i] \in Int
    BY <1>9, <1>10
  <2> QED
    BY <1>10, <1>11, <2>1, SumUnion
<1>13. /\ \A b \in Bills : /\ owed[b] \in Int /\ back[b] \in Int /\ 0 = owed[b] + back[b]
       /\ \A p \in SupplierPayments : paid[p] \in Int
  BY <1>4, <1>5
<1> HIDE DEF owed, back, paid, due
<1>14. /\ SumFunctionOnSet(owed, Bills) + SumFunctionOnSet(back, Bills) = 0
       /\ SumFunctionOnSet(owed, Bills) \in Int /\ SumFunctionOnSet(back, Bills) \in Int
       /\ SumFunctionOnSet(paid, SupplierPayments) \in Int
  <2> DEFINE z == [b \in Bills |-> 0]
  <2>1. /\ \A b \in Bills : z[b] = 0
        /\ \A b \in Bills : owed[b] \in Int /\ back[b] \in Int /\ z[b] = owed[b] + back[b]
    BY <1>13
  <2> HIDE DEF z
  <2>2. SumFunctionOnSet(z, Bills) = 0
    BY <1>4, <2>1, SumZero
  <2>3. SumFunctionOnSet(z, Bills) = SumFunctionOnSet(owed, Bills) + SumFunctionOnSet(back, Bills)
    BY <1>4, <2>1, SumPlus
  <2> QED
    BY <1>4, <1>13, <2>2, <2>3, SumType
<1>15. -Balance("2100") = SumFunctionOnSet(owed, Bills) - SumFunctionOnSet(paid, SupplierPayments)
  BY <1>2, <1>6, <1>7, <1>11, <1>12, <1>14
<1>16. Balance("1100") = SumFunctionOnSet(due, Invoices)
  BY <1>2, <1>8, <1>11
<1> QED
  BY <1>15, <1>16 DEF owed, paid, due

LEMMA PayablesControlHolds ==
    ASSUME IInv, EntriesInv, PayInv
    PROVE  PayablesControl
<1> DEFINE counted == {b \in Bills : bill[b] \in {"issued", "overdue", "paid"}}
           void    == {b \in Bills : bill[b] = "void"}
           cleared == {p \in SupplierPayments : payment[p] = "cleared"}
           owed    == [b \in Bills |-> Entries(b) * Total[b]]
           paid    == [p \in SupplierPayments |-> Entries(p) * Amount[p]]
           more    == [b \in counted |-> (Entries(b) - 1) * Total[b]]
           voided  == [b \in void |-> Entries(b) * Total[b]]
           once    == [p \in cleared |-> Entries(p) * Amount[p]]
<1>1. (\A d : Entries(d) \in Nat) /\ IsFiniteSet(Requests) /\ Cardinality(Requests) \in Nat
  BY EntriesType, LedgerAssumption, FS_CardinalityType
<1>2. /\ IsFiniteSet(Bills) /\ IsFiniteSet(SupplierPayments)
      /\ \A b \in Bills : Total[b] \in Int
      /\ \A p \in SupplierPayments : Amount[p] \in Int
  BY PayablesAssumption
<1>3. \A b \in Bills :
         /\ Entries(b) <= Cardinality(Requests)
         /\ b \in counted => Entries(b) >= 1
         /\ b \notin counted /\ b \notin void => Entries(b) = 0
  <2> TAKE b \in Bills
  <2>1. Cardinality(Issuing(b)) \in Nat
    BY IssuingCount
  <2>2. bill[b] \in BillStatus
    BY DEF IInv, Shape
  <2>3. BillCount(b)
    BY DEF PayInv
  <2> QED
    BY <1>1, <2>1, <2>2, <2>3 DEF BillCount, BillStatus
<1>4. \A p \in SupplierPayments :
         /\ Entries(p) <= Cardinality(Requests)
         /\ p \in cleared <=> Entries(p) >= 1
  <2> TAKE p \in SupplierPayments
  <2>1. Cardinality(Issuing(p)) \in Nat
    BY IssuingCount
  <2>2. PaymentCount(p)
    BY DEF PayInv
  <2> QED
    BY <1>1, <2>1, <2>2 DEF PaymentCount
<1>5. /\ \A b \in Bills : owed[b] \in Int /\ (b \notin counted /\ b \notin void => owed[b] = 0)
      /\ \A b \in counted : more[b] \in Int /\ owed[b] = Total[b] + more[b]
      /\ \A b \in void : voided[b] \in Int /\ owed[b] = voided[b]
      /\ \A p \in SupplierPayments : paid[p] \in Int /\ (p \notin cleared => paid[p] = 0)
      /\ \A p \in cleared : once[p] \in Int /\ paid[p] = once[p]
  <2>1. ASSUME NEW b \in Bills
        PROVE  /\ owed[b] \in Int /\ (b \notin counted /\ b \notin void => owed[b] = 0)
               /\ Entries(b) * Total[b] \in Int /\ (Entries(b) - 1) * Total[b] \in Int
               /\ Entries(b) * Total[b] = Total[b] + (Entries(b) - 1) * Total[b]
    <3>1. Entries(b) \in Int /\ Total[b] \in Int
      BY <1>1, <1>2
    <3>2. \A e, t \in Int : /\ e * t \in Int /\ (e - 1) * t \in Int /\ e * t = t + (e - 1) * t
                            /\ e = 0 => e * t = 0
      OBVIOUS
    <3> QED
      BY <1>3, <3>1, <3>2
  <2>2. ASSUME NEW p \in SupplierPayments
        PROVE  paid[p] \in Int /\ (p \notin cleared => paid[p] = 0)
    <3>1. Entries(p) \in Nat /\ Amount[p] \in Int /\ (p \notin cleared => Entries(p) = 0)
      BY <1>1, <1>2, <1>4
    <3> QED
      BY <3>1
  <2>3. \A p \in cleared : once[p] = paid[p]
    OBVIOUS
  <2> QED
    BY <2>1, <2>2, <2>3
<1>6. /\ counted \in SUBSET Bills /\ void \in SUBSET Bills /\ cleared \in SUBSET SupplierPayments
      /\ IsFiniteSet(counted) /\ IsFiniteSet(void) /\ IsFiniteSet(cleared)
      /\ counted \cap void = {}
      /\ DOMAIN more = counted /\ DOMAIN voided = void /\ DOMAIN once = cleared
  <2>1. counted \in SUBSET Bills /\ void \in SUBSET Bills /\ cleared \in SUBSET SupplierPayments
    OBVIOUS
  <2> QED
    BY <1>2, <2>1, FS_Subset
<1>7. -Balance("2100") = SumFunctionOnSet(owed, Bills) - SumFunctionOnSet(paid, SupplierPayments)
  BY ControlBalances
<1>8. \A b \in counted : Entries(b) \in 1 .. Cardinality(Requests)
  BY <1>1, <1>3
<1>9. \A b \in void : Entries(b) <= Cardinality(Requests)
  BY <1>3
<1>10. \A p \in cleared : Entries(p) \in 1 .. Cardinality(Requests)
  BY <1>1, <1>4
<1>11. -Balance("2100") = SumFunctionOnSet(Total, counted) + SumFunction(more) + SumFunction(voided)
                             - SumFunction(once)
  <2> HIDE DEF counted, void, cleared, owed, paid, more, voided, once
  <2>1. SumFunctionOnSet(owed, Bills) = SumFunctionOnSet(owed, counted \union void)
    <3>1. (\A b \in counted \union void : owed[b] \in Int) /\ counted \union void \in SUBSET Bills
          /\ \A b \in Bills \ (counted \union void) : owed[b] = 0
      BY <1>5, <1>6
    <3> QED
      BY <1>2, <3>1, SumSupport
  <2>2. SumFunctionOnSet(owed, counted \union void)
           = SumFunctionOnSet(owed, counted) + SumFunctionOnSet(owed, void)
    <3>1. \A b \in counted \union void : owed[b] \in Int
      BY <1>5, <1>6
    <3> QED
      BY <1>6, <3>1, SumUnion
  <2>3. /\ SumFunctionOnSet(owed, counted) = SumFunctionOnSet(Total, counted) + SumFunctionOnSet(more, counted)
        /\ SumFunctionOnSet(Total, counted) \in Int /\ SumFunctionOnSet(more, counted) \in Int
    <3>1. /\ \A b \in counted : Total[b] \in Int /\ more[b] \in Int /\ owed[b] = Total[b] + more[b]
      BY <1>2, <1>5, <1>6
    <3> QED
      BY <1>6, <3>1, SumPlus, SumType
  <2>4. SumFunctionOnSet(owed, void) = SumFunctionOnSet(voided, void) /\ SumFunctionOnSet(voided, void) \in Int
    <3>1. \A b \in void : voided[b] \in Int /\ owed[b] = voided[b]
      BY <1>5
    <3> QED
      BY <1>6, <3>1, SumSame, SumType
  <2>5. SumFunctionOnSet(paid, SupplierPayments) = SumFunctionOnSet(once, cleared)
        /\ SumFunctionOnSet(once, cleared) \in Int
    <3>1. /\ \A p \in cleared : once[p] \in Int /\ paid[p] = once[p] /\ paid[p] \in Int
          /\ \A p \in SupplierPayments \ cleared : paid[p] = 0
      BY <1>5, <1>6
    <3>2. SumFunctionOnSet(paid, SupplierPayments) = SumFunctionOnSet(paid, cleared)
      BY <1>2, <1>6, <3>1, SumSupport
    <3>3. SumFunctionOnSet(paid, cleared) = SumFunctionOnSet(once, cleared)
      BY <1>6, <3>1, SumSame
    <3> QED
      BY <1>6, <3>1, <3>2, <3>3, SumType
  <2>6. /\ SumFunction(more) = SumFunctionOnSet(more, counted)
        /\ SumFunction(voided) = SumFunctionOnSet(voided, void)
        /\ SumFunction(once) = SumFunctionOnSet(once, cleared)
    BY <1>6 DEF SumFunction
  <2> QED
    BY <1>7, <2>1, <2>2, <2>3, <2>4, <2>5, <2>6
<1> QED
  BY <1>3, <1>8, <1>9, <1>10, <1>11 DEF PayablesControl

LEMMA ReceivablesControlHolds ==
    ASSUME IInv, EntriesInv, RecInv
    PROVE  ReceivablesControl
<1> DEFINE counted == {i \in Invoices : invoice[i] \in {"issued", "overdue", "paid"}}
           due     == [i \in Invoices |-> Entries(i) * Total[i]]
           revenue == [i \in Invoices |-> IF i \in counted THEN Total[i] ELSE 0]
           more    == [i \in Invoices |-> (Entries(i) - (IF i \in counted THEN 1 ELSE 0)) * Total[i]]
<1>1. /\ IsFiniteSet(Invoices) /\ counted \in SUBSET Invoices /\ IsFiniteSet(counted)
      /\ DOMAIN more = Invoices
  <2>1. counted \in SUBSET Invoices
    OBVIOUS
  <2> QED
    BY <2>1, ReceivablesAssumption, FS_Subset
<1>2. \A i \in Invoices : due[i] \in Int /\ revenue[i] \in Int /\ more[i] \in Int
                             /\ due[i] = revenue[i] + more[i]
  <2> TAKE i \in Invoices
  <2>1. Entries(i) \in Int /\ Total[i] \in Int
    BY EntriesType, ReceivablesAssumption
  <2>2. \A e, t \in Int : e * t \in Int /\ (e - 1) * t \in Int /\ e * t = t + (e - 1) * t /\ (e - 0) * t = e * t
    OBVIOUS
  <2> HIDE DEF counted
  <2> QED
    BY <2>1, <2>2
<1>3. /\ \A i \in counted : revenue[i] = Total[i] /\ revenue[i] \in Int
      /\ \A i \in Invoices \ counted : revenue[i] = 0
  BY <1>2
<1>4. total_revenue = SumFunctionOnSet(Total, counted)
  <2>1. {i \in Invoices : invoice[i] \in {"issued", "paid", "overdue"}} = counted
    OBVIOUS
  <2> QED
    BY <2>1, Zenon DEF total_revenue
<1>5. ASSUME NEW i \in Invoices
      PROVE  /\ i \in counted => Entries(i) + lost[i] \in 1 .. Cardinality(Requests)
             /\ invoice[i] = "draft" => Entries(i) = 0
  <2>1. /\ Issues(i) + Cardinality(Issuing(i)) <= Cardinality(Requests)
        /\ invoice[i] \in {"none", "draft"} => Issues(i) = 0
        /\ i \in counted => Issues(i) >= 1
    BY DEF RecInv, InvoiceCount
  <2>2. Issues(i) = Entries(i) + lost[i] /\ Entries(i) \in Nat /\ lost[i] \in Nat
    BY IssuesType DEF RecInv, Issues
  <2>3. Cardinality(Issuing(i)) \in Nat /\ Cardinality(Requests) \in Nat
    BY IssuingCount, LedgerAssumption, FS_CardinalityType
  <2>4. invoice[i] = "draft" => Issues(i) = 0
    BY <2>1
  <2> HIDE DEF counted
  <2> QED
    BY <2>1, <2>2, <2>3, <2>4
<1>6. Balance("1100") = SumFunctionOnSet(due, Invoices)
  BY ControlBalances
<1>7. Balance("1100") = total_revenue + SumFunction(more)
  <2> HIDE DEF counted, due, revenue, more
  <2>1. SumFunctionOnSet(due, Invoices) = SumFunctionOnSet(revenue, Invoices) + SumFunctionOnSet(more, Invoices)
    BY <1>1, <1>2, SumPlus
  <2>2. SumFunctionOnSet(revenue, Invoices) = SumFunctionOnSet(revenue, counted)
    BY <1>1, <1>3, SumSupport
  <2>3. SumFunctionOnSet(revenue, counted) = SumFunctionOnSet(Total, counted)
    BY <1>1, <1>3, SumSame
  <2>4. SumFunction(more) = SumFunctionOnSet(more, Invoices)
    BY <1>1 DEF SumFunction
  <2> QED
    BY <1>4, <1>6, <2>1, <2>2, <2>3, <2>4
<1> QED
  BY <1>5, <1>7 DEF ReceivablesControl

-----------------------------------------------------------------------------
(* Books: all together *)

\* Entries are what they were made from, documents and mirrors are booked no more
\* often than requests overlap, and allocations know a sum that has only grown.
BooksInv == IInv /\ EntriesInv /\ PayInv /\ RecInv /\ MirrorInv /\ BoundsInv

\* In every reachable state, for any documents, amounts, periods, manual entries and
\* requests.
THEOREM BooksInvariance == Spec => []BooksInv
<1>1. Init => BooksInv
  BY InitIInv, InitEntriesInv, InitPayInv, InitRecInv, InitMirrorInv, InitBounds DEF BooksInv
<1>2. BooksInv /\ [Next]_vars => BooksInv'
  BY StepIInv, StepEntriesInv, StepPayInv, StepRecInv, StepMirrorInv, BoundsStep DEF BooksInv
<1> QED
  BY <1>1, <1>2, PTL DEF Spec

\* PostingService, the bill, payment and invoice services and the reports: entries
\* balance and are mirrored once per overlapping request, the statements agree, the
\* control accounts are what the documents say, the documents what is allocated to
\* them, and the ageing reports what is outstanding.
THEOREM BooksSoundness == Spec => []BooksAgree
<1>1. BooksInv => BooksAgree
  <2> SUFFICES ASSUME BooksInv PROVE BooksAgree
    OBVIOUS
  <2>1. AllBalanced
    BY StoredBalanced DEF BooksInv
  <2>2. LedgerTies
    BY <2>1, TypesHold, TrialBalancesHolds, MirroredHolds, BalanceSheetTiesHolds, ReportsDifferHolds
       DEF LedgerTies, BooksInv
  <2>3. SubledgersAgree
    BY PayablesControlHolds, ReceivablesControlHolds, AllocationsHold, AgeingAddsUpHolds
       DEF SubledgersAgree, BooksInv
  <2> QED
    BY <2>2, <2>3 DEF BooksAgree
<1> QED
  BY <1>1, BooksInvariance, PTL
=============================================================================

--------------------------- MODULE BalancesProofs ---------------------------
(***************************************************************************)
(* Proofs about Balances, for every set of accounts, every modulus, every  *)
(* content of the chain and every set of values: typing, the permanence of *)
(* BalanceBefore under shared cells, the agreement of record and cache,    *)
(* the absence of overdrafts, and the exactness of the balances that no    *)
(* failed request, SELFDESTRUCT or revert reached.                         *)
(***************************************************************************)
EXTENDS Balances, FiniteSetTheorems, TLAPS

-----------------------------------------------------------------------------
\* A cell is determined by its kind and account, and Nil is none of them.
LEMMA CellFacts ==
    /\ \A k \in {"fetched", "after", "zero", "value"}, a \in Addr :
           At(k, a) \in Cell /\ At(k, a) # Nil
    /\ \A k, l \in {"fetched", "after", "zero", "value"}, a, b \in Addr :
           At(k, a) = At(l, b) => k = l /\ a = b
    /\ \A c \in Cell : c = At(c.kind, c.addr)
<1>1. \A k \in {"fetched", "after", "zero", "value"}, a \in Addr : At(k, a) \in Cell
  BY DEF Cell, At
<1>2. Nil \notin Cell
  BY BalanceAssumption
<1>3. ASSUME NEW k, NEW l, NEW a, NEW b, At(k, a) = At(l, b)
      PROVE  k = l /\ a = b
  <2>1. At(k, a).kind = k /\ At(k, a).addr = a /\ At(l, b).kind = l /\ At(l, b).addr = b
    BY DEF At
  <2> QED
    BY <1>3, <2>1
<1>4. \A c \in Cell : c = At(c.kind, c.addr)
  BY DEF Cell, At
<1> QED
  BY <1>1, <1>2, <1>3, <1>4

\* Arithmetic modulo Modulus stays in range.
LEMMA AmountClosed ==
    ASSUME NEW x \in Amount, NEW y \in Amount
    PROVE  (x - y) % Modulus \in Amount /\ (x + y) % Modulus \in Amount
<1>1. Modulus \in Nat /\ Modulus > 0 /\ x \in Int /\ y \in Int
  BY BalanceAssumption DEF Amount
<1>2. \A n \in Int : n % Modulus \in 0 .. Modulus - 1
  BY <1>1
<1> QED
  BY <1>1, <1>2 DEF Amount

\* What GetBalance answers, and what is then in the cell.
LEMMA GetBalanceFacts ==
    ASSUME TypeOK, Pointers, Cells, NEW a \in Addr, NEW ok \in BOOLEAN
    PROVE  /\ GetBalance(a, ok) \in Cell
           /\ GetBalance(a, ok) # Nil
           /\ heap[GetBalance(a, ok)] \in Amount
           /\ cache[a] # Nil => GetBalance(a, ok) = cache[a]
           /\ cache[a] = Nil => heap[GetBalance(a, ok)] = IF ok THEN Chain[a] ELSE 0
           /\ View(a) \in Amount
           /\ cache[a] = Nil => after[a] = Nil
<1>1. At("fetched", a) \in Cell /\ At("zero", a) \in Cell /\ At("after", a) \in Cell
      /\ At("fetched", a) # Nil /\ At("zero", a) # Nil /\ At("after", a) # Nil
  BY CellFacts
<1>2. GetBalance(a, ok) \in Cell /\ GetBalance(a, ok) # Nil
  BY <1>1 DEF GetBalance, TypeOK
<1>3. cache[a] = Nil => heap[GetBalance(a, ok)] = IF ok THEN Chain[a] ELSE 0
  BY DEF GetBalance, Cells
<1>4. View(a) \in Amount
  BY BalanceAssumption DEF View, TypeOK
<1>5. cache[a] = Nil => after[a] = Nil
  BY <1>1 DEF Pointers
<1> QED
  BY <1>2, <1>3, <1>4, <1>5 DEF GetBalance, TypeOK

\* What a write of one account does: it reaches no cell but the account's own
\* BalanceAfter, and keeps the pointers as Pointers describes them.
LEMMA RecordFacts ==
    ASSUME TypeOK, Pointers, Cells, NEW a \in Addr, NEW ok \in BOOLEAN,
           NEW amount \in Amount, Record(a, ok, amount), NoteFailure(a, ok)
    PROVE  /\ heap' \in [Cell -> Amount]
           /\ cache' \in [Addr -> Cell \cup {Nil}]
           /\ before' \in [Addr -> Cell \cup {Nil}]
           /\ after' \in [Addr -> Cell \cup {Nil}]
           /\ failed' \subseteq Addr
           /\ \A c \in Cell : c # At("after", a) => heap'[c] = heap[c]
           /\ cache'[a] = At("after", a) /\ heap'[At("after", a)] = amount
           /\ after'[a] = At("after", a)
           /\ \A b \in Addr \ {a} :
                  /\ cache'[b] = cache[b] /\ after'[b] = after[b] /\ before'[b] = before[b]
                  /\ View(b)' = View(b)
                  /\ b \in failed' <=> b \in failed
           /\ View(a)' = amount
           /\ failed \subseteq failed'
           /\ a \notin failed' /\ cache[a] = Nil => ok
           /\ Pointers'
           /\ Cells'
<1> DEFINE current == GetBalance(a, ok)
<1>1. current \in Cell /\ current # Nil
  BY GetBalanceFacts
<1>2. At("after", a) \in Cell /\ At("after", a) # Nil
  BY CellFacts
<1>3. /\ heap' = [heap EXCEPT ![At("after", a)] = amount]
      /\ before' = [before EXCEPT ![a] = IF @ = Nil THEN current ELSE @]
      /\ after' = [after EXCEPT ![a] = At("after", a)]
      /\ cache' = [cache EXCEPT ![a] = At("after", a)]
      /\ failed' = failed \cup {b \in {a} : cache[b] = Nil /\ ~ok}
  BY DEF Record, NoteFailure
<1>4. /\ heap' \in [Cell -> Amount]
      /\ cache' \in [Addr -> Cell \cup {Nil}]
      /\ before' \in [Addr -> Cell \cup {Nil}]
      /\ after' \in [Addr -> Cell \cup {Nil}]
      /\ failed' \subseteq Addr
  BY <1>1, <1>2, <1>3 DEF TypeOK
<1>5. \A c \in Cell : c # At("after", a) => heap'[c] = heap[c]
  BY <1>3 DEF TypeOK
<1>6. cache'[a] = At("after", a) /\ heap'[At("after", a)] = amount /\ after'[a] = At("after", a)
  BY <1>2, <1>3 DEF TypeOK
<1>7. View(a)' = amount
  BY <1>2, <1>6 DEF View
<1>8. failed \subseteq failed' /\ (a \notin failed' /\ cache[a] = Nil => ok)
  BY <1>3
<1>9. \A b \in Addr \ {a} :
         /\ cache'[b] = cache[b] /\ after'[b] = after[b] /\ before'[b] = before[b]
         /\ b \in failed' <=> b \in failed
  BY <1>3 DEF TypeOK
<1>10. \A b \in Addr \ {a} : View(b)' = View(b)
  <2> SUFFICES ASSUME NEW b \in Addr \ {a} PROVE View(b)' = View(b)
    OBVIOUS
  <2>1. cache[b] # At("after", a)
    <3>1. cache[b] \in {Nil, At("fetched", b), At("after", b)}
      BY DEF Pointers
    <3> QED
      BY <3>1, CellFacts
  <2>2. cache[b] # Nil => heap'[cache[b]] = heap[cache[b]]
    BY <2>1, <1>5 DEF TypeOK
  <2> QED
    BY <2>2, <1>9 DEF View
<1>11. Cells'
  BY <1>5, CellFacts DEF Cells
<1>12. Pointers'
  <2> SUFFICES ASSUME NEW b \in Addr
               PROVE  /\ cache'[b] \in IF after'[b] = Nil THEN {Nil, At("fetched", b)}
                                                        ELSE {At("after", b)}
                      /\ after'[b] \in {Nil, At("after", b)}
                      /\ before'[b] = Nil <=> after'[b] = Nil
                      /\ before'[b] # Nil =>
                           before'[b] = At(IF b \in failed' THEN "zero" ELSE "fetched", b)
                      /\ b \in failed' => before'[b] # Nil
    BY DEF Pointers
  <2>1. CASE b # a
    BY <2>1, <1>9 DEF Pointers
  <2>2. CASE b = a
    <3>1. before[a] # Nil =>
            before'[a] = before[a] /\ after[a] # Nil /\ cache[a] # Nil /\ (a \in failed' <=> a \in failed)
      BY <1>3, CellFacts DEF Pointers, TypeOK
    <3>2. before[a] = Nil => before'[a] = current /\ after[a] = Nil
      BY <1>3 DEF Pointers, TypeOK
    <3>3. after[a] = Nil => cache[a] \in {Nil, At("fetched", a)}
      BY DEF Pointers
    <3>4. before[a] = Nil =>
            before'[a] = At(IF a \in failed' THEN "zero" ELSE "fetched", a)
      BY <1>3, <3>2, <3>3, CellFacts DEF GetBalance, Pointers
    <3> QED
      BY <1>1, <1>2, <1>6, <2>2, <3>1, <3>2, <3>4 DEF Pointers
  <2> QED
    BY <2>1, <2>2
<1> QED
  BY <1>4, <1>5, <1>6, <1>7, <1>8, <1>9, <1>10, <1>11, <1>12

\* Initially no pointer is set and no call is pending.
LEMMA BalanceInvInit == Init => BalanceInv
<1> SUFFICES ASSUME Init PROVE BalanceInv
  OBVIOUS
<1>1. TypeOK
  <2>1. \A c \in Cell : heap[c] \in Amount
    BY BalanceAssumption DEF Init, Amount, Cell
  <2> QED
    BY <2>1, BalanceAssumption DEF Init, None, TypeOK
<1>2. Pointers
  BY DEF Init, None, Pointers
<1>3. Cells
  <2>1. \A a \in Addr : At("fetched", a) \in Cell /\ At("zero", a) \in Cell
    BY CellFacts
  <2> QED
    BY <2>1 DEF Init, Cells, At
<1>4. BalancesExact
  BY DEF Init, None, BalancesExact, View
<1> QED
  BY <1>1, <1>2, <1>3, <1>4 DEF Init, SubCovered, AddDue, BalanceInv

\* A fetched balance that is put in the cache changes no balance and breaks no
\* pointer.
LEMMA CachingFacts ==
    ASSUME TypeOK, Pointers, Cells, NEW a \in Addr, NEW ok \in BOOLEAN,
           cache' = GetBalanceCache(a, ok)
    PROVE  /\ cache' \in [Addr -> Cell \cup {Nil}]
           /\ \A b \in Addr :
                  cache'[b] \in IF after[b] = Nil THEN {Nil, At("fetched", b)} ELSE {At("after", b)}
           /\ \A b \in Addr :
                  View(b) = IF cache'[b] = Nil THEN Chain[b] ELSE heap[cache'[b]]
           /\ ok \/ cache[a] # Nil => cache'[a] = GetBalance(a, ok)
           /\ ~ok => cache' = cache
<1>1. /\ At("fetched", a) \in Cell
      /\ At("fetched", a) # Nil
      /\ \A b \in Addr : At("after", b) # Nil
  BY CellFacts
<1>2. cache' = [cache EXCEPT ![a] = IF @ = Nil /\ ok THEN At("fetched", a) ELSE @]
  BY DEF GetBalanceCache
<1>3. cache' \in [Addr -> Cell \cup {Nil}]
  BY <1>1, <1>2 DEF TypeOK
<1>4. \A b \in Addr :
        cache'[b] \in IF after[b] = Nil THEN {Nil, At("fetched", b)} ELSE {At("after", b)}
  BY <1>1, <1>2 DEF Pointers, TypeOK
<1>5. \A b \in Addr : View(b) = IF cache'[b] = Nil THEN Chain[b] ELSE heap[cache'[b]]
  BY <1>1, <1>2 DEF View, Cells, TypeOK
<1>6. ok \/ cache[a] # Nil => cache'[a] = GetBalance(a, ok)
  BY <1>2 DEF GetBalance, TypeOK
<1>7. ~ok => cache' = cache
  BY <1>2 DEF TypeOK
<1> QED
  BY <1>3, <1>4, <1>5, <1>6, <1>7

LEMMA ReadBalanceInv ==
    ASSUME BalanceInv, NEW a \in Addr, NEW ok \in BOOLEAN, ReadBalance(a, ok)
    PROVE  BalanceInv'
<1>1. TypeOK /\ Pointers /\ Cells /\ SubCovered /\ AddDue /\ BalancesExact
  BY DEF BalanceInv
<1>2. /\ cache' = GetBalanceCache(a, ok) /\ sub = Nil /\ add = Nil
      /\ UNCHANGED <<heap, before, after, sub, add, ledger, journal, failed, heirs, undone>>
  BY DEF ReadBalance, Idle, ledgerVars
<1>3. TypeOK'
  BY <1>1, <1>2, CachingFacts DEF TypeOK
<1>4. Pointers'
  BY <1>1, <1>2, CachingFacts DEF Pointers
<1>5. Cells' /\ SubCovered' /\ AddDue'
  BY <1>1, <1>2 DEF Cells, SubCovered, AddDue
<1>6. \A b \in Addr : View(b)' = View(b)
  BY <1>1, <1>2, CachingFacts DEF View
<1>7. BalancesExact'
  BY <1>1, <1>2, <1>6 DEF BalancesExact
<1> QED
  BY <1>3, <1>4, <1>5, <1>7 DEF BalanceInv

LEMMA TouchInv ==
    ASSUME BalanceInv, NEW a \in Addr, Touch(a)
    PROVE  BalanceInv'
<1>1. TypeOK /\ Pointers /\ Cells /\ SubCovered /\ AddDue /\ BalancesExact
  BY DEF BalanceInv
<1>2. /\ sub = Nil /\ add' = [addr |-> a, amount |-> At("zero", a), due |-> 0]
      /\ UNCHANGED <<heap, cache, before, after, sub, ledger, journal, failed, heirs, undone>>
  BY DEF Touch, Idle, dbVars, ledgerVars
<1>3. At("zero", a) \in Cell /\ At("zero", a).kind = "zero" /\ heap[At("zero", a)] = 0
  BY <1>1, CellFacts DEF At, Cells
<1>4. 0 \in Amount
  BY BalanceAssumption DEF Amount
<1>5. add' \in Call
  BY <1>2, <1>3, <1>4 DEF Call
<1>6. TypeOK'
  BY <1>1, <1>2, <1>5 DEF TypeOK
<1>7. AddDue'
  BY <1>2, <1>3 DEF AddDue
<1>8. Pointers' /\ Cells' /\ SubCovered' /\ BalancesExact'
  BY <1>1, <1>2 DEF Pointers, Cells, SubCovered, BalancesExact, View
<1> QED
  BY <1>6, <1>7, <1>8 DEF BalanceInv

\* A transfer that passed its check writes the value to a cell of its own and changes
\* no balance.
LEMMA TransferFacts ==
    ASSUME TypeOK, Pointers, Cells, NEW from \in Addr, NEW to \in Addr, NEW v \in Values,
           NEW ok \in BOOLEAN, Transfer(from, to, v, ok)
    PROVE  /\ cache' \in [Addr -> Cell \cup {Nil}]
           /\ \A b \in Addr :
                  cache'[b] \in IF after[b] = Nil THEN {Nil, At("fetched", b)} ELSE {At("after", b)}
           /\ \A d \in Cell : d.kind # "value" => heap'[d] = heap[d]
           /\ heap' \in [Cell -> Amount] /\ heap'[At("value", from)] = v
           /\ \A b \in Addr : cache'[b] # Nil => heap'[cache'[b]] = heap[cache'[b]]
           /\ \A b \in Addr : View(b)' = View(b)
<1> DEFINE c == At("value", from)
<1>1. /\ cache' = IF v = 0 THEN cache ELSE GetBalanceCache(from, ok)
      /\ heap' = [heap EXCEPT ![c] = v]
      /\ UNCHANGED <<before, after>>
  BY DEF Transfer
<1>2. c \in Cell /\ c.kind = "value" /\ v \in Amount
  BY CellFacts, BalanceAssumption DEF At
<1>3. cache' \in [Addr -> Cell \cup {Nil}]
  BY <1>1, CachingFacts DEF TypeOK
<1>4. \A b \in Addr :
        cache'[b] \in IF after[b] = Nil THEN {Nil, At("fetched", b)} ELSE {At("after", b)}
  BY <1>1, CachingFacts DEF Pointers
<1>5. \A d \in Cell : d.kind # "value" => heap'[d] = heap[d]
  BY <1>1, <1>2 DEF TypeOK
<1>6. heap' \in [Cell -> Amount] /\ heap'[c] = v
  BY <1>1, <1>2 DEF TypeOK
<1>7. \A k \in {"fetched", "after"}, b \in Addr : heap'[At(k, b)] = heap[At(k, b)]
  BY <1>5, CellFacts DEF At
<1>8. \A b \in Addr : cache'[b] # Nil => heap'[cache'[b]] = heap[cache'[b]]
  BY <1>4, <1>7
<1>9. \A b \in Addr : View(b) = IF cache'[b] = Nil THEN Chain[b] ELSE heap[cache'[b]]
  BY <1>1, CachingFacts DEF View
<1>10. \A b \in Addr : View(b)' = View(b)
  BY <1>8, <1>9 DEF View
<1> QED
  BY <1>3, <1>4, <1>5, <1>6, <1>8, <1>10

\* A transfer that passed its check leaves the checked balance in the cache.
LEMMA TransferInv ==
    ASSUME BalanceInv, NEW from \in Addr, NEW to \in Addr, NEW v \in Values,
           NEW ok \in BOOLEAN, Transfer(from, to, v, ok)
    PROVE  BalanceInv'
<1> DEFINE c == At("value", from)
           due == IF v <= ledger[from] THEN v ELSE 0
<1>1. TypeOK /\ Pointers /\ Cells /\ SubCovered /\ AddDue /\ BalancesExact
  BY DEF BalanceInv
<1>2. /\ sub = Nil /\ add = Nil
      /\ v # 0 => heap[GetBalance(from, ok)] >= v
      /\ cache' = IF v = 0 THEN cache ELSE GetBalanceCache(from, ok)
      /\ heap' = [heap EXCEPT ![c] = v]
      /\ sub' = [addr |-> from, amount |-> c, due |-> due]
      /\ add' = [addr |-> to, amount |-> c, due |-> due]
      /\ undone' = undone \cup IF due = v THEN {} ELSE {from, to}
      /\ UNCHANGED <<before, after, ledger, journal, failed, heirs>>
  BY DEF Transfer, Idle
<1>3. c \in Cell /\ c.kind = "value" /\ v \in Amount /\ due \in Amount
  <2>1. c \in Cell /\ c.kind = "value"
    BY CellFacts DEF At
  <2>2. v \in Amount /\ 0 \in Amount
    BY BalanceAssumption DEF Amount
  <2> QED
    BY <2>1, <2>2
<1>4. sub' \in Call /\ add' \in Call
  BY <1>2, <1>3 DEF Call
<1>5. /\ cache' \in [Addr -> Cell \cup {Nil}]
      /\ (\A b \in Addr :
             cache'[b] \in IF after[b] = Nil THEN {Nil, At("fetched", b)} ELSE {At("after", b)})
      /\ (\A d \in Cell : d.kind # "value" => heap'[d] = heap[d])
      /\ heap' \in [Cell -> Amount] /\ heap'[c] = v
      /\ (\A b \in Addr : cache'[b] # Nil => heap'[cache'[b]] = heap[cache'[b]])
      /\ \A b \in Addr : View(b)' = View(b)
  BY <1>1, TransferFacts
<1>6. TypeOK'
  BY <1>1, <1>2, <1>4, <1>5 DEF TypeOK
<1>7. Pointers'
  BY <1>1, <1>2, <1>5 DEF Pointers
<1>8. \A k \in {"fetched", "zero"}, b \in Addr : heap'[At(k, b)] = heap[At(k, b)]
  BY <1>5, CellFacts DEF At
<1>9. Cells'
  BY <1>1, <1>8 DEF Cells
<1>10. v # 0 => cache'[from] # Nil /\ v <= heap'[cache'[from]]
  <2> SUFFICES ASSUME v # 0 PROVE cache'[from] # Nil /\ v <= heap'[cache'[from]]
    OBVIOUS
  <2>1. heap[GetBalance(from, ok)] >= v /\ GetBalance(from, ok) # Nil
    BY <1>1, <1>2, GetBalanceFacts
  <2>2. v > 0
    BY <1>3, BalanceAssumption DEF Amount
  <2>3. ok \/ cache[from] # Nil
    <3>1. ~ok /\ cache[from] = Nil => heap[GetBalance(from, ok)] = 0
      BY <1>1, GetBalanceFacts
    <3> QED
      BY <1>3, <2>1, <2>2, <3>1 DEF Amount
  <2>4. cache'[from] = GetBalance(from, ok)
    BY <1>1, <1>2, <2>3, CachingFacts
  <2> QED
    BY <1>3, <1>5, <2>1, <2>4 DEF Amount
<1>11. SubCovered' /\ AddDue'
  <2>1. due = v \/ (from \in undone' /\ to \in undone')
    BY <1>2
  <2>2. sub'.addr = from /\ sub'.amount = c /\ sub'.due = due
        /\ add'.addr = to /\ add'.amount = c /\ add'.due = due
    BY <1>2
  <2> HIDE DEF c, due
  <2> QED
    BY <1>3, <1>5, <1>10, <2>1, <2>2 DEF SubCovered, AddDue
<1>12. BalancesExact'
  BY <1>1, <1>2, <1>5 DEF BalancesExact
<1> QED
  BY <1>6, <1>7, <1>9, <1>11, <1>12 DEF BalanceInv

\* SELFDESTRUCT asks for all there is, through the cell the cache holds.
LEMMA SelfDestructInv ==
    ASSUME BalanceInv, NEW self \in Addr, NEW heir \in Addr, NEW ok \in BOOLEAN,
           SelfDestruct6780(self, heir, ok)
    PROVE  BalanceInv'
<1>1. TypeOK /\ Pointers /\ Cells /\ SubCovered /\ AddDue /\ BalancesExact
  BY DEF BalanceInv
<1> DEFINE balance == GetBalance(self, ok)
<1>2. /\ sub = Nil /\ add = Nil /\ after[self] # Nil
      /\ sub' = [addr |-> self, amount |-> balance, due |-> ledger[self]]
      /\ add' = [addr |-> heir, amount |-> balance, due |-> ledger[self]]
      /\ cache' = GetBalanceCache(self, ok)
      /\ heirs' = heirs \cup {heir}
      /\ UNCHANGED <<heap, before, after, ledger, journal, failed, undone>>
  BY DEF SelfDestruct6780, Idle
<1>3. cache[self] = At("after", self) /\ At("after", self) # Nil
  BY <1>1, <1>2, CellFacts DEF Pointers
<1>4. cache' = cache /\ balance = cache[self] /\ balance \in Cell
  BY <1>1, <1>2, <1>3, GetBalanceFacts DEF GetBalanceCache, TypeOK
<1>5. sub' \in Call /\ add' \in Call
  BY <1>1, <1>2, <1>4 DEF Call, TypeOK
<1>6. TypeOK'
  BY <1>1, <1>2, <1>4, <1>5 DEF TypeOK
<1>7. Pointers' /\ Cells'
  BY <1>1, <1>2, <1>4 DEF Pointers, Cells
<1>8. SubCovered' /\ AddDue'
  BY <1>2, <1>4 DEF SubCovered, AddDue
<1>9. BalancesExact'
  BY <1>1, <1>2, <1>4 DEF BalancesExact, View
<1> QED
  BY <1>6, <1>7, <1>8, <1>9 DEF BalanceInv

\* A subtraction and the ledger move by the same amount, because it is covered.
LEMMA SubBalanceInv ==
    ASSUME BalanceInv, NEW ok \in BOOLEAN, SubBalance(ok)
    PROVE  BalanceInv'
<1>1. TypeOK /\ Pointers /\ Cells /\ SubCovered /\ AddDue /\ BalancesExact
  BY DEF BalanceInv
<1>0. PICK a \in Addr : a = sub.addr
  BY <1>1 DEF SubBalance, TypeOK, Call
<1> DEFINE amount == (heap[GetBalance(a, ok)] - heap[sub.amount]) % Modulus
<1>2. /\ sub # Nil
      /\ Record(a, ok, amount)
      /\ ledger' = [ledger EXCEPT ![a] = (@ - sub.due) % Modulus]
      /\ NoteFailure(a, ok)
      /\ sub' = Nil /\ UNCHANGED <<add, journal, heirs, undone>>
  BY <1>0 DEF SubBalance
<1>3. sub \in Call /\ sub.amount \in Cell /\ sub.due \in Amount
  BY <1>1, <1>2 DEF TypeOK, Call
<1>4. heap[GetBalance(a, ok)] \in Amount /\ heap[sub.amount] \in Amount /\ ledger[a] \in Amount
  BY <1>1, <1>3, GetBalanceFacts DEF TypeOK
<1>5. amount \in Amount /\ (ledger[a] - sub.due) % Modulus \in Amount
  BY <1>3, <1>4, AmountClosed
<1>6. TypeOK'
  <2>1. ledger' \in [Addr -> Amount]
    BY <1>1, <1>2, <1>5 DEF TypeOK
  <2> HIDE DEF amount
  <2> QED
    BY <1>1, <1>2, <1>3, <1>5, <2>1, RecordFacts DEF TypeOK
<1>7. Pointers' /\ Cells'
  <2> HIDE DEF amount
  <2> QED
    BY <1>1, <1>2, <1>3, <1>5, RecordFacts
<1>8. AddDue'
  <2> HIDE DEF amount
  <2>1. At("after", a).kind = "after"
    BY DEF At
  <2>2. add # Nil /\ add.amount.kind # "after" => heap'[add.amount] = heap[add.amount]
    BY <1>1, <1>2, <1>3, <1>5, <2>1, RecordFacts DEF TypeOK, Call
  <2> QED
    BY <1>1, <1>2, <2>2 DEF AddDue
<1>9. BalancesExact'
  <2> SUFFICES ASSUME NEW b \in Addr, b \notin failed', b \notin heirs', b \notin undone'
               PROVE  View(b)' = ledger'[b]
    BY DEF BalancesExact
  <2>1. /\ View(a)' = amount
        /\ \A d \in Addr \ {a} : View(d)' = View(d) /\ (d \in failed' <=> d \in failed)
        /\ failed \subseteq failed'
        /\ a \notin failed' /\ cache[a] = Nil => ok
    <3> HIDE DEF amount
    <3> QED
      BY <1>1, <1>2, <1>3, <1>5, RecordFacts
  <2>2. CASE b # a
    BY <1>1, <1>2, <2>1, <2>2 DEF BalancesExact, TypeOK
  <2>3. CASE b = a
    <3>1. ledger'[a] = (ledger[a] - sub.due) % Modulus
      BY <1>1, <1>2, <1>3 DEF TypeOK
    <3>2. View(a) = ledger[a]
      BY <1>1, <1>2, <1>3, <2>1, <2>3 DEF BalancesExact
    <3>3. heap[GetBalance(a, ok)] = View(a)
      BY <1>1, <1>3, <2>1, <2>3, GetBalanceFacts DEF View
    <3>4. CASE heap[sub.amount] = sub.due
      BY <2>1, <2>3, <3>1, <3>2, <3>3, <3>4
    <3>5. CASE sub.amount = cache[a] /\ after[a] # Nil /\ sub.due = ledger[a]
      <4>1. heap[sub.amount] = View(a)
        BY <1>1, <1>3, <3>5, GetBalanceFacts DEF View
      <4> QED
        BY <2>1, <2>3, <3>1, <3>2, <3>3, <3>5, <4>1
    <3> QED
      BY <1>0, <1>1, <1>2, <2>3, <3>4, <3>5 DEF SubCovered
  <2> QED
    BY <2>2, <2>3
<1>10. SubCovered'
  BY <1>2 DEF SubCovered
<1> QED
  BY <1>6, <1>7, <1>8, <1>9, <1>10 DEF BalanceInv

\* An addition moves the amount that is due, unless it pays an heir.
LEMMA AddBalanceInv ==
    ASSUME BalanceInv, NEW ok \in BOOLEAN, AddBalance(ok)
    PROVE  BalanceInv'
<1>1. TypeOK /\ Pointers /\ Cells /\ SubCovered /\ AddDue /\ BalancesExact
  BY DEF BalanceInv
<1>0. PICK a \in Addr : a = add.addr
  BY <1>1 DEF AddBalance, TypeOK, Call
<1> DEFINE amount == (heap[GetBalance(a, ok)] + heap[add.amount]) % Modulus
<1>2. /\ sub = Nil /\ add # Nil
      /\ Record(a, ok, amount)
      /\ ledger' = [ledger EXCEPT ![a] = (@ + add.due) % Modulus]
      /\ NoteFailure(a, ok)
      /\ add' = Nil /\ UNCHANGED <<sub, journal, heirs, undone>>
  BY <1>0 DEF AddBalance
<1>3. add \in Call /\ add.amount \in Cell /\ add.due \in Amount
  BY <1>1, <1>2 DEF TypeOK, Call
<1>4. heap[GetBalance(a, ok)] \in Amount /\ heap[add.amount] \in Amount /\ ledger[a] \in Amount
  BY <1>1, <1>3, GetBalanceFacts DEF TypeOK
<1>5. amount \in Amount /\ (ledger[a] + add.due) % Modulus \in Amount
  BY <1>3, <1>4, AmountClosed
<1>6. TypeOK'
  <2>1. ledger' \in [Addr -> Amount]
    BY <1>1, <1>2, <1>5 DEF TypeOK
  <2> HIDE DEF amount
  <2> QED
    BY <1>1, <1>2, <1>3, <1>5, <2>1, RecordFacts DEF TypeOK
<1>7. Pointers' /\ Cells'
  <2> HIDE DEF amount
  <2> QED
    BY <1>1, <1>2, <1>3, <1>5, RecordFacts
<1>8. BalancesExact'
  <2> SUFFICES ASSUME NEW b \in Addr, b \notin failed', b \notin heirs', b \notin undone'
               PROVE  View(b)' = ledger'[b]
    BY DEF BalancesExact
  <2>1. /\ View(a)' = amount
        /\ \A d \in Addr \ {a} : View(d)' = View(d) /\ (d \in failed' <=> d \in failed)
        /\ failed \subseteq failed'
        /\ a \notin failed' /\ cache[a] = Nil => ok
    <3> HIDE DEF amount
    <3> QED
      BY <1>1, <1>2, <1>3, <1>5, RecordFacts
  <2>2. CASE b # a
    BY <1>1, <1>2, <2>1, <2>2 DEF BalancesExact, TypeOK
  <2>3. CASE b = a
    <3>1. ledger'[a] = (ledger[a] + add.due) % Modulus
      BY <1>1, <1>2, <1>3 DEF TypeOK
    <3>2. View(a) = ledger[a]
      BY <1>1, <1>2, <1>3, <2>1, <2>3 DEF BalancesExact
    <3>3. heap[GetBalance(a, ok)] = View(a)
      BY <1>1, <1>3, <2>1, <2>3, GetBalanceFacts DEF View
    <3>4. heap[add.amount] = add.due
      BY <1>0, <1>1, <1>2, <2>3 DEF AddDue
    <3> QED
      BY <2>1, <2>3, <3>1, <3>2, <3>3, <3>4
  <2> QED
    BY <2>2, <2>3
<1>9. SubCovered' /\ AddDue'
  BY <1>2 DEF SubCovered, AddDue
<1> QED
  BY <1>6, <1>7, <1>8, <1>9 DEF BalanceInv

\* Frames touch the ledger only, and a revert puts every account aside whose balance
\* it should have restored.
LEMMA FrameInv ==
    ASSUME BalanceInv, EnterCall \/ ReturnCall \/ RevertCall
    PROVE  BalanceInv'
<1>1. TypeOK /\ Pointers /\ Cells /\ SubCovered /\ AddDue /\ BalancesExact
  BY DEF BalanceInv
<1>2. sub = Nil /\ add = Nil /\ UNCHANGED <<heap, cache, before, after, sub, add, failed, heirs>>
  BY DEF EnterCall, ReturnCall, RevertCall, Idle, dbVars
<1>3. Pointers' /\ Cells' /\ SubCovered' /\ AddDue' /\ \A a \in Addr : View(a)' = View(a)
  BY <1>1, <1>2 DEF Pointers, Cells, SubCovered, AddDue, View
<1>4. CASE EnterCall
  <2>1. journal' \in Seq([Addr -> Amount]) /\ UNCHANGED <<ledger, undone>>
    BY <1>1, <1>4 DEF EnterCall, TypeOK
  <2> QED
    BY <1>1, <1>2, <1>3, <2>1 DEF BalanceInv, TypeOK, BalancesExact
<1>5. CASE ReturnCall
  <2>1. journal' \in Seq([Addr -> Amount]) /\ UNCHANGED <<ledger, undone>>
    BY <1>1, <1>5 DEF ReturnCall, Leave, TypeOK
  <2> QED
    BY <1>1, <1>2, <1>3, <2>1 DEF BalanceInv, TypeOK, BalancesExact
<1>6. CASE RevertCall
  <2> DEFINE saved == journal[Len(journal)]
  <2>1. saved \in [Addr -> Amount] /\ journal' \in Seq([Addr -> Amount])
    BY <1>1, <1>6 DEF RevertCall, Leave, TypeOK
  <2>2. ledger' = saved /\ undone' = undone \cup {a \in Addr : ledger[a] # saved[a]}
    BY <1>6 DEF RevertCall
  <2>3. TypeOK'
    BY <1>1, <1>2, <2>1, <2>2 DEF TypeOK
  <2>4. BalancesExact'
    BY <1>1, <1>2, <1>3, <2>2 DEF BalancesExact
  <2> QED
    BY <1>3, <2>3, <2>4 DEF BalanceInv
<1> QED
  BY <1>4, <1>5, <1>6

\* Every step of the database and of the EVM's calls preserves the invariant.
LEMMA BalanceInvNext == BalanceInv /\ [Next]_balanceVars => BalanceInv'
<1> SUFFICES ASSUME BalanceInv, [Next]_balanceVars PROVE BalanceInv'
  OBVIOUS
<1>1. ASSUME NEW a \in Addr, Touch(a) PROVE BalanceInv'
  BY <1>1, TouchInv
<1>2. ASSUME NEW ok \in BOOLEAN, SubBalance(ok) PROVE BalanceInv'
  BY <1>2, SubBalanceInv
<1>3. ASSUME NEW ok \in BOOLEAN, AddBalance(ok) PROVE BalanceInv'
  BY <1>3, AddBalanceInv
<1>4. ASSUME NEW ok \in BOOLEAN, NEW a \in Addr, ReadBalance(a, ok) PROVE BalanceInv'
  BY <1>4, ReadBalanceInv
<1>5. ASSUME NEW ok \in BOOLEAN, NEW a \in Addr, NEW b \in Addr, SelfDestruct6780(a, b, ok)
      PROVE  BalanceInv'
  BY <1>5, SelfDestructInv
<1>6. ASSUME NEW ok \in BOOLEAN, NEW a \in Addr, NEW b \in Addr, NEW v \in Values,
             Transfer(a, b, v, ok)
      PROVE  BalanceInv'
  BY <1>6, TransferInv
<1>7. CASE EnterCall \/ ReturnCall \/ RevertCall
  BY <1>7, FrameInv
<1>8. CASE UNCHANGED balanceVars
  BY <1>8 DEF balanceVars, dbVars, ledgerVars, BalanceInv, TypeOK, Pointers, Cells,
              SubCovered, AddDue, BalancesExact, View
<1> QED
  BY <1>1, <1>2, <1>3, <1>4, <1>5, <1>6, <1>7, <1>8 DEF Next

\* The inductive invariant holds in every reachable state.
THEOREM BalanceInvariant == Spec => []BalanceInv
<1> QED
  BY BalanceInvInit, BalanceInvNext, PTL DEF Spec

-----------------------------------------------------------------------------
\* Pointers, records, pending calls and the ledger keep their types: SubBalance
\* and AddBalance produce 256-bit amounts.
THEOREM BalanceTyping == Spec => []TypeOK
<1>1. BalanceInv => TypeOK
  BY DEF BalanceInv
<1> QED
  BY <1>1, BalanceInvariant, PTL

\* BalanceBefore is out of reach of every later write, though it is a pointer the
\* cache and the EVM once held too.
THEOREM BeforeStaysIntact == Spec => []BeforeIntact
<1>1. BalanceInv => BeforeIntact
  BY DEF BalanceInv, Pointers, Cells, BeforeIntact
<1> QED
  BY <1>1, BalanceInvariant, PTL

\* Once written, a balance reads the same through the record and the cache.
THEOREM RecordAgreesWithCache == Spec => []AfterIsCurrent
<1>1. BalanceInv => AfterIsCurrent
  <2> SUFFICES ASSUME BalanceInv, NEW a \in Addr, after[a] # Nil
               PROVE  heap[after[a]] = View(a) /\ before[a] # Nil
    BY DEF AfterIsCurrent
  <2>1. after[a] = At("after", a) /\ cache[a] = At("after", a) /\ before[a] # Nil
    BY DEF BalanceInv, Pointers
  <2> QED
    BY <2>1, CellFacts DEF View
<1> QED
  BY <1>1, BalanceInvariant, PTL

\* SubBalance never takes more than its account has, so it never wraps.
THEOREM NeverOverdrawn == Spec => []NoOverdraft
<1>1. BalanceInv => NoOverdraft
  <2> SUFFICES ASSUME BalanceInv, sub # Nil, NEW ok \in BOOLEAN
               PROVE  heap[sub.amount] <= heap[GetBalance(sub.addr, ok)]
    BY DEF NoOverdraft
  <2>1. PICK a \in Addr : a = sub.addr
    BY DEF BalanceInv, TypeOK, Call
  <2>2. /\ heap[GetBalance(a, ok)] \in Amount
        /\ cache[a] # Nil => GetBalance(a, ok) = cache[a]
    BY GetBalanceFacts DEF BalanceInv
  <2>3. CASE heap[sub.amount] = 0
    BY <2>1, <2>2, <2>3, BalanceAssumption DEF Amount
  <2>4. CASE cache[a] # Nil /\ heap[sub.amount] <= heap[cache[a]]
    BY <2>1, <2>2, <2>4
  <2>5. CASE after[a] # Nil /\ sub.amount = cache[a]
    <3>1. cache[a] # Nil
      BY <2>5, CellFacts DEF BalanceInv, Pointers
    <3> QED
      BY <2>1, <2>2, <2>5, <3>1, BalanceAssumption DEF Amount
  <2> QED
    BY <2>1, <2>3, <2>4, <2>5 DEF BalanceInv, SubCovered
<1> QED
  BY <1>1, BalanceInvariant, PTL

\* No cached, shared or stale cell makes a balance wrong: only a failed request, a
\* SELFDESTRUCT or a revert does.
THEOREM BalancesStayExact == Spec => []BalancesExact
<1>1. BalanceInv => BalancesExact
  BY DEF BalanceInv
<1> QED
  BY <1>1, BalanceInvariant, PTL

-----------------------------------------------------------------------------
\* Counting ether.

\* The units of an account from one number to another.
UnitsOf(a, m, n) == {u \in Addr \X Nat : u[1] = a /\ m < u[2] /\ u[2] <= n}

\* There are as many as the numbers say.
LEMMA UnitsOfFacts ==
    ASSUME NEW a \in Addr, NEW m \in Nat, NEW n \in Nat, m <= n
    PROVE  IsFiniteSet(UnitsOf(a, m, n)) /\ Cardinality(UnitsOf(a, m, n)) = n - m
<1> DEFINE f == [k \in m + 1 .. n |-> <<a, k>>]
<1>1. f \in Bijection(m + 1 .. n, UnitsOf(a, m, n))
  <2>1. \A k \in m + 1 .. n : <<a, k>> \in UnitsOf(a, m, n)
    BY DEF UnitsOf
  <2>2. \A u \in UnitsOf(a, m, n) : u[2] \in m + 1 .. n /\ u = <<a, u[2]>>
    BY DEF UnitsOf
  <2> QED
    BY <2>1, <2>2 DEF Bijection, Injection, Surjection, IsInjective
<1>2. IsFiniteSet(m + 1 .. n) /\ Cardinality(m + 1 .. n) = n - m
  <2>1. PICK k \in Int, l \in Int : k = m + 1 /\ l = n
    OBVIOUS
  <2>2. IsFiniteSet(k .. l) /\ Cardinality(k .. l) = IF k > l THEN 0 ELSE l - k + 1
    BY FS_Interval
  <2> QED
    BY <2>1, <2>2
<1>3. ExistsBijection(m + 1 .. n, UnitsOf(a, m, n))
  BY <1>1 DEF ExistsBijection
<1> QED
  BY <1>2, <1>3, FS_Bijection

\* There are finitely many units.
LEMMA UnitsFinite ==
    ASSUME NEW f \in [Addr -> Amount]
    PROVE  IsFiniteSet(Units(f)) /\ Total(f) \in Nat
<1>1. IsFiniteSet(1 .. Modulus - 1)
  BY BalanceAssumption, FS_Interval
<1>2. IsFiniteSet(Addr \X (1 .. Modulus - 1))
  BY <1>1, EtherAssumption, FS_Product
<1>3. Units(f) \in SUBSET (Addr \X (1 .. Modulus - 1))
  BY DEF Units
<1>4. IsFiniteSet(Units(f))
  BY <1>2, <1>3, FS_Subset
<1> QED
  BY <1>4, FS_CardinalityType DEF Total

\* What one account gets is added to the total.
LEMMA TotalRaised ==
    ASSUME NEW f \in [Addr -> Amount], NEW a \in Addr, NEW d \in Nat, f[a] + d \in Amount
    PROVE  Total([f EXCEPT ![a] = @ + d]) = Total(f) + d
<1>1. PICK g : g = [f EXCEPT ![a] = @ + d]
  OBVIOUS
<1>2. g \in [Addr -> Amount] /\ g[a] = f[a] + d /\ \A b \in Addr : b # a => g[b] = f[b]
  BY <1>1
<1>3. PICK m \in Nat, n \in Nat : m = f[a] /\ n = f[a] + d /\ m <= n /\ n < Modulus
  BY BalanceAssumption DEF Amount
<1>4. Units(g) = Units(f) \cup UnitsOf(a, m, n)
  <2>1. ASSUME NEW u \in Units(g) PROVE u \in Units(f) \cup UnitsOf(a, m, n)
    <3>1. u \in Addr \X (1 .. Modulus - 1) /\ u[2] <= g[u[1]] /\ u[1] \in Addr /\ u[2] \in Nat
      BY BalanceAssumption DEF Units
    <3>2. CASE u[1] = a
      BY <1>2, <1>3, <3>1, <3>2 DEF Units, UnitsOf
    <3>3. CASE u[1] # a
      BY <1>2, <3>1, <3>3 DEF Units
    <3> QED
      BY <3>2, <3>3
  <2>2. ASSUME NEW u \in Units(f) PROVE u \in Units(g)
    <3>1. u \in Addr \X (1 .. Modulus - 1) /\ u[2] <= f[u[1]] /\ u[1] \in Addr /\ u[2] \in Nat
      BY BalanceAssumption DEF Units
    <3>2. u[2] <= g[u[1]]
      BY <1>2, <1>3, <3>1
    <3> QED
      BY <3>1, <3>2 DEF Units
  <2>3. ASSUME NEW u \in UnitsOf(a, m, n) PROVE u \in Units(g)
    <3>1. u[1] = a /\ u[2] \in Nat /\ m < u[2] /\ u[2] <= n /\ u \in Addr \X Nat
      BY DEF UnitsOf
    <3>2. u[2] \in 1 .. Modulus - 1
      BY <1>3, <3>1, BalanceAssumption
    <3>3. u \in Addr \X (1 .. Modulus - 1)
      BY <3>1, <3>2
    <3> QED
      BY <1>2, <1>3, <3>1, <3>3 DEF Units
  <2> QED
    BY <2>1, <2>2, <2>3
<1>5. Units(f) \cap UnitsOf(a, m, n) = {}
  <2> SUFFICES ASSUME NEW u \in Units(f), u \in UnitsOf(a, m, n) PROVE FALSE
    OBVIOUS
  <2>1. u[1] = a /\ u[2] \in Nat /\ m < u[2] /\ u[2] <= f[u[1]]
    BY DEF Units, UnitsOf
  <2> QED
    BY <1>3, <2>1
<1>6. Cardinality(Units(f) \cap UnitsOf(a, m, n)) = 0
  BY <1>5, FS_EmptySet
<1>7. Cardinality(Units(g)) =
          Cardinality(Units(f)) + Cardinality(UnitsOf(a, m, n))
              - Cardinality(Units(f) \cap UnitsOf(a, m, n))
  <2>1. IsFiniteSet(Units(f)) /\ IsFiniteSet(UnitsOf(a, m, n))
    BY <1>3, UnitsFinite, UnitsOfFacts
  <2> QED
    BY <1>4, <2>1, FS_Union
<1>8. Total(g) = Total(f) + (n - m)
  BY <1>3, <1>6, <1>7, UnitsFinite, UnitsOfFacts DEF Total
<1> QED
  BY <1>1, <1>3, <1>8, UnitsFinite

\* What one account gives is taken from the total.
LEMMA TotalLowered ==
    ASSUME NEW f \in [Addr -> Amount], NEW a \in Addr, NEW d \in Nat, d <= f[a]
    PROVE  Total([f EXCEPT ![a] = @ - d]) = Total(f) - d
<1>1. PICK g : g = [f EXCEPT ![a] = @ - d]
  OBVIOUS
<1>2. f[a] \in Amount /\ f[a] - d \in Amount /\ (f[a] - d) + d = f[a]
  BY BalanceAssumption DEF Amount
<1>3. g \in [Addr -> Amount] /\ g[a] = f[a] - d
  BY <1>1, <1>2
<1>4. f = [g EXCEPT ![a] = @ + d]
  BY <1>1, <1>2, <1>3
<1>5. Total(f) = Total(g) + d
  BY <1>2, <1>3, <1>4, TotalRaised
<1>6. Total(f) \in Nat /\ Total(g) \in Nat
  BY <1>3, UnitsFinite
<1>7. Total(g) = Total(f) - d
  BY <1>5, <1>6
<1> QED
  BY <1>1, <1>7

\* No account has more than the total.
LEMMA TotalBounds ==
    ASSUME NEW f \in [Addr -> Amount], NEW a \in Addr
    PROVE  f[a] <= Total(f)
<1>1. f[a] \in Nat /\ f[a] - f[a] \in Amount /\ f[a] <= f[a]
  BY BalanceAssumption DEF Amount
<1>2. PICK g : g = [f EXCEPT ![a] = @ - f[a]]
  OBVIOUS
<1>3. g \in [Addr -> Amount]
  BY <1>1, <1>2
<1>4. Total(g) = Total(f) - f[a]
  BY <1>1, <1>2, TotalLowered
<1> QED
  BY <1>1, <1>3, <1>4, UnitsFinite

-----------------------------------------------------------------------------
\* No account becomes richer.

\* What the chain holds is less than the modulus.
LEMMA ChainTotal == Chain \in [Addr -> Amount] /\ Total(Chain) \in Nat /\ Total(Chain) < Modulus
BY BalanceAssumption, EtherAssumption, UnitsFinite

\* Initially the ledger is the chain.
LEMMA EtherInvInit == Init => EtherInv
<1> SUFFICES ASSUME Init PROVE EtherInv
  OBVIOUS
<1>1. BalanceInv
  BY BalanceInvInit
<1>2. NoEtherAppears
  BY ChainTotal DEF Init, NoEtherAppears
<1>3. DueCovered /\ AddBounded
  BY DEF Init, DueCovered, AddBounded
<1>4. \A a \in Addr : View(a) = ledger[a] /\ ledger[a] \in Nat
  BY BalanceAssumption DEF Init, None, View, Amount
<1>5. NeverRicher
  BY <1>4 DEF NeverRicher
<1> QED
  BY <1>1, <1>2, <1>3, <1>5 DEF EtherInv

\* A read changes nothing but what is cached.
LEMMA ReadBalanceEther ==
    ASSUME EtherInv, NEW a \in Addr, NEW ok \in BOOLEAN, ReadBalance(a, ok)
    PROVE  EtherInv'
<1>1. BalanceInv /\ TypeOK /\ Pointers /\ Cells
  BY DEF EtherInv, BalanceInv
<1>2. /\ cache' = GetBalanceCache(a, ok) /\ sub = Nil /\ add = Nil
      /\ UNCHANGED <<heap, before, after, sub, add, ledger, journal, failed, heirs, undone>>
  BY DEF ReadBalance, Idle, ledgerVars
<1>3. BalanceInv'
  BY <1>1, ReadBalanceInv
<1>4. \A b \in Addr : View(b)' = View(b)
  BY <1>1, <1>2, CachingFacts DEF View
<1>5. NoEtherAppears' /\ DueCovered' /\ AddBounded' /\ NeverRicher'
  BY <1>2, <1>4 DEF EtherInv, NoEtherAppears, DueCovered, AddBounded, NeverRicher
<1> QED
  BY <1>3, <1>5 DEF EtherInv

\* A touch brings nothing.
LEMMA TouchEther ==
    ASSUME EtherInv, NEW a \in Addr, Touch(a)
    PROVE  EtherInv'
<1>1. BalanceInv /\ TypeOK /\ Cells /\ BalanceInv'
  BY TouchInv DEF EtherInv, BalanceInv
<1>2. /\ sub = Nil /\ add = Nil /\ add' = [addr |-> a, amount |-> At("zero", a), due |-> 0]
      /\ UNCHANGED <<heap, cache, before, after, sub, ledger, journal, failed, heirs, undone>>
  BY DEF Touch, Idle, dbVars, ledgerVars
<1>3. add'.amount = At("zero", a) /\ add'.due = 0 /\ heap'[At("zero", a)] = 0
  BY <1>1, <1>2 DEF Cells
<1>4. Total(ledger) \in Nat
  BY <1>1, UnitsFinite DEF TypeOK
<1>5. NoEtherAppears'
  BY <1>2, <1>3, <1>4 DEF EtherInv, NoEtherAppears
<1>6. DueCovered'
  BY <1>2 DEF DueCovered
<1>7. AddBounded'
  BY <1>2, <1>3 DEF AddBounded
<1>8. NeverRicher'
  BY <1>2 DEF EtherInv, NeverRicher, View
<1> QED
  BY <1>1, <1>5, <1>6, <1>7, <1>8 DEF EtherInv

\* A transfer plans to move no more than the ledger covers.
LEMMA TransferEther ==
    ASSUME EtherInv, NEW from \in Addr, NEW to \in Addr, NEW v \in Values,
           NEW ok \in BOOLEAN, Transfer(from, to, v, ok)
    PROVE  EtherInv'
<1> DEFINE c == At("value", from)
<1>1. BalanceInv /\ TypeOK /\ Pointers /\ Cells /\ BalanceInv'
  BY TransferInv DEF EtherInv, BalanceInv
<1>2. PICK due : due = IF v <= ledger[from] THEN v ELSE 0
  OBVIOUS
<1>3. /\ sub = Nil /\ add = Nil
      /\ sub' = [addr |-> from, amount |-> c, due |-> due]
      /\ add' = [addr |-> to, amount |-> c, due |-> due]
      /\ undone' = undone \cup IF due = v THEN {} ELSE {from, to}
      /\ UNCHANGED <<before, after, ledger, journal, failed, heirs>>
  BY <1>2 DEF Transfer, Idle
<1>4. heap'[c] = v /\ \A b \in Addr : View(b)' = View(b)
  BY <1>1, TransferFacts
<1>5. /\ v \in Nat /\ due \in Nat /\ ledger[from] \in Nat /\ due <= ledger[from]
      /\ due = v \/ to \in undone'
  BY <1>1, <1>2, <1>3, BalanceAssumption DEF TypeOK, Amount
<1>6. /\ sub' # Nil /\ add' # Nil /\ sub'.addr = from /\ sub'.due = due
      /\ add'.addr = to /\ add'.amount = c /\ add'.due = due /\ c.kind = "value"
  <2>1. sub' \in Call /\ add' \in Call
    <3>1. c \in Cell /\ due \in Amount
      BY <1>1, <1>2, CellFacts, BalanceAssumption DEF Amount
    <3> QED
      BY <1>3, <3>1 DEF Call
  <2> QED
    BY <1>3, <2>1, BalanceAssumption DEF At
<1>7. NoEtherAppears'
  BY <1>3, <1>6 DEF EtherInv, NoEtherAppears
<1>8. DueCovered'
  BY <1>3, <1>5, <1>6 DEF DueCovered
<1>9. AddBounded'
  BY <1>4, <1>5, <1>6 DEF AddBounded
<1>10. NeverRicher'
  BY <1>3, <1>4 DEF EtherInv, NeverRicher
<1> QED
  BY <1>1, <1>7, <1>8, <1>9, <1>10 DEF EtherInv

\* SELFDESTRUCT plans to move all there is.
LEMMA SelfDestructEther ==
    ASSUME EtherInv, NEW self \in Addr, NEW heir \in Addr, NEW ok \in BOOLEAN,
           SelfDestruct6780(self, heir, ok)
    PROVE  EtherInv'
<1>1. BalanceInv /\ TypeOK /\ Pointers /\ Cells /\ BalanceInv'
  BY SelfDestructInv DEF EtherInv, BalanceInv
<1>2. PICK balance : balance = GetBalance(self, ok)
  OBVIOUS
<1>3. /\ sub = Nil /\ add = Nil /\ after[self] # Nil
      /\ sub' = [addr |-> self, amount |-> balance, due |-> ledger[self]]
      /\ add' = [addr |-> heir, amount |-> balance, due |-> ledger[self]]
      /\ cache' = GetBalanceCache(self, ok)
      /\ UNCHANGED <<heap, before, after, ledger, journal, failed, undone>>
  BY <1>2 DEF SelfDestruct6780, Idle
<1>4. cache[self] = At("after", self) /\ At("after", self) # Nil /\ At("after", self) \in Cell
  BY <1>1, <1>3, CellFacts DEF Pointers
<1>5. cache' = cache /\ balance = cache[self]
  BY <1>1, <1>2, <1>3, <1>4, GetBalanceFacts DEF GetBalanceCache, TypeOK
<1>6. /\ sub' # Nil /\ add' # Nil /\ sub'.addr = self /\ sub'.due = ledger[self]
      /\ sub'.amount = balance /\ add'.amount = balance /\ add'.due = ledger[self]
      /\ ledger[self] \in Nat /\ balance.kind = "after"
  <2>1. ledger[self] \in Amount /\ balance \in Cell
    BY <1>1, <1>4, <1>5 DEF TypeOK
  <2>2. sub' \in Call /\ add' \in Call
    BY <1>3, <2>1 DEF Call
  <2>3. balance.kind = "after"
    BY <1>4, <1>5 DEF At
  <2>4. sub' # Nil /\ add' # Nil
    BY <2>2, BalanceAssumption
  <2> QED
    BY <1>3, <2>1, <2>3, <2>4, BalanceAssumption DEF Amount
<1>7. NoEtherAppears'
  BY <1>3, <1>6 DEF EtherInv, NoEtherAppears
<1>8. DueCovered'
  BY <1>3, <1>6 DEF DueCovered
<1>9. AddBounded'
  BY <1>5, <1>6 DEF AddBounded
<1>10. NeverRicher'
  BY <1>3, <1>5 DEF EtherInv, NeverRicher, View
<1> QED
  BY <1>1, <1>7, <1>8, <1>9, <1>10 DEF EtherInv

\* A subtraction takes from the account at least what it takes from the ledger, unless
\* it takes all.
LEMMA SubBalanceEther ==
    ASSUME EtherInv, NEW ok \in BOOLEAN, SubBalance(ok)
    PROVE  EtherInv'
<1>1. BalanceInv /\ TypeOK /\ Pointers /\ Cells /\ SubCovered /\ BalanceInv'
  BY SubBalanceInv DEF EtherInv, BalanceInv
<1>2. PICK a \in Addr : a = sub.addr
  BY <1>1 DEF SubBalance, TypeOK, Call
<1>3. PICK current : current = GetBalance(a, ok)
  OBVIOUS
<1>4. PICK amount : amount = (heap[current] - heap[sub.amount]) % Modulus
  OBVIOUS
<1>5. /\ sub # Nil /\ Record(a, ok, amount) /\ NoteFailure(a, ok)
      /\ ledger' = [ledger EXCEPT ![a] = (@ - sub.due) % Modulus]
      /\ sub' = Nil /\ UNCHANGED <<add, journal, heirs, undone>>
  BY <1>2, <1>3, <1>4 DEF SubBalance
<1>6. /\ sub \in Call /\ sub.amount \in Cell /\ sub.due \in Amount
      /\ add # Nil /\ add.due = sub.due /\ sub.due <= ledger[a] /\ add \in Call
      /\ ledger[a] \in Amount /\ ledger \in [Addr -> Amount]
  BY <1>1, <1>2, <1>5 DEF EtherInv, DueCovered, TypeOK, Call
<1>7. /\ current \in Cell
      /\ heap[current] \in Amount /\ heap[sub.amount] \in Amount
      /\ (cache[a] # Nil => current = cache[a])
      /\ (cache[a] = Nil => heap[current] = IF ok THEN Chain[a] ELSE 0)
  BY <1>1, <1>3, <1>6, GetBalanceFacts DEF TypeOK
<1>8. amount \in Amount
  BY <1>4, <1>7, AmountClosed
<1>9. /\ \A c \in Cell : c # At("after", a) => heap'[c] = heap[c]
      /\ heap'[At("after", a)] = amount
      /\ View(a)' = amount
      /\ \A b \in Addr \ {a} : View(b)' = View(b)
  BY <1>1, <1>5, <1>8, RecordFacts
<1>10. /\ Modulus \in Nat /\ sub.due \in Nat /\ ledger[a] \in Nat
       /\ ledger[a] - sub.due \in 0 .. Modulus - 1
  BY <1>6, BalanceAssumption DEF Amount
<1>11. ledger' = [ledger EXCEPT ![a] = @ - sub.due] /\ ledger'[a] = ledger[a] - sub.due
       /\ \A b \in Addr : b # a => ledger'[b] = ledger[b]
  <2>1. (ledger[a] - sub.due) % Modulus = ledger[a] - sub.due
    BY <1>10
  <2> QED
    BY <1>5, <1>6, <2>1
<1>12. Total(ledger') = Total(ledger) - sub.due /\ Total(ledger) \in Nat
  BY <1>6, <1>10, <1>11, TotalLowered, UnitsFinite
<1>13. NoEtherAppears'
  <2>1. Total(ledger) <= Total(Chain)
    <3>1. Total(ledger) + 0 <= Total(Chain)
      BY <1>5 DEF EtherInv, NoEtherAppears
    <3> QED
      BY <1>12, <3>1
  <2>2. Total(ledger') + add'.due = Total(ledger)
    BY <1>5, <1>6, <1>10, <1>12
  <2>3. \A i \in 1 .. Len(journal) : Total(journal[i]) <= Total(Chain)
    BY DEF EtherInv, NoEtherAppears
  <2> QED
    BY <1>5, <1>6, <2>1, <2>2, <2>3 DEF NoEtherAppears
<1>14. DueCovered'
  BY <1>5 DEF DueCovered
<1>15. ASSUME cache[a] # Nil, sub.amount = cache[a] PROVE amount = 0
  <2>1. heap[current] - heap[sub.amount] = 0
    BY <1>7, <1>15, BalanceAssumption DEF Amount
  <2>2. 0 % Modulus = 0
    BY BalanceAssumption
  <2> QED
    BY <1>4, <2>1, <2>2
<1>16. AddBounded'
  <2>1. CASE add.amount.kind = "after"
    <3>1. add.amount = sub.amount /\ sub.amount = cache[a]
      BY <1>2, <1>5, <1>6, <2>1 DEF EtherInv, AddBounded
    <3>2. sub.amount = At("after", a) /\ cache[a] # Nil
      <4>1. cache[a] \in Cell
        BY <1>6, <3>1
      <4>2. cache[a] \in {Nil, At("fetched", a), At("after", a)}
        BY <1>1 DEF Pointers
      <4>3. Nil \notin Cell
        BY BalanceAssumption
      <4>4. At("fetched", a).kind = "fetched"
        BY DEF At
      <4> QED
        BY <2>1, <3>1, <4>1, <4>2, <4>3, <4>4
    <3>3. heap'[add.amount] = 0
      BY <1>9, <1>15, <3>1, <3>2
    <3> QED
      BY <1>5, <1>6, <1>10, <3>3 DEF AddBounded
  <2>2. CASE add.amount.kind # "after"
    <3>1. heap[add.amount] <= add.due \/ add.addr \in undone
      BY <1>6, <2>2 DEF EtherInv, AddBounded
    <3>2. add.amount \in Cell /\ add.amount # At("after", a)
      BY <1>6, <2>2 DEF Call, At
    <3>3. heap'[add.amount] = heap[add.amount]
      BY <1>9, <3>2
    <3> QED
      BY <1>5, <3>1, <3>3 DEF AddBounded
  <2> QED
    BY <2>1, <2>2
<1>17. NeverRicher'
  <2> SUFFICES ASSUME NEW b \in Addr, b \notin undone PROVE View(b)' <= ledger'[b]
    BY <1>5 DEF NeverRicher
  <2>1. View(b) <= ledger[b]
    BY DEF EtherInv, NeverRicher
  <2>2. CASE b # a
    BY <1>9, <1>11, <2>1, <2>2
  <2>3. CASE b = a
    <3>1. CASE sub.amount = cache[a] /\ after[a] # Nil
      <4>1. cache[a] # Nil
        BY <1>1, <3>1, CellFacts DEF Pointers
      <4>2. View(a)' = 0
        BY <1>9, <1>15, <3>1, <4>1
      <4> QED
        BY <1>10, <1>11, <2>3, <4>2
    <3>2. CASE /\ heap[sub.amount] = sub.due
               /\ heap[sub.amount] # 0 =>
                      cache[a] # Nil /\ heap[sub.amount] <= heap[cache[a]]
      <4>1. /\ heap[current] \in Nat /\ heap[sub.amount] \in Nat
            /\ heap[current] - heap[sub.amount] \in 0 .. Modulus - 1
        BY <1>7, <3>2, BalanceAssumption DEF Amount
      <4>2. amount = heap[current] - heap[sub.amount]
        BY <1>4, <1>10, <4>1
      <4>3. heap[current] <= View(a)
        <5>1. CASE cache[a] # Nil
          BY <1>7, <4>1, <5>1 DEF View
        <5>2. CASE cache[a] = Nil
          <6>1. Chain[a] \in Nat /\ View(a) = Chain[a]
            BY <5>2, BalanceAssumption DEF View, Amount
          <6> QED
            BY <1>7, <4>1, <5>2, <6>1
        <5> QED
          BY <5>1, <5>2
      <4>4. View(a) \in Nat
        BY <1>1, GetBalanceFacts, BalanceAssumption DEF Amount
      <4> QED
        BY <1>9, <1>10, <1>11, <2>1, <2>3, <3>2, <4>1, <4>2, <4>3, <4>4
    <3> QED
      BY <1>1, <1>2, <1>5, <2>3, <3>1, <3>2 DEF SubCovered
  <2> QED
    BY <2>2, <2>3
<1> QED
  BY <1>1, <1>13, <1>14, <1>16, <1>17 DEF EtherInv

\* What is below the modulus stays as it is.
LEMMA NoWrap ==
    ASSUME NEW n \in 0 .. Modulus - 1
    PROVE  n % Modulus = n
BY BalanceAssumption

\* An addition brings no more than is due, and neither it nor the ledger wraps, for all
\* there is fits in one balance.
LEMMA AddBalanceEther ==
    ASSUME EtherInv, NEW ok \in BOOLEAN, AddBalance(ok)
    PROVE  EtherInv'
<1>1. BalanceInv /\ TypeOK /\ Pointers /\ Cells /\ BalanceInv'
  BY AddBalanceInv DEF EtherInv, BalanceInv
<1>2. PICK a \in Addr : a = add.addr
  BY <1>1 DEF AddBalance, TypeOK, Call
<1>3. PICK current : current = GetBalance(a, ok)
  OBVIOUS
<1>4. PICK amount : amount = (heap[current] + heap[add.amount]) % Modulus
  OBVIOUS
<1>5. /\ sub = Nil /\ add # Nil /\ Record(a, ok, amount) /\ NoteFailure(a, ok)
      /\ ledger' = [ledger EXCEPT ![a] = (@ + add.due) % Modulus]
      /\ add' = Nil /\ UNCHANGED <<sub, journal, heirs, undone>>
  BY <1>2, <1>3, <1>4 DEF AddBalance
<1>6. /\ add \in Call /\ add.amount \in Cell /\ add.due \in Amount
      /\ ledger[a] \in Amount /\ ledger \in [Addr -> Amount]
  BY <1>1, <1>5 DEF TypeOK, Call
<1>7. /\ heap[current] \in Amount /\ heap[add.amount] \in Amount
      /\ (cache[a] # Nil => current = cache[a])
      /\ (cache[a] = Nil => heap[current] = IF ok THEN Chain[a] ELSE 0)
  BY <1>1, <1>3, <1>6, GetBalanceFacts DEF TypeOK
<1>8. amount \in Amount
  BY <1>4, <1>7, AmountClosed
<1>9. View(a)' = amount /\ \A b \in Addr \ {a} : View(b)' = View(b)
  BY <1>1, <1>5, <1>8, RecordFacts
<1>10. /\ Total(ledger) + add.due <= Total(Chain)
       /\ \A i \in 1 .. Len(journal) : Total(journal[i]) <= Total(Chain)
  BY <1>5 DEF EtherInv, NoEtherAppears
<1>11. /\ Modulus \in Nat /\ add.due \in Nat /\ ledger[a] \in Nat
       /\ Total(ledger) \in Nat /\ ledger[a] <= Total(ledger)
       /\ Total(Chain) \in Nat /\ Total(Chain) < Modulus
  BY <1>6, BalanceAssumption, UnitsFinite, TotalBounds, ChainTotal DEF Amount
<1>12. ledger[a] + add.due \in 0 .. Modulus - 1
  BY <1>10, <1>11
<1>13. ledger' = [ledger EXCEPT ![a] = @ + add.due] /\ ledger'[a] = ledger[a] + add.due
       /\ \A b \in Addr : b # a => ledger'[b] = ledger[b]
  <2>1. (ledger[a] + add.due) % Modulus = ledger[a] + add.due
    BY <1>12, NoWrap
  <2> QED
    BY <1>5, <1>6, <2>1
<1>14. Total(ledger') = Total(ledger) + add.due
  BY <1>6, <1>11, <1>12, <1>13, TotalRaised DEF Amount
<1>15. NoEtherAppears' /\ DueCovered' /\ AddBounded'
  <2>1. Total(ledger') <= Total(Chain) /\ Total(ledger') \in Nat
    BY <1>10, <1>11, <1>14
  <2> QED
    BY <1>5, <1>10, <2>1 DEF NoEtherAppears, DueCovered, AddBounded
<1>16. NeverRicher'
  <2> SUFFICES ASSUME NEW b \in Addr, b \notin undone PROVE View(b)' <= ledger'[b]
    BY <1>5 DEF NeverRicher
  <2>1. View(b) <= ledger[b]
    BY DEF EtherInv, NeverRicher
  <2>2. CASE b # a
    BY <1>9, <1>13, <2>1, <2>2
  <2>3. CASE b = a
    <3>1. heap[add.amount] <= add.due /\ heap[add.amount] \in Nat /\ heap[current] \in Nat
      BY <1>2, <1>5, <1>7, <2>3, BalanceAssumption DEF EtherInv, AddBounded, Amount
    <3>2. View(a) \in Nat
      BY <1>1, GetBalanceFacts, BalanceAssumption DEF Amount
    <3>3. heap[current] <= View(a)
      <4>1. CASE cache[a] # Nil
        BY <1>7, <3>1, <4>1 DEF View
      <4>2. CASE cache[a] = Nil
        <5>1. Chain[a] \in Nat /\ View(a) = Chain[a]
          BY <4>2, BalanceAssumption DEF View, Amount
        <5> QED
          BY <1>7, <3>1, <4>2, <5>1
      <4> QED
        BY <4>1, <4>2
    <3>4. heap[current] + heap[add.amount] <= ledger[a] + add.due
      BY <1>11, <2>1, <2>3, <3>1, <3>2, <3>3
    <3>5. heap[current] + heap[add.amount] \in 0 .. Modulus - 1
      BY <1>11, <1>12, <3>1, <3>4
    <3>6. amount = heap[current] + heap[add.amount]
      BY <1>4, <1>11, <3>5
    <3> QED
      BY <1>9, <1>13, <2>3, <3>4, <3>6
  <2> QED
    BY <2>2, <2>3
<1> QED
  BY <1>1, <1>15, <1>16 DEF EtherInv

\* A revert goes back to a ledger that was counted when its frame was entered.
LEMMA FrameEther ==
    ASSUME EtherInv, EnterCall \/ ReturnCall \/ RevertCall
    PROVE  EtherInv'
<1>1. BalanceInv /\ TypeOK /\ BalanceInv'
  BY FrameInv DEF EtherInv, BalanceInv
<1>2. sub = Nil /\ add = Nil /\ UNCHANGED <<heap, cache, before, after, sub, add, failed, heirs>>
  BY DEF EnterCall, ReturnCall, RevertCall, Idle, dbVars
<1>3. DueCovered' /\ AddBounded' /\ \A a \in Addr : View(a)' = View(a)
  BY <1>2 DEF DueCovered, AddBounded, View
<1>4. /\ Total(ledger) <= Total(Chain) /\ Total(ledger) \in Nat
      /\ \A i \in 1 .. Len(journal) : Total(journal[i]) <= Total(Chain)
  <2>1. Total(ledger) \in Nat
    BY <1>1, UnitsFinite DEF TypeOK
  <2> QED
    BY <1>2, <2>1 DEF EtherInv, NoEtherAppears
<1>5. PICK n \in Nat : n = Len(journal)
  BY <1>1 DEF TypeOK
<1>6. journal \in Seq([Addr -> Amount]) /\ ledger \in [Addr -> Amount]
  BY <1>1 DEF TypeOK
<1>7. CASE EnterCall
  <2>1. journal' = Append(journal, ledger) /\ UNCHANGED <<ledger, undone>>
    BY <1>7 DEF EnterCall
  <2>2. /\ Len(journal') = n + 1 /\ journal'[n + 1] = ledger
        /\ \A i \in 1 .. n : journal'[i] = journal[i]
    BY <1>5, <1>6, <2>1
  <2>3. \A i \in 1 .. n + 1 : i \in 1 .. n \/ i = n + 1
    BY <1>5
  <2>4. \A i \in 1 .. Len(journal') : Total(journal'[i]) <= Total(Chain)
    BY <1>4, <1>5, <2>2, <2>3
  <2>5. NoEtherAppears'
    BY <1>2, <1>4, <2>1, <2>4 DEF NoEtherAppears
  <2>6. NeverRicher'
    BY <1>3, <2>1 DEF EtherInv, NeverRicher
  <2> QED
    BY <1>1, <1>3, <2>5, <2>6 DEF EtherInv
<1>8. CASE ReturnCall \/ RevertCall
  <2>1. journal # <<>> /\ n > 0 /\ journal' = SubSeq(journal, 1, n - 1)
    BY <1>5, <1>6, <1>8 DEF ReturnCall, RevertCall, Leave
  <2>2. Len(journal') = n - 1 /\ \A i \in 1 .. n - 1 : journal'[i] = journal[i]
    BY <1>5, <1>6, <2>1
  <2>3. \A i \in 1 .. Len(journal') : Total(journal'[i]) <= Total(Chain)
    BY <1>4, <1>5, <2>2
  <2>4. CASE ReturnCall
    <3>1. UNCHANGED <<ledger, undone>>
      BY <2>4 DEF ReturnCall
    <3>2. NoEtherAppears'
      BY <1>2, <1>4, <2>3, <3>1 DEF NoEtherAppears
    <3>3. NeverRicher'
      BY <1>3, <3>1 DEF EtherInv, NeverRicher
    <3> QED
      BY <1>1, <1>3, <3>2, <3>3 DEF EtherInv
  <2>5. CASE RevertCall
    <3>1. /\ ledger' = journal[n]
          /\ undone' = undone \cup {a \in Addr : ledger[a] # ledger'[a]}
      BY <1>5, <2>5 DEF RevertCall
    <3>2. n \in 1 .. n /\ journal[n] \in [Addr -> Amount]
      BY <1>5, <1>6, <2>1
    <3>3. Total(ledger') <= Total(Chain) /\ Total(ledger') \in Nat
      BY <1>4, <1>5, <3>1, <3>2, UnitsFinite
    <3>4. NoEtherAppears'
      BY <1>2, <2>3, <3>3 DEF NoEtherAppears
    <3>5. NeverRicher'
      BY <1>3, <3>1 DEF EtherInv, NeverRicher
    <3> QED
      BY <1>1, <1>3, <3>4, <3>5 DEF EtherInv
  <2> QED
    BY <1>8, <2>4, <2>5
<1> QED
  BY <1>7, <1>8

\* Every step preserves the invariant, and keeps the ether there is.
LEMMA EtherInvNext == EtherInv /\ [Next]_balanceVars => EtherInv'
<1> SUFFICES ASSUME EtherInv, [Next]_balanceVars PROVE EtherInv'
  OBVIOUS
<1>1. ASSUME NEW a \in Addr, Touch(a) PROVE EtherInv'
  BY <1>1, TouchEther
<1>2. ASSUME NEW ok \in BOOLEAN, SubBalance(ok) PROVE EtherInv'
  BY <1>2, SubBalanceEther
<1>3. ASSUME NEW ok \in BOOLEAN, AddBalance(ok) PROVE EtherInv'
  BY <1>3, AddBalanceEther
<1>4. ASSUME NEW ok \in BOOLEAN, NEW a \in Addr, ReadBalance(a, ok) PROVE EtherInv'
  BY <1>4, ReadBalanceEther
<1>5. ASSUME NEW ok \in BOOLEAN, NEW a \in Addr, NEW b \in Addr, SelfDestruct6780(a, b, ok)
      PROVE  EtherInv'
  BY <1>5, SelfDestructEther
<1>6. ASSUME NEW ok \in BOOLEAN, NEW a \in Addr, NEW b \in Addr, NEW v \in Values,
             Transfer(a, b, v, ok)
      PROVE  EtherInv'
  BY <1>6, TransferEther
<1>7. CASE EnterCall \/ ReturnCall \/ RevertCall
  BY <1>7, FrameEther
<1>8. CASE UNCHANGED balanceVars
  <2>1. BalanceInv'
    BY BalanceInvNext DEF EtherInv
  <2>2. UNCHANGED <<heap, cache, before, after, sub, add, ledger, journal, failed, heirs, undone>>
    BY <1>8 DEF balanceVars, dbVars, ledgerVars
  <2>3. NoEtherAppears' /\ DueCovered' /\ AddBounded' /\ NeverRicher'
    BY <2>2 DEF EtherInv, NoEtherAppears, DueCovered, AddBounded, NeverRicher, View
  <2> QED
    BY <2>1, <2>3 DEF EtherInv
<1> QED
  BY <1>1, <1>2, <1>3, <1>4, <1>5, <1>6, <1>7, <1>8 DEF Next

\* What is on its way and what the accounts should hold is never more than the chain
\* held, so that no addition wraps.
THEOREM EtherInvariant == Spec => []EtherInv
<1> QED
  BY EtherInvInit, EtherInvNext, PTL DEF Spec

\* Failed requests, shared cells and SELFDESTRUCT never make an account richer than it
\* should be; only a revert can.
THEOREM NobodyGetsRicher == Spec => []NeverRicher
<1>1. EtherInv => NeverRicher
  BY DEF EtherInv
<1> QED
  BY <1>1, EtherInvariant, PTL

\* Who has no more of anything has no more together.
LEMMA TotalMonotone ==
    ASSUME NEW f \in [Addr -> Amount], NEW g \in [Addr -> Amount], \A a \in Addr : f[a] <= g[a]
    PROVE  Total(f) <= Total(g)
<1>1. Units(f) \subseteq Units(g)
  <2> SUFFICES ASSUME NEW u \in Units(f) PROVE u \in Units(g)
    OBVIOUS
  <2>1. u \in Addr \X (1 .. Modulus - 1) /\ u[1] \in Addr /\ u[2] \in Nat /\ u[2] <= f[u[1]]
    BY BalanceAssumption DEF Units
  <2>2. f[u[1]] \in Nat /\ g[u[1]] \in Nat /\ f[u[1]] <= g[u[1]]
    BY <2>1, BalanceAssumption DEF Amount
  <2>3. u[2] <= g[u[1]]
    BY <2>1, <2>2
  <2> QED
    BY <2>1, <2>3 DEF Units
<1> QED
  BY <1>1, UnitsFinite, FS_Subset DEF Total

\* The accounts that no revert concerns hold no more together than there was on the
\* chain: the calls of a transfer and of a SELFDESTRUCT make no ether (caching.go:221).
THEOREM NoEtherIsMinted == Spec => []NothingMinted
<1>1. EtherInv => NothingMinted
  <2> SUFFICES ASSUME EtherInv PROVE NothingMinted
    OBVIOUS
  <2>1. TypeOK /\ Pointers /\ Cells /\ NoEtherAppears /\ NeverRicher
    BY DEF EtherInv, BalanceInv
  <2>2. PICK f : f = [a \in Addr |-> IF a \in undone THEN 0 ELSE View(a)]
    OBVIOUS
  <2>3. /\ ledger \in [Addr -> Amount]
        /\ \A a \in Addr : ledger[a] \in Nat /\ View(a) \in Amount
    <3>1. ASSUME NEW a \in Addr PROVE View(a) \in Amount
      <4>1. TRUE \in BOOLEAN
        OBVIOUS
      <4> QED
        BY <2>1, <4>1, GetBalanceFacts
    <3> QED
      BY <2>1, <3>1, BalanceAssumption DEF TypeOK, Amount
  <2>4. f \in [Addr -> Amount]
    BY <2>2, <2>3, BalanceAssumption DEF Amount
  <2>5. \A a \in Addr : f[a] <= ledger[a]
    BY <2>1, <2>2, <2>3 DEF NeverRicher
  <2>6. Total(f) <= Total(ledger)
    BY <2>3, <2>4, <2>5, TotalMonotone
  <2>7. Total(ledger) <= Total(Chain)
    <3>1. PICK n \in Nat : /\ n = (IF sub = Nil /\ add # Nil THEN add.due ELSE 0)
                           /\ Total(ledger) + n <= Total(Chain)
      BY <2>1, BalanceAssumption DEF NoEtherAppears, TypeOK, Call, Amount
    <3> QED
      BY <2>3, <3>1, ChainTotal, UnitsFinite
  <2>8. Total(f) \in Nat /\ Total(ledger) \in Nat /\ Total(Chain) \in Nat
    BY <2>3, <2>4, ChainTotal, UnitsFinite
  <2> QED
    BY <2>2, <2>6, <2>7, <2>8 DEF NothingMinted
<1> QED
  BY <1>1, EtherInvariant, PTL
=============================================================================

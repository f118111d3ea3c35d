--------------------------- MODULE PlatformProofs ---------------------------
(***************************************************************************)
(* Theorems about the Nitro platform an enclave runs on: the units of its  *)
(* host that keep it running (Supervisor), for any number of faults, and   *)
(* the verifiers of the attestation the platform signs (NitroComparison),  *)
(* for bundles of any length.  The two parts are independent.              *)
(***************************************************************************)
EXTENDS Supervisor, NitroComparison, TLAPS

-----------------------------------------------------------------------------
(* The host *)

TypeOK ==
    /\ unit \in {"starting", "posting", "active", "stopping", "failed"}
    /\ vm \in {"running", "down"}
    /\ proxy \in {"queued", "serving", "waiting", "wedged", "off"}
    /\ watchdog \in {"idle", "restart", "blocked"}
    /\ seen \in {"nothing", "running", "down", "error"}
    /\ provoked \in BOOLEAN

(* The proxy is never up, nor about to come up by itself, unless the        *)
(* enclave's unit is active: a failed start takes it down for good.         *)
ProxyFollows ==
    /\ unit \in {"starting", "posting", "stopping"} => proxy \in {"queued", "off"}
    /\ unit = "failed" => proxy = "off"

(* Between the watchdog's look and its restart only the restart of a        *)
(* required service starts the unit; without one, an enclave that was seen  *)
(* down is still down.                                                      *)
LookIsFresh ==
    watchdog = "restart" /\ ~provoked => /\ unit \in {"active", "failed"}
                                         /\ seen = "error" \/ vm = "down"

(* What ExecStop is run on was down, or could not be seen, or a required    *)
(* service has restarted since it was seen.                                 *)
StopIsJustified == unit = "stopping" => vm = "down" \/ seen = "error" \/ provoked

SupInv == TypeOK /\ ProxyFollows /\ LookIsFresh /\ StopIsJustified

(* SupInv holds when the host boots, *)
LEMMA SupInvInit == Init => SupInv
  BY DEF Init, SupInv, TypeOK, ProxyFollows, LookIsFresh, StopIsJustified

(* and every step of a unit, script or fault keeps it. *)
LEMMA SupInvStep == SupInv /\ [Next]_vars => SupInv'
  <1> SUFFICES ASSUME SupInv, [Next]_vars PROVE SupInv'
    OBVIOUS
  <1> USE DEF SupInv, TypeOK, ProxyFollows, LookIsFresh, StopIsJustified
  <1>1. CASE RunEnclave
    BY <1>1 DEF RunEnclave, StartFails
  <1>2. CASE StartPost
    BY <1>2 DEF StartPost, StartFails, MaySurvive
  <1>3. CASE StopEnclave
    BY <1>3 DEF StopEnclave, MaySurvive
  <1>4. CASE EnclaveDies
    BY <1>4 DEF EnclaveDies
  <1>5. CASE WatchdogLooks
    BY <1>5 DEF WatchdogLooks, Look, UnitSettled
  <1>6. CASE WatchdogRestarts
    BY <1>6 DEF WatchdogRestarts, Restart, MaySurvive
  <1>7. CASE WatchdogDone
    BY <1>7 DEF WatchdogDone
  <1>8. CASE ProxyStarts
    BY <1>8 DEF ProxyStarts
  <1>9. CASE ProxyDies
    BY <1>9 DEF ProxyDies
  <1>10. CASE HeartbeatMissed
    BY <1>10 DEF HeartbeatMissed
  <1>11. CASE ProxyRestarts
    BY <1>11 DEF ProxyRestarts
  <1>12. CASE UNCHANGED vars
    BY <1>12 DEF vars
  <1>13. CASE RequirementRestarts
    BY <1>13 DEF RequirementRestarts, Restart, MaySurvive, Fault
  <1>14. QED
    BY <1>1, <1>2, <1>3, <1>4, <1>5, <1>6, <1>7, <1>8, <1>9, <1>10, <1>11, <1>12, <1>13 DEF Next

(* The invariant holds: a proxy whose enclave's unit failed is off, so      *)
(* Restart=always of the proxy never starts that unit (ops/systemd), and    *)
(* what the watchdog saw still holds when it restarts the unit, unless a    *)
(* required service restarted in between.                                   *)
THEOREM SupervisionInvariant == Spec => []SupInv
  BY SupInvInit, SupInvStep, PTL DEF Spec

(* However many things go wrong and in whatever order, ExecStop takes a     *)
(* running enclave down only when the watchdog's look itself failed or a    *)
(* required service has restarted since it looked.                          *)
THEOREM SparesRunningEnclave == Spec => StopsOnlyUnseen
  <1>1. SupInv /\ [Next]_vars
          => [unit = "stopping" /\ vm = "running" /\ vm' = "down"
                => seen = "error" \/ provoked]_vars
    BY DEF SupInv, StopIsJustified
  <1>2. QED
    BY <1>1, SupervisionInvariant, PTL DEF Spec, StopsOnlyUnseen

-----------------------------------------------------------------------------
(* The attestation: how a path is built *)

(* Counting rounds needs induction and least elements, not a recursion of   *)
(* its own: this one is constant.                                           *)
Count == INSTANCE Recursion
           WITH Dom <- LAMBDA p : Nat, Measure <- LAMBDA p, k : k, Body <- LAMBDA p, f, k : 0


(* The state after the certificate at i of the pool is taken. *)
Moved(st, i) == [chain |-> Append(st.chain, st.pool[i]), pool |-> RemoveAt(st.pool, i)]

(* The places of the pool that fit behind the last certificate. *)
Able(fits, st) == {i \in 1..Len(st.pool) : <<Last(st.chain), st.pool[i]>> \in fits}

(* A round of either builder: it stops at a certificate of ends, or where   *)
(* nothing fits, and else takes something that fits.                        *)
Round(ends, fits, st, st2) ==
    \/ (Last(st.chain) \in ends \/ Able(fits, st) = {}) /\ st2 = st
    \/ Last(st.chain) \notin ends /\ \E i \in Able(fits, st) : st2 = Moved(st, i)

(* A path under construction. *)
IsPath(st) ==
    st.chain \in Seq(Certificate) /\ Len(st.chain) >= 1 /\ st.pool \in Seq(Certificate)

(* What a builder has after each round. *)
Building(ends, fits, leaf, cabundle, tr) ==
    /\ tr[0] = Unbuilt(leaf, cabundle)
    /\ \A k \in Nat : IsPath(tr[k]) => Round(ends, fits, tr[k], tr[k + 1])

(* Taking one element out of a sequence. *)
LEMMA RemoveAtValue ==
    ASSUME NEW T, NEW s \in Seq(T), NEW i \in 1..Len(s)
    PROVE  /\ RemoveAt(s, i) \in Seq(T) /\ Len(RemoveAt(s, i)) = Len(s) - 1
           /\ \A j \in 1..(Len(s) - 1) : RemoveAt(s, i)[j] = IF j < i THEN s[j] ELSE s[j + 1]
  <1> DEFINE n == Len(s)
             a == SubSeq(s, 1, i - 1)
             b == SubSeq(s, i + 1, n)
  <1>1. n \in Nat /\ i \in 1..n /\ \A j \in 1..n : s[j] \in T
    OBVIOUS
  <1>2. /\ a \in Seq(T) /\ Len(a) = i - 1 /\ \A j \in 1..(i - 1) : a[j] = s[j]
    BY <1>1
  <1>3. /\ b \in Seq(T) /\ Len(b) = n - i /\ \A j \in 1..(n - i) : b[j] = s[j + i]
    BY <1>1
  <1>4. RemoveAt(s, i) = a \o b
    BY DEF RemoveAt
  <1> HIDE DEF n, a, b
  <1>a. a \in Seq(T) /\ b \in Seq(T)
    BY <1>2, <1>3
  <1>b. a \o b \in Seq(T) /\ Len(a \o b) = Len(a) + Len(b)
    BY <1>a
  <1>c. (i - 1) + (n - i) = n - 1
    BY <1>1
  <1>5. a \o b \in Seq(T) /\ Len(a \o b) = n - 1
    BY <1>2, <1>3, <1>b, <1>c
  <1>6. ASSUME NEW j \in 1..(n - 1) PROVE (a \o b)[j] = IF j < i THEN s[j] ELSE s[j + 1]
    <2>1. CASE j < i
      BY <2>1, <1>1, <1>2, <1>3
    <2>2. CASE ~(j < i)
      <3>1. (a \o b)[j] = b[j - (i - 1)] /\ j - (i - 1) \in 1..(n - i) /\ (j - (i - 1)) + i = j + 1
        BY <2>2, <1>1, <1>2, <1>3
      <3>2. QED
        BY <2>2, <3>1, <1>1, <1>3
    <2>3. QED
      BY <2>1, <2>2
  <1>7. QED
    BY <1>4, <1>5, <1>6 DEF n

(* The certificate at i goes from the pool to the end of the chain. *)
Takes(T, ch, po, i, ch2, po2) ==
    /\ ch2 \in Seq(T) /\ po2 \in Seq(T)
    /\ Len(ch2) = Len(ch) + 1 /\ Len(po2) = Len(po) - 1
    /\ \A j \in 1..Len(ch) : ch2[j] = ch[j]
    /\ ch2[Len(ch) + 1] = po[i]
    /\ \A j \in 1..(Len(po) - 1) : po2[j] = IF j < i THEN po[j] ELSE po[j + 1]

(* That is what Moved does. *)
LEMMA MovedTakes ==
    ASSUME NEW T, NEW st, st.chain \in Seq(T), st.pool \in Seq(T), NEW i \in 1..Len(st.pool)
    PROVE  Takes(T, st.chain, st.pool, i, Moved(st, i).chain, Moved(st, i).pool)
  <1> DEFINE c == st.chain
             q == st.pool
  <1>1. Moved(st, i).chain = Append(c, q[i]) /\ Moved(st, i).pool = RemoveAt(q, i)
    BY DEF Moved
  <1>2. c \in Seq(T) /\ q \in Seq(T) /\ i \in 1..Len(q) /\ q[i] \in T
    OBVIOUS
  <1> HIDE DEF c, q
  <1>3. /\ Append(c, q[i]) \in Seq(T) /\ Len(Append(c, q[i])) = Len(c) + 1
        /\ Append(c, q[i])[Len(c) + 1] = q[i]
        /\ \A j \in 1..Len(c) : Append(c, q[i])[j] = c[j]
    BY <1>2
  <1>4. /\ RemoveAt(q, i) \in Seq(T) /\ Len(RemoveAt(q, i)) = Len(q) - 1
        /\ \A j \in 1..(Len(q) - 1) : RemoveAt(q, i)[j] = IF j < i THEN q[j] ELSE q[j + 1]
    BY <1>2, RemoveAtValue
  <1>5. Takes(T, c, q, i, Append(c, q[i]), RemoveAt(q, i))
    BY <1>3, <1>4 DEF Takes
  <1>6. QED
    BY <1>1, <1>5 DEF c, q

(* Chain and pool hold the bundle between them: g tells from which place of *)
(* the bundle each comes, first for the chain behind the leaf and then for  *)
(* the pool.  What is in the chain fits there.                              *)
Drawn(fits, leaf, cabundle, ch, po, g) ==
    /\ ch \in Seq(Certificate) /\ po \in Seq(Certificate)
    /\ Len(ch) >= 1 /\ Len(ch) + Len(po) = Len(cabundle) + 1
    /\ ch[1] = leaf
    /\ g \in [1..Len(cabundle) -> 1..Len(cabundle)]
    /\ \A a, b \in 1..Len(cabundle) : g[a] = g[b] => a = b
    /\ \A j \in 1..(Len(ch) - 1) : ch[j + 1] = cabundle[g[j]] /\ <<ch[j], ch[j + 1]>> \in fits
    /\ \A j \in 1..Len(po) : po[j] = cabundle[g[Len(ch) - 1 + j]]

(* It is so at the start, *)
LEMMA DrawnAtFirst ==
    ASSUME NEW fits, NEW leaf \in Certificate, NEW cabundle \in Seq(Certificate)
    PROVE  \E g : Drawn(fits, leaf, cabundle, <<leaf>>, cabundle, g)
  <1> DEFINE g == [k \in 1..Len(cabundle) |-> k]
             one == <<leaf>>
  <1>1. one \in Seq(Certificate) /\ Len(one) = 1 /\ one[1] = leaf
    OBVIOUS
  <1> HIDE DEF one
  <1>2. Drawn(fits, leaf, cabundle, one, cabundle, g)
    BY <1>1 DEF Drawn
  <1>3. QED
    BY <1>2 DEF one

(* The places of chain and pool, in a row, when the one at i of the pool    *)
(* moves to the end of the chain.                                           *)
Reindexing(s, n, m, i) ==
    /\ s \in [1..(n + m) -> 1..(n + m)]
    /\ \A a, b \in 1..(n + m) : s[a] = s[b] => a = b
    /\ \A x \in 1..n : s[x] = x
    /\ s[n + 1] = n + i
    /\ \A j \in 1..(m - 1) : s[n + 1 + j] = IF j < i THEN n + j ELSE n + j + 1

(* There is such a rearrangement. *)
LEMMA ReindexingExists ==
    ASSUME NEW n \in Nat, NEW m \in Nat, NEW i \in 1..m
    PROVE  \E s : Reindexing(s, n, m, i)
  <1> DEFINE sh(x) == IF x <= n THEN x
                      ELSE IF x = n + 1 THEN n + i
                      ELSE IF x - (n + 1) < i THEN x - 1 ELSE x
             s == [x \in 1..(n + m) |-> sh(x)]
  <1>1. \A x \in 1..(n + m) : sh(x) \in 1..(n + m)
    OBVIOUS
  <1>2. \A a, b \in 1..(n + m) : sh(a) = sh(b) => a = b
    OBVIOUS
  <1>3. \A x \in 1..n : sh(x) = x
    OBVIOUS
  <1>4. sh(n + 1) = n + i
    OBVIOUS
  <1>5. \A j \in 1..(m - 1) : sh(n + 1 + j) = IF j < i THEN n + j ELSE n + j + 1
    OBVIOUS
  <1>6. n + 1 \in 1..(n + m) /\ \A x \in 1..n : x \in 1..(n + m)
    OBVIOUS
  <1>7. \A j \in 1..(m - 1) : n + 1 + j \in 1..(n + m)
    OBVIOUS
  <1> HIDE DEF sh
  <1>8. s \in [1..(n + m) -> 1..(n + m)] /\ \A x \in 1..(n + m) : s[x] = sh(x)
    BY <1>1
  <1> HIDE DEF s
  <1>9. (\A x \in 1..n : s[x] = x) /\ s[n + 1] = n + i
    BY <1>3, <1>4, <1>6, <1>8
  <1>a. \A j \in 1..(m - 1) : s[n + 1 + j] = IF j < i THEN n + j ELSE n + j + 1
    BY <1>5, <1>7, <1>8
  <1>b. \A a, b \in 1..(n + m) : s[a] = s[b] => a = b
    BY <1>2, <1>8
  <1>c. Reindexing(s, n, m, i)
    BY <1>8, <1>9, <1>a, <1>b, Zenon DEF Reindexing
  <1>10. QED
    BY <1>c

(* and stays so when something that fits is taken. *)
LEMMA DrawnWhenMoved ==
    ASSUME NEW fits, NEW leaf \in Certificate, NEW cabundle \in Seq(Certificate),
           NEW ch, NEW po, NEW g, Drawn(fits, leaf, cabundle, ch, po, g),
           NEW i \in 1..Len(po), <<Last(ch), po[i]>> \in fits,
           NEW ch2, NEW po2, Takes(Certificate, ch, po, i, ch2, po2)
    PROVE  \E h : Drawn(fits, leaf, cabundle, ch2, po2, h)
  <1> DEFINE n == Len(ch) - 1
             m == Len(po)
             L == Len(cabundle)
  <1>1. ch \in Seq(Certificate) /\ po \in Seq(Certificate) /\ ch[1] = leaf
    BY DEF Drawn
  <1>a. Len(ch) \in Nat /\ Len(po) \in Nat /\ L \in Nat
    BY <1>1
  <1>b. Len(ch) >= 1 /\ Len(ch) + Len(po) = Len(cabundle) + 1
    BY DEF Drawn
  <1>2. Len(ch) = n + 1 /\ n \in Nat /\ m \in Nat /\ n + m = L /\ L \in Nat
    BY <1>a, <1>b
  <1>3. g \in [1..L -> 1..L]
    BY DEF Drawn
  <1>4. \A a, b \in 1..L : g[a] = g[b] => a = b
    BY DEF Drawn
  <1>5. \A j \in 1..n : ch[j + 1] = cabundle[g[j]] /\ <<ch[j], ch[j + 1]>> \in fits
    BY DEF Drawn
  <1>6. \A j \in 1..m : po[j] = cabundle[g[n + j]]
    BY DEF Drawn
  <1>7. i \in 1..m /\ <<ch[n + 1], po[i]>> \in fits
    BY <1>2 DEF Last
  <1>8. /\ ch2 \in Seq(Certificate) /\ po2 \in Seq(Certificate)
        /\ Len(ch2) = Len(ch) + 1 /\ Len(po2) = Len(po) - 1
        /\ \A j \in 1..Len(ch) : ch2[j] = ch[j]
        /\ ch2[Len(ch) + 1] = po[i]
        /\ \A j \in 1..(Len(po) - 1) : po2[j] = IF j < i THEN po[j] ELSE po[j + 1]
    BY DEF Takes
  <1> HIDE DEF n, L
  <1>9. Len(ch2) = n + 2 /\ Len(po2) = m - 1 /\ ch2[n + 2] = po[i]
    BY <1>2, <1>8
  <1>10. \A j \in 1..(n + 1) : ch2[j] = ch[j]
    BY <1>2, <1>8
  <1>11. \A j \in 1..(m - 1) : po2[j] = IF j < i THEN po[j] ELSE po[j + 1]
    BY <1>8
  <1> HIDE DEF m
  <1>12. PICK s : Reindexing(s, n, m, i)
    BY <1>2, <1>7, ReindexingExists
  <1>13. s \in [1..L -> 1..L] /\ (\A a, b \in 1..L : s[a] = s[b] => a = b)
    BY <1>12, <1>2 DEF Reindexing
  <1>14. (\A x \in 1..n : s[x] = x) /\ s[n + 1] = n + i
    BY <1>12 DEF Reindexing
  <1>15. \A j \in 1..(m - 1) : s[n + 1 + j] = IF j < i THEN n + j ELSE n + j + 1
    BY <1>12 DEF Reindexing
  <1> DEFINE h == [x \in 1..L |-> g[s[x]]]
  <1>16. h \in [1..L -> 1..L] /\ \A x \in 1..L : h[x] = g[s[x]]
    BY <1>3, <1>13
  <1> HIDE DEF h
  <1>17. \A a, b \in 1..L : h[a] = h[b] => a = b
    <2> SUFFICES ASSUME NEW a \in 1..L, NEW b \in 1..L, h[a] = h[b] PROVE a = b
      OBVIOUS
    <2>1. s[a] \in 1..L /\ s[b] \in 1..L /\ g[s[a]] = g[s[b]]
      BY <1>13, <1>16
    <2>2. s[a] = s[b]
      BY <2>1, <1>4
    <2>3. QED
      BY <2>2, <1>13
  <1>18. ASSUME NEW j \in 1..(n + 1)
         PROVE  ch2[j + 1] = cabundle[h[j]] /\ <<ch2[j], ch2[j + 1]>> \in fits
    <2>0. j \in 1..L
      BY <1>2, <1>7
    <2>1. j \in 1..L /\ h[j] = g[s[j]] /\ ch2[j] = ch[j]
      BY <2>0, <1>10, <1>16
    <2>2. CASE j <= n
      <3>1. j \in 1..n /\ j + 1 \in 1..(n + 1)
        BY <2>2, <1>2
      <3>2. h[j] = g[j] /\ ch2[j + 1] = ch[j + 1]
        BY <3>1, <2>1, <1>10, <1>14
      <3>3. QED
        BY <3>1, <3>2, <2>1, <1>5
    <2>3. CASE j = n + 1
      <3>1. j + 1 = n + 2
        BY <2>3, <1>2
      <3>2. h[j] = g[n + i] /\ ch2[j + 1] = po[i] /\ ch2[j] = ch[n + 1]
        BY <2>3, <3>1, <2>1, <1>9, <1>14
      <3>3. QED
        BY <3>2, <1>6, <1>7
    <2>4. QED
      BY <2>2, <2>3, <1>2
  <1>19. ASSUME NEW j \in 1..(m - 1) PROVE po2[j] = cabundle[h[n + 1 + j]]
    <2>1. n + 1 + j \in 1..L /\ j \in 1..m /\ j + 1 \in 1..m
      BY <1>2
    <2>2. h[n + 1 + j] = g[s[n + 1 + j]]
      BY <2>1, <1>16
    <2>3. CASE j < i
      BY <2>1, <2>2, <2>3, <1>6, <1>11, <1>15
    <2>4. CASE ~(j < i)
      <3>0. n + j + 1 = n + (j + 1)
        BY <1>2
      <3>1. s[n + 1 + j] = n + (j + 1) /\ po2[j] = po[j + 1]
        BY <2>4, <3>0, <1>11, <1>15
      <3>2. QED
        BY <2>1, <2>2, <3>1, <1>6
    <2>5. QED
      BY <2>3, <2>4
  <1>20. ch2[1] = leaf
    BY <1>1, <1>2, <1>10
  <1>21. /\ Len(ch2) >= 1 /\ Len(ch2) + Len(po2) = L + 1
         /\ Len(ch2) - 1 = n + 1
    BY <1>2, <1>9
  <1>22. Drawn(fits, leaf, cabundle, ch2, po2, h)
    BY <1>8, <1>9, <1>16, <1>17, <1>18, <1>19, <1>20, <1>21 DEF Drawn, L
  <1>23. QED
    BY <1>22

(* So every round leaves it so. *)
LEMMA DrawnAlways ==
    ASSUME NEW ends, NEW fits, NEW leaf \in Certificate, NEW cabundle \in Seq(Certificate),
           NEW tr, Building(ends, fits, leaf, cabundle, tr), NEW k \in Nat
    PROVE  \E g : Drawn(fits, leaf, cabundle, tr[k].chain, tr[k].pool, g)
  <1> DEFINE S == {j \in Nat : \E g : Drawn(fits, leaf, cabundle, tr[j].chain, tr[j].pool, g)}
  <1>1. 0 \in S
    <2>1. tr[0].chain = <<leaf>> /\ tr[0].pool = cabundle
      BY DEF Building, Unbuilt
    <2>2. QED
      BY <2>1, DrawnAtFirst
  <1>2. ASSUME NEW j \in Nat, j \in S PROVE j + 1 \in S
    <2>1. PICK g : Drawn(fits, leaf, cabundle, tr[j].chain, tr[j].pool, g)
      BY <1>2
    <2>a. IsPath(tr[j])
      BY <2>1 DEF Drawn, IsPath
    <2>2. Round(ends, fits, tr[j], tr[j + 1])
      BY <2>a DEF Building
    <2>3. CASE tr[j + 1] = tr[j]
      BY <2>1, <2>3
    <2>4. CASE \E i \in Able(fits, tr[j]) : tr[j + 1] = Moved(tr[j], i)
      <3>1. PICK i \in Able(fits, tr[j]) : tr[j + 1] = Moved(tr[j], i)
        BY <2>4
      <3>2. i \in 1..Len(tr[j].pool) /\ <<Last(tr[j].chain), tr[j].pool[i]>> \in fits
        BY DEF Able
      <3>3. tr[j].chain \in Seq(Certificate) /\ tr[j].pool \in Seq(Certificate)
        BY <2>1 DEF Drawn
      <3>4. Takes(Certificate, tr[j].chain, tr[j].pool, i, tr[j + 1].chain, tr[j + 1].pool)
        BY <3>1, <3>2, <3>3, MovedTakes
      <3>5. \E h : Drawn(fits, leaf, cabundle, tr[j + 1].chain, tr[j + 1].pool, h)
        BY <2>1, <3>2, <3>4, DrawnWhenMoved
      <3>6. QED
        BY <3>5
    <2>5. QED
      BY <2>2, <2>3, <2>4 DEF Round
  <1> HIDE DEF S
  <1>3. \A j \in Nat : j \in S
    BY <1>1, <1>2, Count!Induction
  <1>4. QED
    BY <1>3 DEF S

(* A path the builder should find: from the leaf to the first certificate   *)
(* of ends, all of it in the bundle, where nothing but the next certificate *)
(* of the path fits.                                                        *)
Findable(ends, fits, leaf, cabundle, path) ==
    /\ path \in Seq(Certificate) /\ Len(path) >= 1 /\ path[1] = leaf
    /\ path[Len(path)] \in ends
    /\ \A j \in 1..(Len(path) - 1) : path[j] \notin ends /\ <<path[j], path[j + 1]>> \in fits
    /\ \A j \in 1..(Len(path) - 1) : \A i \in 1..Len(cabundle) :
          <<path[j], cabundle[i]>> \in fits => cabundle[i] = path[j + 1]

(* f tells where in the pool the rest of the path is. *)
Locates(f, path, h, po) ==
    /\ f \in [(h + 1)..Len(path) -> 1..Len(po)]
    /\ \A a, b \in (h + 1)..Len(path) : f[a] = f[b] => a = b
    /\ \A j \in (h + 1)..Len(path) : po[f[j]] = path[j]

(* The first h certificates of the path are found, the others are in the    *)
(* pool.                                                                    *)
Follows(cabundle, path, h, ch, po) ==
    /\ h \in 1..Len(path) /\ ch \in Seq(Certificate) /\ po \in Seq(Certificate)
    /\ Len(ch) = h /\ \A j \in 1..h : ch[j] = path[j]
    /\ \A j \in 1..Len(po) : \E i \in 1..Len(cabundle) : po[j] = cabundle[i]
    /\ \E f : Locates(f, path, h, po)

(* Taking the next certificate of the path from any place where the pool    *)
(* has it leaves the rest in the pool: if that place was meant for a later  *)
(* certificate, an equal one, that one takes the place meant for this.      *)
LEMMA LocatesWhenTaken ==
    ASSUME NEW path \in Seq(Certificate), NEW po \in Seq(Certificate), NEW h \in 1..(Len(path) - 1),
           NEW f, Locates(f, path, h, po), NEW i \in 1..Len(po), po[i] = path[h + 1],
           NEW po2, Len(po2) = Len(po) - 1,
           \A j \in 1..(Len(po) - 1) : po2[j] = IF j < i THEN po[j] ELSE po[j + 1]
    PROVE  \E f2 : Locates(f2, path, h + 1, po2)
  <1> DEFINE m == Len(path)
             L == Len(po)
             p(j) == IF f[j] = i THEN f[h + 1] ELSE f[j]
             q(j) == IF p(j) < i THEN p(j) ELSE p(j) - 1
             f2 == [j \in (h + 2)..m |-> q(j)]
  <1>1. m \in Nat /\ L \in Nat /\ h \in 1..(m - 1) /\ i \in 1..L
    OBVIOUS
  <1>2. f \in [(h + 1)..m -> 1..L]
    BY DEF Locates
  <1>3. \A a, b \in (h + 1)..m : f[a] = f[b] => a = b
    BY DEF Locates
  <1>4. \A j \in (h + 1)..m : po[f[j]] = path[j]
    BY DEF Locates
  <1> HIDE DEF m
  <1>5. h + 1 \in (h + 1)..m /\ f[h + 1] \in 1..L /\ po[f[h + 1]] = path[h + 1]
    <2>1. h + 1 \in (h + 1)..m
      BY <1>1
    <2>2. QED
      BY <2>1, <1>2, <1>4
  <1>6. ASSUME NEW j \in (h + 2)..m
        PROVE  /\ j \in (h + 1)..m /\ j # h + 1 /\ f[j] \in 1..L
               /\ p(j) \in 1..L /\ p(j) # i /\ po[p(j)] = path[j]
    <2>1. j \in (h + 1)..m /\ j # h + 1
      BY <1>1
    <2>2. f[j] \in 1..L /\ f[j] # f[h + 1] /\ po[f[j]] = path[j]
      BY <2>1, <1>2, <1>3, <1>4, <1>5
    <2>3. CASE f[j] = i
      BY <2>1, <2>2, <2>3, <1>5
    <2>4. CASE f[j] # i
      BY <2>1, <2>2, <2>4, <1>5
    <2>5. QED
      BY <2>3, <2>4
  <1>7. ASSUME NEW a \in (h + 2)..m, NEW b \in (h + 2)..m, p(a) = p(b) PROVE a = b
    <2>1. /\ a \in (h + 1)..m /\ b \in (h + 1)..m /\ a # h + 1 /\ b # h + 1
      BY <1>6
    <2>2. f[a] # f[h + 1] /\ f[b] # f[h + 1]
      BY <2>1, <1>3, <1>5
    <2>3. f[a] = f[b]
      BY <2>2, <1>7
    <2>4. QED
      BY <2>1, <2>3, <1>3
  <1> HIDE DEF p
  <1>8. ASSUME NEW j \in (h + 2)..m
        PROVE  q(j) \in 1..(L - 1) /\ po2[q(j)] = path[j]
    <2> DEFINE x == p(j)
    <2>1. x \in 1..L /\ x # i /\ po[x] = path[j]
      BY <1>6
    <2> HIDE DEF x
    <2>2. CASE x < i
      <3>0. x \in 1..(L - 1)
        BY <2>1, <2>2, <1>1
      <3>1. x \in 1..(L - 1) /\ po2[x] = po[x]
        BY <3>0, <2>2
      <3>2. q(j) = x
        BY <2>2 DEF x
      <3>3. QED
        BY <3>1, <3>2, <2>1
    <2>3. CASE ~(x < i)
      <3>1. x - 1 \in 1..(L - 1) /\ ~(x - 1 < i) /\ (x - 1) + 1 = x
        BY <2>1, <2>3, <1>1
      <3>2. po2[x - 1] = po[x]
        BY <3>1
      <3>3. q(j) = x - 1
        BY <2>3 DEF x
      <3>4. QED
        BY <3>1, <3>2, <3>3, <2>1
    <2>4. QED
      BY <2>2, <2>3
  <1>9. ASSUME NEW a \in (h + 2)..m, NEW b \in (h + 2)..m, q(a) = q(b) PROVE a = b
    <2> DEFINE x == p(a)
               y == p(b)
    <2>1. x \in 1..L /\ x # i /\ y \in 1..L /\ y # i
      BY <1>6
    <2>2. (IF x < i THEN x ELSE x - 1) = (IF y < i THEN y ELSE y - 1)
      BY <1>9
    <2> HIDE DEF x, y
    <2>3. x = y
      BY <2>1, <2>2, <1>1
    <2>4. QED
      BY <2>3, <1>7 DEF x, y
  <1> HIDE DEF q
  <1>10. Len(po2) = L - 1 /\ (h + 1) + 1 = h + 2
    BY <1>1
  <1>11. /\ f2 \in [(h + 2)..m -> 1..(L - 1)]
         /\ \A j \in (h + 2)..m : f2[j] = q(j)
    BY <1>8
  <1> HIDE DEF f2
  <1>12. \A a, b \in (h + 2)..m : f2[a] = f2[b] => a = b
    BY <1>9, <1>11
  <1>13. \A j \in (h + 2)..m : po2[f2[j]] = path[j]
    BY <1>8, <1>11
  <1>14. Locates(f2, path, h + 1, po2)
    BY <1>10, <1>11, <1>12, <1>13 DEF Locates, m
  <1>15. QED
    BY <1>14

(* A round finds the next certificate of the path, until all is found. *)
LEMMA FollowsStep ==
    ASSUME NEW ends, NEW fits, NEW leaf, NEW cabundle \in Seq(Certificate),
           NEW path, Findable(ends, fits, leaf, cabundle, path),
           NEW st, NEW st2, NEW h, Follows(cabundle, path, h, st.chain, st.pool),
           Round(ends, fits, st, st2)
    PROVE  \/ h = Len(path) /\ st2 = st
           \/ /\ h < Len(path) /\ Len(st2.pool) = Len(st.pool) - 1
              /\ Follows(cabundle, path, h + 1, st2.chain, st2.pool)
  <1> DEFINE ch == st.chain
             po == st.pool
             m == Len(path)
  <1>1. path \in Seq(Certificate) /\ m \in Nat /\ m >= 1 /\ path[m] \in ends
    BY DEF Findable
  <1>2. h \in 1..m /\ ch \in Seq(Certificate) /\ po \in Seq(Certificate) /\ Len(ch) = h
    BY DEF Follows
  <1>3. \A j \in 1..h : ch[j] = path[j]
    BY DEF Follows
  <1>4. \A j \in 1..Len(po) : \E i \in 1..Len(cabundle) : po[j] = cabundle[i]
    BY DEF Follows
  <1>5. PICK f : Locates(f, path, h, po)
    BY DEF Follows
  <1>6. Last(ch) = path[h]
    BY <1>2, <1>3 DEF Last
  <1>7. CASE h = m
    BY <1>1, <1>6, <1>7 DEF Round
  <1>8. CASE h # m
    <2>1. h \in 1..(m - 1) /\ h < m /\ h + 1 \in (h + 1)..m /\ h + 1 \in 1..m
      BY <1>1, <1>2, <1>8
    <2>2. path[h] \notin ends /\ <<path[h], path[h + 1]>> \in fits
      BY <2>1 DEF Findable
    <2>3. f[h + 1] \in 1..Len(po) /\ po[f[h + 1]] = path[h + 1]
      BY <1>5, <2>1 DEF Locates
    <2>4. f[h + 1] \in Able(fits, st)
      BY <1>6, <2>2, <2>3 DEF Able
    <2>5. PICK i \in Able(fits, st) : st2 = Moved(st, i)
      BY <1>6, <2>2, <2>4 DEF Round
    <2>6. i \in 1..Len(po) /\ <<path[h], po[i]>> \in fits
      BY <1>6, <2>5 DEF Able
    <2>7. po[i] = path[h + 1]
      BY <1>4, <2>1, <2>6 DEF Findable
    <2>8. Takes(Certificate, ch, po, i, st2.chain, st2.pool)
      BY <1>2, <2>5, <2>6, MovedTakes
    <2> DEFINE ch2 == st2.chain
               po2 == st2.pool
    <2>9. /\ ch2 \in Seq(Certificate) /\ po2 \in Seq(Certificate)
          /\ Len(ch2) = h + 1 /\ Len(po2) = Len(po) - 1 /\ ch2[h + 1] = path[h + 1]
      BY <1>2, <2>7, <2>8 DEF Takes
    <2>10. \A j \in 1..h : ch2[j] = path[j]
      BY <1>2, <1>3, <2>8 DEF Takes
    <2>11. \A j \in 1..(Len(po) - 1) : po2[j] = IF j < i THEN po[j] ELSE po[j + 1]
      BY <2>8 DEF Takes
    <2> HIDE DEF ch, po, ch2, po2, m
    <2>12. \E f2 : Locates(f2, path, h + 1, po2)
      BY <1>1, <1>2, <1>5, <2>1, <2>6, <2>7, <2>9, <2>11, LocatesWhenTaken DEF m
    <2>13. \A j \in 1..(h + 1) : ch2[j] = path[j]
      <3>1. \A j \in 1..(h + 1) : j = h + 1 \/ j \in 1..h
        BY <1>2
      <3>2. QED
        BY <3>1, <2>9, <2>10
    <2>14. \A j \in 1..Len(po2) : \E x \in 1..Len(cabundle) : po2[j] = cabundle[x]
      <3> SUFFICES ASSUME NEW j \in 1..Len(po2)
                   PROVE  \E x \in 1..Len(cabundle) : po2[j] = cabundle[x]
        OBVIOUS
      <3>1. j \in 1..(Len(po) - 1)
        BY <2>9
      <3>2. j \in 1..Len(po) /\ j + 1 \in 1..Len(po)
        BY <3>1, <1>2
      <3>3. po2[j] = po[j] \/ po2[j] = po[j + 1]
        BY <3>1, <2>11
      <3>4. QED
        BY <3>2, <3>3, <1>4
    <2>15. Follows(cabundle, path, h + 1, ch2, po2)
      BY <2>1, <2>9, <2>12, <2>13, <2>14 DEF Follows, m
    <2>16. QED
      BY <2>1, <2>9, <2>15 DEF ch2, po2, po, m
  <1>9. QED
    BY <1>7, <1>8

(* After a round per certificate of the bundle the builder has the path. *)
LEMMA PathFound ==
    ASSUME NEW ends, NEW fits, NEW leaf \in Certificate, NEW cabundle \in Seq(Certificate),
           NEW tr, Building(ends, fits, leaf, cabundle, tr),
           NEW path, Findable(ends, fits, leaf, cabundle, path),
           NEW f, Locates(f, path, 1, cabundle)
    PROVE  tr[Len(cabundle)].chain = path
  <1> DEFINE L == Len(cabundle)
             m == Len(path)
             At(k, h) == /\ Follows(cabundle, path, h, tr[k].chain, tr[k].pool)
                         /\ h = m \/ Len(tr[k].pool) = L - k
             S == {k \in Nat : \E h : At(k, h)}
  <1>1. L \in Nat /\ m \in Nat /\ path \in Seq(Certificate) /\ m >= 1
    BY DEF Findable
  <1>2. 0 \in S
    <2> DEFINE one == <<leaf>>
    <2>1. tr[0].chain = one /\ tr[0].pool = cabundle
      BY DEF Building, Unbuilt
    <2>2. one \in Seq(Certificate) /\ Len(one) = 1 /\ one[1] = path[1]
      BY DEF Findable
    <2> HIDE DEF one
    <2>3. \A j \in 1..1 : one[j] = path[j]
      BY <2>2
    <2>4. 1 \in 1..m /\ L = L - 0
      BY <1>1
    <2>5. Follows(cabundle, path, 1, one, cabundle)
      BY <2>2, <2>3, <2>4 DEF Follows
    <2>6. At(0, 1)
      BY <2>1, <2>4, <2>5
    <2>7. QED
      BY <2>6
  <1>3. ASSUME NEW k \in Nat, k \in S PROVE k + 1 \in S
    <2>1. PICK h : At(k, h)
      BY <1>3
    <2>a. IsPath(tr[k])
      BY <2>1 DEF Follows, IsPath
    <2>2. Round(ends, fits, tr[k], tr[k + 1])
      BY <2>a DEF Building
    <2>3. \/ h = m /\ tr[k + 1] = tr[k]
          \/ /\ h < m /\ Len(tr[k + 1].pool) = Len(tr[k].pool) - 1
             /\ Follows(cabundle, path, h + 1, tr[k + 1].chain, tr[k + 1].pool)
      BY <2>1, <2>2, FollowsStep
    <2>4. CASE h = m /\ tr[k + 1] = tr[k]
      BY <2>1, <2>4
    <2>5. CASE /\ h < m /\ Len(tr[k + 1].pool) = Len(tr[k].pool) - 1
               /\ Follows(cabundle, path, h + 1, tr[k + 1].chain, tr[k + 1].pool)
      <3>0. h \in Nat
        BY <2>1 DEF Follows
      <3>1. h # m
        BY <2>5, <1>1, <3>0
      <3>2. Len(tr[k].pool) = L - k
        BY <2>1, <3>1
      <3>3. (L - k) - 1 = L - (k + 1)
        BY <1>1
      <3>4. At(k + 1, h + 1)
        BY <2>5, <3>2, <3>3
      <3>5. QED
        BY <3>4
    <2>6. QED
      BY <2>3, <2>4, <2>5
  <1> HIDE DEF S
  <1>4. \A k \in Nat : k \in S
    BY <1>2, <1>3, Count!Induction
  <1>5. PICK h : At(L, h)
    BY <1>1, <1>4 DEF S
  <1> DEFINE ch == tr[L].chain
             po == tr[L].pool
  <1>6. /\ h \in 1..m /\ ch \in Seq(Certificate) /\ po \in Seq(Certificate) /\ Len(ch) = h
        /\ \A j \in 1..h : ch[j] = path[j]
    BY <1>5 DEF Follows
  <1>7. PICK f2 : Locates(f2, path, h, po)
    BY <1>5 DEF Follows
  <1>8. h = m \/ Len(po) = L - L
    BY <1>5
  <1> HIDE DEF ch, po, At, L, m
  <1>9. h = m
    <2> SUFFICES ASSUME h # m PROVE FALSE
      OBVIOUS
    <2>1. h + 1 \in (h + 1)..m
      BY <1>1, <1>6
    <2>2. Len(po) = 0
      BY <1>1, <1>8
    <2>3. f2[h + 1] \in 1..0
      BY <1>7, <2>1, <2>2 DEF Locates, m
    <2>4. QED
      BY <2>3
  <1>10. ch = path
    BY <1>1, <1>6, <1>9 DEF m
  <1>11. QED
    BY <1>10 DEF ch, L

(* pool.iter().position(test): the first place where the test holds. *)
LEMMA FirstPlace ==
    ASSUME NEW I \in SUBSET Nat, I # {}
    PROVE  Min(I) \in I
  <1>1. \E x \in I : \A y \in I : x <= y
    BY Count!LeastExists
  <1>2. QED
    BY <1>1 DEF Min

CrateBuilding == INSTANCE FoldTheorems WITH op <- take_issuer
SdkBuilding == INSTANCE FoldTheorems WITH op <- findIssuer

(* Where the crate's builder stops, and what it takes. *)
CrateEnds == {c \in Certificate : c.issuer = Root.subject}
CrateFits == {e \in Certificate \X Certificate : e[2].subject = e[1].issuer}

(* Where the SDK's builder stops, and what it takes. *)
SdkEnds == {Root}
SdkFits == {e \in Certificate \X Certificate : IsIssuer(e[1], e[2])}

(* A round of the crate's loop is a round of this kind, *)
LEMMA CrateRound ==
    ASSUME NEW st, IsPath(st), NEW round
    PROVE  Round(CrateEnds, CrateFits, st, take_issuer(st, round))
  <1> DEFINE last == Last(st.chain)
             I == {i \in 1..Len(st.pool) : st.pool[i].subject = last.issuer}
             st2 == take_issuer(st, round)
  <1>1. last \in Certificate /\ Len(st.pool) \in Nat
    BY DEF IsPath, Last
  <1>2. \A i \in 1..Len(st.pool) : st.pool[i] \in Certificate
    BY DEF IsPath
  <1>3. last \in CrateEnds <=> last.issuer = Root.subject
    BY <1>1 DEF CrateEnds
  <1>4. Able(CrateFits, st) = I
    BY <1>1, <1>2 DEF Able, CrateFits
  <1>a. I \in SUBSET Nat
    BY <1>1
  <1>5. I # {} => Min(I) \in I
    BY <1>a, FirstPlace
  <1>6. st2 = IF last.issuer = Root.subject THEN st
              ELSE LET i == IF I # {} THEN Min(I) ELSE 0
                   IN  IF i = 0 THEN st ELSE Moved(st, i)
    BY DEF take_issuer, TakeIssuer, SelectInSeq, Moved
  <1>7. \A i \in I : i # 0
    BY <1>1
  <1> SUFFICES Round(CrateEnds, CrateFits, st, st2)
    OBVIOUS
  <1> HIDE DEF I, st2, last
  <1>8. CASE last.issuer = Root.subject
    BY <1>3, <1>6, <1>8 DEF Round, last
  <1>9. CASE last.issuer # Root.subject /\ I = {}
    BY <1>4, <1>6, <1>9 DEF Round, last
  <1>10. CASE last.issuer # Root.subject /\ I # {}
    <2>1. st2 = Moved(st, Min(I)) /\ Min(I) \in Able(CrateFits, st)
      BY <1>4, <1>5, <1>6, <1>7, <1>10
    <2>2. QED
      BY <2>1, <1>3, <1>10 DEF Round, last
  <1>11. QED
    BY <1>8, <1>9, <1>10

(* and so is one of the SDK's. *)
LEMMA SdkRound ==
    ASSUME NEW st, IsPath(st), NEW round
    PROVE  Round(SdkEnds, SdkFits, st, findIssuer(st, round))
  <1> DEFINE last == Last(st.chain)
             I == {i \in 1..Len(st.pool) : IsIssuer(last, st.pool[i])}
             st2 == findIssuer(st, round)
  <1>1. last \in Certificate /\ Len(st.pool) \in Nat
    BY DEF IsPath, Last
  <1>2. \A i \in 1..Len(st.pool) : st.pool[i] \in Certificate
    BY DEF IsPath
  <1>3. last \in SdkEnds <=> last = Root
    BY DEF SdkEnds
  <1>4. Able(SdkFits, st) = I
    BY <1>1, <1>2 DEF Able, SdkFits
  <1>a. I \in SUBSET Nat
    BY <1>1
  <1>5. I # {} => Min(I) \in I
    BY <1>a, FirstPlace
  <1>6. st2 = IF last = Root THEN st
              ELSE LET i == IF I # {} THEN Min(I) ELSE 0
                   IN  IF i = 0 THEN st ELSE Moved(st, i)
    BY DEF findIssuer, TakeIssuer, SelectInSeq, Moved
  <1>7. \A i \in I : i # 0
    BY <1>1
  <1> SUFFICES Round(SdkEnds, SdkFits, st, st2)
    OBVIOUS
  <1> HIDE DEF I, st2, last
  <1>8. CASE last = Root
    BY <1>3, <1>6, <1>8 DEF Round, last
  <1>9. CASE last # Root /\ I = {}
    BY <1>4, <1>6, <1>9 DEF Round, last
  <1>10. CASE last # Root /\ I # {}
    <2>1. st2 = Moved(st, Min(I)) /\ Min(I) \in Able(SdkFits, st)
      BY <1>4, <1>5, <1>6, <1>7, <1>10
    <2>2. QED
      BY <2>1, <1>3, <1>10 DEF Round, last
  <1>11. QED
    BY <1>8, <1>9, <1>10

(* So build_path is the end of such a construction, *)
LEMMA CrateBuilds ==
    ASSUME NEW leaf, NEW cabundle \in Seq(Certificate)
    PROVE  \E tr : /\ Building(CrateEnds, CrateFits, leaf, cabundle, tr)
                   /\ tr[Len(cabundle)].chain = build_path(leaf, cabundle)
  <1> DEFINE base == Unbuilt(leaf, cabundle)
  <1>1. PICK tr : CrateBuilding!Trace(base, cabundle, tr)
                  /\ tr[Len(cabundle)] = CrateBuilding!Fold(base, cabundle)
    BY CrateBuilding!FoldTrace
  <1>2. build_path(leaf, cabundle) = CrateBuilding!Fold(base, cabundle).chain
    BY DEF build_path, CrateBuilding!Fold, FoldLeft, MapThenFoldSet, Max,
           CrateBuilding!FoldLeft, CrateBuilding!MapThenFoldSet, CrateBuilding!Max
  <1>3. tr[0] = base /\ \A k \in Nat : tr[k + 1] = take_issuer(tr[k], cabundle[k + 1])
    BY <1>1 DEF CrateBuilding!Trace
  <1>4. \A k \in Nat : IsPath(tr[k]) => Round(CrateEnds, CrateFits, tr[k], tr[k + 1])
    BY <1>3, CrateRound
  <1>5. QED
    BY <1>1, <1>2, <1>3, <1>4 DEF Building

(* and so is the SDK's chain. *)
LEMMA SdkBuilds ==
    ASSUME NEW leaf, NEW cabundle \in Seq(Certificate)
    PROVE  \E tr : /\ Building(SdkEnds, SdkFits, leaf, cabundle, tr)
                   /\ tr[Len(cabundle)].chain
                        = FoldLeft(findIssuer, Unbuilt(leaf, cabundle), cabundle).chain
  <1> DEFINE base == Unbuilt(leaf, cabundle)
  <1>1. PICK tr : SdkBuilding!Trace(base, cabundle, tr)
                  /\ tr[Len(cabundle)] = SdkBuilding!Fold(base, cabundle)
    BY SdkBuilding!FoldTrace
  <1>2. FoldLeft(findIssuer, base, cabundle) = SdkBuilding!Fold(base, cabundle)
    BY DEF SdkBuilding!Fold, FoldLeft, MapThenFoldSet, Max,
           SdkBuilding!FoldLeft, SdkBuilding!MapThenFoldSet, SdkBuilding!Max
  <1>3. tr[0] = base /\ \A k \in Nat : tr[k + 1] = findIssuer(tr[k], cabundle[k + 1])
    BY <1>1 DEF SdkBuilding!Trace
  <1>4. \A k \in Nat : IsPath(tr[k]) => Round(SdkEnds, SdkFits, tr[k], tr[k + 1])
    BY <1>3, SdkRound
  <1>5. QED
    BY <1>1, <1>2, <1>3, <1>4 DEF Building

-----------------------------------------------------------------------------
(* The crate's rounding *)

(* Multiples of M are at least M apart. *)
LEMMA Multiples ==
    ASSUME NEW M \in Nat \ {0}, NEW a \in Int, NEW b \in Int, a < b
    PROVE  a * M + M <= b * M
  <1> DEFINE e == b - (a + 1)
  <1>1. e \in Nat /\ b = a + 1 + e
    OBVIOUS
  <1> HIDE DEF e
  <1>2. e * M \in Nat
    BY <1>1
  <1>3. b * M = a * M + M + e * M
    BY <1>1
  <1>4. a * M \in Int /\ b * M \in Int
    OBVIOUS
  <1>5. QED
    BY <1>2, <1>3, <1>4

(* Whole seconds. *)
LEMMA Whole ==
    ASSUME NEW M \in Nat \ {0}, NEW t \in Int
    PROVE  t \div M \in Int /\ (t \div M) * M <= t /\ t < (t \div M) * M + M
  OBVIOUS

(* A bound on whole seconds is one on milliseconds. *)
LEMMA WholeAtLeast ==
    ASSUME NEW M \in Nat \ {0}, NEW t \in Int, NEW a \in Int
    PROVE  (a <= t \div M <=> a * M <= t) /\ (t \div M <= a <=> t < (a + 1) * M)
  <1> DEFINE d == t \div M
  <1>1. d \in Int /\ d * M \in Int /\ d * M <= t /\ t < d * M + M /\ M \in Int
    BY Whole
  <1>2. a * M \in Int /\ (a + 1) * M = a * M + M
    OBVIOUS
  <1>3. (d < a => d * M + M <= a * M) /\ (a < d => a * M + M <= d * M)
    BY <1>1, Multiples
  <1> HIDE DEF d
  <1>4. CASE d = a
    BY <1>1, <1>2, <1>4
  <1>5. CASE d < a
    <2> DEFINE x == a * M
               y == d * M
    <2> HIDE DEF x, y
    <2>1. x \in Int /\ y \in Int /\ (a + 1) * M = x + M /\ y + M <= x /\ y <= t /\ t < y + M
      BY <1>1, <1>2, <1>3, <1>5 DEF x, y
    <2>2. ~(x <= t) /\ t < x + M
      BY <2>1, <1>1
    <2>3. ~(a <= d) /\ d <= a
      BY <1>1, <1>5
    <2>4. QED
      BY <2>1, <2>2, <2>3 DEF x, d
  <1>6. CASE a < d
    <2> DEFINE x == a * M
               y == d * M
    <2> HIDE DEF x, y
    <2>1. x \in Int /\ y \in Int /\ (a + 1) * M = x + M /\ x + M <= y /\ y <= t /\ t < y + M
      BY <1>1, <1>2, <1>3, <1>6 DEF x, y
    <2>2. x <= t /\ ~(t < x + M)
      BY <2>1, <1>1
    <2>3. a <= d /\ ~(d <= a)
      BY <1>1, <1>6
    <2>4. QED
      BY <2>1, <2>2, <2>3 DEF x, d
  <1>7. QED
    BY <1>1, <1>4, <1>5, <1>6

(* The validity of a certificate, without division. *)
CrateValid(c, t) == t >= c.not_before * MsPerSec /\ t < (c.not_after + 1) * MsPerSec

(* verify_cert_validity checks that. *)
LEMMA ValidityValue ==
    ASSUME NEW c \in Certificate, NEW t \in Int
    PROVE  verify_cert_validity(c, t) <=> CrateValid(c, t)
  <1>1. c.not_before \in Int /\ c.not_after \in Int
    BY DEF Certificate
  <1> DEFINE nb == c.not_before
             na == c.not_after
             d == t \div MsPerSec
  <1>2. d \in Int
    BY Whole, NitroAssumption
  <1>3. (nb <= d <=> nb * MsPerSec <= t) /\ (d <= na <=> t < (na + 1) * MsPerSec)
    BY <1>1, WholeAtLeast, NitroAssumption
  <1>4. verify_cert_validity(c, t) <=> d \in nb..na
    BY DEF verify_cert_validity
  <1>5. CrateValid(c, t) <=> nb * MsPerSec <= t /\ t < (na + 1) * MsPerSec
    <2>1. nb * MsPerSec \in Int
      BY <1>1, NitroAssumption
    <2>2. QED
      BY <2>1 DEF CrateValid
  <1> HIDE DEF nb, na, d
  <1>6. d \in nb..na <=> nb <= d /\ d <= na
    BY <1>1, <1>2 DEF nb, na
  <1>7. QED
    BY <1>3, <1>4, <1>5, <1>6

(* assert_fresh rounds the age down to whole seconds, whichever clock is    *)
(* ahead.                                                                   *)
LEMMA FreshValue ==
    ASSUME NEW t \in Int, NEW now_ms \in Int
    PROVE  assert_fresh(t, now_ms) <=> Abs(now_ms - t) < (MaxSkew + 1) * MsPerSec
  <1> DEFINE x == now_ms - t
             a == Abs(x)
             M == MsPerSec
  <1>1. x \in Int /\ M \in Nat \ {0} /\ MaxSkew \in Nat
    BY NitroAssumption
  <1>2. a \in Int /\ a >= 0 /\ (x >= 0 => a = x) /\ (~(x >= 0) => a = -x)
    BY <1>1 DEF Abs
  <1>3. assert_fresh(t, now_ms) <=> Abs(truncated(x, M)) <= MaxSkew
    BY DEF assert_fresh
  <1> HIDE DEF x, a, M
  <1>4. a \div M \in Int /\ a \div M >= 0
    <2>1. a \div M \in Int
      BY <1>1, <1>2, Whole
    <2>2. 0 <= a \div M <=> 0 * M <= a
      BY <1>1, <1>2, WholeAtLeast
    <2>3. 0 * M = 0
      BY <1>1
    <2>4. QED
      BY <2>1, <2>2, <2>3, <1>2
  <1>5. Abs(truncated(x, M)) = a \div M
    <2> DEFINE d == a \div M
    <2>1. d \in Int /\ d >= 0 /\ (truncated(x, M) = d \/ truncated(x, M) = -d)
      BY <1>1, <1>2, <1>4 DEF truncated
    <2> HIDE DEF d
    <2>2. Abs(truncated(x, M)) = d
      BY <2>1 DEF Abs
    <2>3. QED
      BY <2>2 DEF d
  <1>6. a \div M <= MaxSkew <=> a < (MaxSkew + 1) * M
    BY <1>1, <1>2, WholeAtLeast
  <1>7. QED
    BY <1>3, <1>5, <1>6 DEF a, x, M

-----------------------------------------------------------------------------
(* What is trusted *)

(* The chain of Trusted. *)
Full(leaf, cabundle, n, pick) == <<leaf>> \o [k \in 1..n |-> cabundle[pick[k]]] \o <<Root>>

IsFull(leaf, cabundle, n, pick, full) ==
    /\ full \in Seq(Certificate) /\ Len(full) = n + 2 /\ full[1] = leaf /\ full[n + 2] = Root
    /\ \A k \in 1..n : full[k + 1] = cabundle[pick[k]]

(* ab is a followed by b. *)
IsJoin(T, a, b, ab) ==
    /\ ab \in Seq(T) /\ Len(ab) = Len(a) + Len(b)
    /\ \A k \in 1..Len(a) : ab[k] = a[k]
    /\ \A k \in 1..Len(b) : ab[Len(a) + k] = b[k]

(* Joining two sequences. *)
LEMMA JoinValue ==
    ASSUME NEW T, NEW a \in Seq(T), NEW b \in Seq(T)
    PROVE  IsJoin(T, a, b, a \o b)
  BY DEF IsJoin

(* Its certificates, one by one. *)
LEMMA FullValue ==
    ASSUME NEW leaf \in Certificate, NEW cabundle \in Seq(Certificate), NEW n \in Nat,
           NEW pick \in [1..n -> 1..Len(cabundle)]
    PROVE  IsFull(leaf, cabundle, n, pick, Full(leaf, cabundle, n, pick))
  <1> DEFINE a == <<leaf>>
             b == [k \in 1..n |-> cabundle[pick[k]]]
             c == <<Root>>
  <1>1. a \in Seq(Certificate) /\ Len(a) = 1 /\ a[1] = leaf
    OBVIOUS
  <1>2. c \in Seq(Certificate) /\ Len(c) = 1 /\ c[1] = Root
    BY NitroAssumption
  <1>3. \A k \in 1..n : cabundle[pick[k]] \in Certificate
    OBVIOUS
  <1>4. b \in Seq(Certificate) /\ Len(b) = n /\ \A k \in 1..n : b[k] = cabundle[pick[k]]
    BY <1>3
  <1> HIDE DEF a, b, c
  <1> DEFINE ab == a \o b
  <1>5. /\ ab \in Seq(Certificate) /\ Len(ab) = n + 1 /\ ab[1] = leaf
        /\ \A k \in 1..n : ab[k + 1] = cabundle[pick[k]]
    <2>0. IsJoin(Certificate, a, b, ab)
      BY <1>1, <1>4, JoinValue
    <2> HIDE DEF ab
    <2>1. /\ ab \in Seq(Certificate) /\ Len(ab) = Len(a) + Len(b)
          /\ \A k \in 1..Len(a) : ab[k] = a[k]
          /\ \A k \in 1..Len(b) : ab[Len(a) + k] = b[k]
      BY <2>0 DEF IsJoin
    <2>2. Len(ab) = n + 1 /\ ab[1] = leaf
      BY <2>1, <1>1, <1>4
    <2>3. \A k \in 1..n : ab[1 + k] = b[k] /\ 1 + k = k + 1
      BY <2>1, <1>1, <1>4
    <2>4. QED
      BY <2>1, <2>2, <2>3, <1>4
  <1>6. Full(leaf, cabundle, n, pick) = ab \o c
    BY DEF Full, a, b, c
  <1> HIDE DEF ab
  <1>b. ab \in Seq(Certificate) /\ c \in Seq(Certificate)
    BY <1>2, <1>5
  <1> DEFINE full == ab \o c
  <1>c. IsJoin(Certificate, ab, c, full)
    BY <1>b, JoinValue
  <1> HIDE DEF full
  <1>7. /\ full \in Seq(Certificate) /\ Len(full) = Len(ab) + Len(c)
        /\ \A k \in 1..Len(ab) : full[k] = ab[k]
        /\ \A k \in 1..Len(c) : full[Len(ab) + k] = c[k]
    BY <1>c DEF IsJoin
  <1>8. Len(full) = n + 2 /\ full[1] = leaf
    BY <1>2, <1>5, <1>7
  <1>a. full[n + 2] = Root
    <2>1. 1 \in 1..Len(c) /\ Len(ab) + 1 = n + 2
      BY <1>2, <1>5
    <2>2. full[Len(ab) + 1] = c[1]
      BY <1>7, <2>1
    <2>3. QED
      BY <2>1, <2>2, <1>2
  <1>9. \A k \in 1..n : full[k + 1] = ab[k + 1]
    BY <1>5, <1>7
  <1>10. IsFull(leaf, cabundle, n, pick, full)
    BY <1>5, <1>7, <1>8, <1>9, <1>a DEF IsFull
  <1>11. QED
    BY <1>6, <1>10 DEF full

(* What the crate asks of a certificate and the one that issued it, with k  *)
(* authorities below.                                                       *)
CrateLink(c, d, k) ==
    /\ c.issuer = d.subject /\ c.signed_by = d.key
    /\ d.ca /\ (d.path_len = <<>> \/ k <= d.path_len[1])

CrateTrusted(leaf, cabundle, t) ==
    Trusted(leaf, cabundle, LAMBDA c, n : c.path_len = <<>> \/ n <= c.path_len[1],
            LAMBDA c : t >= c.not_before * MsPerSec /\ t < (c.not_after + 1) * MsPerSec)

CrateChain(full, n, t) ==
    /\ \A k \in 1..(n + 1) : CrateLink(full[k], full[k + 1], k - 1)
    /\ \A k \in 1..(n + 2) : CrateValid(full[k], t)

(* Trusted, in these words. *)
LEMMA CrateTrustedValue ==
    ASSUME NEW leaf, NEW cabundle, NEW t
    PROVE  CrateTrusted(leaf, cabundle, t)
             <=> \E n \in 0..Len(cabundle) : \E pick \in Injection(1..n, 1..Len(cabundle)) :
                    CrateChain(Full(leaf, cabundle, n, pick), n, t)
  <1> DEFINE Body(full, n) ==
               /\ \A k \in 1..(n + 1) :
                     /\ full[k].issuer = full[k + 1].subject
                     /\ full[k].signed_by = full[k + 1].key
                     /\ full[k + 1].ca /\ (full[k + 1].path_len = <<>> \/ k - 1 <= full[k + 1].path_len[1])
               /\ \A k \in 1..(n + 2) :
                     t >= full[k].not_before * MsPerSec /\ t < (full[k].not_after + 1) * MsPerSec
  <1>1. CrateTrusted(leaf, cabundle, t)
          <=> \E n \in 0..Len(cabundle) : \E pick \in Injection(1..n, 1..Len(cabundle)) :
                 Body(Full(leaf, cabundle, n, pick), n)
    BY DEF CrateTrusted, Trusted, Full
  <1>2. ASSUME NEW full, NEW n PROVE Body(full, n) <=> CrateChain(full, n, t)
    BY Zenon DEF CrateChain, CrateLink, CrateValid
  <1> HIDE DEF Body
  <1>3. QED
    BY <1>1, <1>2, Zenon

(* What the crate asks of the path it built. *)
CratePath(ch, t) ==
    LET is(i) == IF i = Len(ch) THEN Root ELSE ch[i + 1]
    IN  /\ Last(ch).issuer = Root.subject
        /\ \A i \in 1..Len(ch) : CrateValid(ch[i], t) /\ CrateLink(ch[i], is(i), i - 1)
        /\ CrateValid(Root, t)

(* That is what verify_chain checks. *)
LEMMA VerifyChainValue ==
    ASSUME NEW leaf, NEW cabundle, NEW t \in Int, build_path(leaf, cabundle) \in Seq(Certificate)
    PROVE  verify_chain(leaf, cabundle, t) <=> CratePath(build_path(leaf, cabundle), t)
  <1> DEFINE ch == build_path(leaf, cabundle)
             is(i) == IF i = Len(ch) THEN Root ELSE ch[i + 1]
  <1>1. \A i \in 1..Len(ch) : verify_cert_validity(ch[i], t) <=> CrateValid(ch[i], t)
    BY ValidityValue
  <1>2. verify_cert_validity(Root, t) <=> CrateValid(Root, t)
    BY ValidityValue, NitroAssumption
  <1>3. verify_chain(leaf, cabundle, t) <=>
           /\ Last(ch).issuer = Root.subject
           /\ \A i \in 1..Len(ch) :
                 /\ verify_cert_validity(ch[i], t)
                 /\ ch[i].issuer = is(i).subject
                 /\ assert_ca_constraints(is(i), i - 1)
                 /\ verify_cert_signature(ch[i], is(i))
           /\ verify_cert_validity(Root, t)
    BY Zenon DEF verify_chain
  <1>4. CratePath(ch, t) <=>
           /\ Last(ch).issuer = Root.subject
           /\ \A i \in 1..Len(ch) : CrateValid(ch[i], t) /\ CrateLink(ch[i], is(i), i - 1)
           /\ CrateValid(Root, t)
    BY Zenon DEF CratePath
  <1> HIDE DEF ch
  <1>5. \A i \in 1..Len(ch) :
           CrateLink(ch[i], is(i), i - 1) <=>
              /\ ch[i].issuer = is(i).subject
              /\ assert_ca_constraints(is(i), i - 1)
              /\ verify_cert_signature(ch[i], is(i))
    BY Zenon DEF CrateLink, assert_ca_constraints, verify_cert_signature
  <1> HIDE DEF is
  <1>6. QED
    BY <1>1, <1>2, <1>3, <1>4, <1>5, Zenon DEF ch

(* The crate accepts only what is trusted, *)
LEMMA CrateSound ==
    ASSUME NEW leaf \in Certificate, NEW cabundle \in Seq(Certificate), NEW t \in Int,
           verify_chain(leaf, cabundle, t)
    PROVE  CrateTrusted(leaf, cabundle, t)
  <1> DEFINE ch == build_path(leaf, cabundle)
             L == Len(cabundle)
             n == Len(ch) - 1
  <1>1. PICK tr : Building(CrateEnds, CrateFits, leaf, cabundle, tr) /\ tr[L].chain = ch
    BY CrateBuilds
  <1>2. L \in Nat
    OBVIOUS
  <1>3. PICK g : Drawn(CrateFits, leaf, cabundle, tr[L].chain, tr[L].pool, g)
    BY <1>1, <1>2, DrawnAlways
  <1> DEFINE po == tr[L].pool
  <1>4. Drawn(CrateFits, leaf, cabundle, ch, po, g)
    BY <1>1, <1>3
  <1> HIDE DEF ch, po, L
  <1>5. ch \in Seq(Certificate) /\ po \in Seq(Certificate) /\ ch[1] = leaf
    BY <1>4 DEF Drawn
  <1>6. Len(ch) >= 1 /\ Len(ch) + Len(po) = L + 1
    BY <1>4 DEF Drawn, L
  <1>7. n \in 0..L /\ n \in Nat /\ Len(ch) = n + 1
    BY <1>2, <1>5, <1>6
  <1>8. g \in [1..L -> 1..L] /\ \A a, b \in 1..L : g[a] = g[b] => a = b
    BY <1>4 DEF Drawn, L
  <1>9. \A j \in 1..n : ch[j + 1] = cabundle[g[j]]
    BY <1>4 DEF Drawn
  <1>10. CratePath(ch, t)
    BY <1>5, VerifyChainValue DEF ch
  <1> HIDE DEF n
  <1> DEFINE pick == [k \in 1..n |-> g[k]]
  <1>11. \A k \in 1..n : k \in 1..L
    BY <1>2, <1>7
  <1>12. pick \in [1..n -> 1..L] /\ \A k \in 1..n : pick[k] = g[k]
    BY <1>8, <1>11
  <1>13. \A a, b \in 1..n : pick[a] = pick[b] => a = b
    BY <1>8, <1>11, <1>12
  <1>14. DOMAIN pick = 1..n
    OBVIOUS
  <1> HIDE DEF pick
  <1>15. pick \in Injection(1..n, 1..L)
    BY <1>12, <1>13, <1>14 DEF Injection, IsInjective
  <1> DEFINE full == Full(leaf, cabundle, n, pick)
  <1>16. IsFull(leaf, cabundle, n, pick, full)
    BY <1>7, <1>12, FullValue DEF L
  <1> HIDE DEF full
  <1>17. full[n + 2] = Root /\ \A k \in 1..(n + 1) : full[k] = ch[k]
    <2>1. full[n + 2] = Root /\ full[1] = ch[1]
      BY <1>5, <1>16 DEF IsFull
    <2>2. \A k \in 1..n : full[k + 1] = ch[k + 1]
      BY <1>9, <1>12, <1>16 DEF IsFull
    <2>3. ASSUME NEW k \in 1..(n + 1) PROVE full[k] = ch[k]
      <3>1. CASE k = 1
        BY <3>1, <2>1
      <3>2. CASE k # 1
        <4>1. k - 1 \in 1..n /\ (k - 1) + 1 = k
          BY <3>2, <1>7
        <4>2. QED
          BY <4>1, <2>2
      <3>3. QED
        BY <3>1, <3>2
    <2>4. QED
      BY <2>1, <2>3
  <1>18. ASSUME NEW k \in 1..(n + 1) PROVE CrateLink(full[k], full[k + 1], k - 1)
    <2>1. k \in 1..Len(ch) /\ full[k] = ch[k]
      BY <1>7, <1>17
    <2>2. CrateLink(ch[k], IF k = Len(ch) THEN Root ELSE ch[k + 1], k - 1)
      BY <1>10, <2>1 DEF CratePath
    <2>3. full[k + 1] = IF k = Len(ch) THEN Root ELSE ch[k + 1]
      <3>1. CASE k = n + 1
        <4>1. k + 1 = n + 2 /\ k = Len(ch)
          BY <3>1, <1>7
        <4>2. QED
          BY <4>1, <1>17
      <3>2. CASE k # n + 1
        <4>1. k + 1 \in 1..(n + 1) /\ k # Len(ch)
          BY <3>2, <1>7
        <4>2. QED
          BY <4>1, <1>17
      <3>3. QED
        BY <3>1, <3>2
    <2>4. QED
      BY <2>1, <2>2, <2>3
  <1>19. ASSUME NEW k \in 1..(n + 2) PROVE CrateValid(full[k], t)
    <2>1. CASE k = n + 2
      BY <2>1, <1>10, <1>17 DEF CratePath
    <2>2. CASE k # n + 2
      <3>1. k \in 1..(n + 1) /\ k \in 1..Len(ch)
        BY <2>2, <1>7
      <3>2. CrateValid(ch[k], t)
        BY <3>1, <1>10 DEF CratePath
      <3>3. QED
        BY <3>1, <3>2, <1>17
    <2>3. QED
      BY <2>1, <2>2
  <1>20. CrateChain(full, n, t)
    BY <1>18, <1>19 DEF CrateChain
  <1>21. QED
    BY <1>7, <1>15, <1>20, CrateTrustedValue DEF full, L

(* No two authorities share a name. *)
ApartByName(cabundle) == \A c, d \in ToSet(cabundle) \cup {Root} : c.subject = d.subject => c = d

(* The least place where something holds. *)
LEMMA First ==
    ASSUME NEW W \in SUBSET (Nat \ {0}), W # {}
    PROVE  \E m \in W : \A j \in 1..(m - 1) : j \notin W
  <1>1. PICK m \in W : \A y \in W : m <= y
    BY Count!LeastExists
  <1>2. ASSUME NEW j \in 1..(m - 1) PROVE j \notin W
    BY <1>1
  <1>3. QED
    BY <1>1, <1>2

(* and everything trusted if no two authorities share a name: the path to   *)
(* the first certificate that the root issued is the one it finds.          *)
LEMMA CrateComplete ==
    ASSUME NEW leaf \in Certificate, NEW cabundle \in Seq(Certificate), NEW t \in Int,
           ApartByName(cabundle), CrateTrusted(leaf, cabundle, t)
    PROVE  verify_chain(leaf, cabundle, t)
  <1> DEFINE L == Len(cabundle)
  <1>0. PICK n \in 0..L : \E pick \in Injection(1..n, 1..L) :
           CrateChain(Full(leaf, cabundle, n, pick), n, t)
    BY CrateTrustedValue
  <1>1. PICK pick \in Injection(1..n, 1..L) : CrateChain(Full(leaf, cabundle, n, pick), n, t)
    BY <1>0
  <1>2. n \in Nat /\ L \in Nat /\ n <= L
    OBVIOUS
  <1>3. pick \in [1..n -> 1..L] /\ \A a, b \in 1..n : pick[a] = pick[b] => a = b
    BY DEF Injection, IsInjective
  <1> DEFINE full == Full(leaf, cabundle, n, pick)
  <1>4. IsFull(leaf, cabundle, n, pick, full)
    BY <1>2, <1>3, FullValue
  <1>5. CrateChain(full, n, t)
    BY <1>1
  <1> HIDE DEF full, L
  <1>6. full \in Seq(Certificate) /\ Len(full) = n + 2 /\ full[1] = leaf /\ full[n + 2] = Root
    BY <1>4 DEF IsFull
  <1>7. \A k \in 1..n : full[k + 1] = cabundle[pick[k]]
    BY <1>4 DEF IsFull
  <1>8. \A k \in 1..(n + 1) : full[k].issuer = full[k + 1].subject
    BY <1>5 DEF CrateChain, CrateLink
  <1>9. \A k \in 1..(n + 2) : full[k] \in Certificate
    BY <1>6
  <1> DEFINE W == {k \in 1..(n + 1) : full[k] \in CrateEnds}
  <1>10. n + 1 \in W
    <2>1. n + 1 \in 1..(n + 1) /\ n + 1 \in 1..(n + 2) /\ (n + 1) + 1 = n + 2
      BY <1>2
    <2>2. full[n + 1].issuer = Root.subject /\ full[n + 1] \in Certificate
      BY <2>1, <1>6, <1>8, <1>9
    <2>3. QED
      BY <2>1, <2>2 DEF CrateEnds
  <1>a. W \in SUBSET (Nat \ {0})
    BY <1>2
  <1>11. PICK m \in W : \A j \in 1..(m - 1) : j \notin W
    BY <1>a, <1>10, First
  <1>12. m \in 1..(n + 1) /\ full[m].issuer = Root.subject /\ full[m] \in CrateEnds
    BY <1>11 DEF CrateEnds
  <1>13. \A j \in 1..(m - 1) : j \in 1..(n + 1) /\ full[j] \notin CrateEnds
    BY <1>2, <1>11, <1>12
  <1> HIDE DEF W
  <1> DEFINE path == [k \in 1..m |-> full[k]]
  <1>14. /\ path \in Seq(Certificate) /\ Len(path) = m /\ \A k \in 1..m : path[k] = full[k]
    <2>1. \A k \in 1..m : full[k] \in Certificate
      BY <1>2, <1>9, <1>12
    <2>2. m \in Nat
      BY <1>12, <1>2
    <2>3. QED
      BY <2>1, <2>2
  <1> HIDE DEF path
  <1>15. ASSUME NEW k \in 1..n
         PROVE  pick[k] \in 1..L /\ full[k + 1] \in ToSet(cabundle) \cup {Root}
    <2>1. pick[k] \in 1..L /\ pick[k] \in DOMAIN cabundle
      BY <1>3 DEF L
    <2>2. QED
      BY <2>1, <1>7 DEF ToSet
  <1>16. \A k \in 1..(n + 1) : full[k + 1] \in ToSet(cabundle) \cup {Root}
    <2> SUFFICES ASSUME NEW k \in 1..(n + 1) PROVE full[k + 1] \in ToSet(cabundle) \cup {Root}
      OBVIOUS
    <2>1. CASE k = n + 1
      <3>1. k + 1 = n + 2
        BY <2>1, <1>2
      <3>2. QED
        BY <3>1, <1>6
    <2>2. CASE k # n + 1
      <3>1. k \in 1..n
        BY <2>2, <1>2
      <3>2. QED
        BY <3>1, <1>15
    <2>3. QED
      BY <2>1, <2>2
  <1>17. full[m + 1] = Root
    <2>1. full[m + 1].subject = Root.subject
      BY <1>8, <1>12
    <2>2. full[m + 1] \in ToSet(cabundle) \cup {Root}
      BY <1>12, <1>16
    <2>3. QED
      BY <2>1, <2>2 DEF ApartByName
  <1>18. Findable(CrateEnds, CrateFits, leaf, cabundle, path)
    <2>1. Len(path) >= 1 /\ path[1] = leaf /\ path[Len(path)] \in CrateEnds
      BY <1>2, <1>6, <1>12, <1>14
    <2>2. ASSUME NEW j \in 1..(Len(path) - 1)
          PROVE  /\ path[j] \notin CrateEnds /\ <<path[j], path[j + 1]>> \in CrateFits
                 /\ \A i \in 1..Len(cabundle) :
                       <<path[j], cabundle[i]>> \in CrateFits => cabundle[i] = path[j + 1]
      <3>1. j \in 1..(m - 1) /\ j \in 1..m /\ j + 1 \in 1..m /\ j \in 1..n /\ j \in 1..(n + 1)
        BY <1>2, <1>12, <1>14
      <3>2. path[j] = full[j] /\ path[j + 1] = full[j + 1]
        BY <3>1, <1>14
      <3>3. path[j] \in Certificate /\ path[j + 1] \in Certificate
        BY <3>1, <1>14
      <3>4. path[j] \notin CrateEnds
        BY <3>1, <3>2, <1>13
      <3>5. path[j].issuer = path[j + 1].subject
        BY <3>1, <3>2, <1>8
      <3>6. <<path[j], path[j + 1]>> \in CrateFits
        BY <3>3, <3>5 DEF CrateFits
      <3>7. ASSUME NEW i \in 1..Len(cabundle), <<path[j], cabundle[i]>> \in CrateFits
            PROVE  cabundle[i] = path[j + 1]
        <4>1. cabundle[i].subject = path[j].issuer
          BY <3>7 DEF CrateFits
        <4>2. cabundle[i] \in ToSet(cabundle) \cup {Root}
          BY DEF ToSet
        <4>3. path[j + 1] \in ToSet(cabundle) \cup {Root}
          BY <3>1, <3>2, <1>16
        <4>4. QED
          BY <4>1, <4>2, <4>3, <3>5 DEF ApartByName
      <3>8. QED
        BY <3>4, <3>6, <3>7
    <2>3. QED
      BY <2>1, <2>2, <1>14 DEF Findable
  <1> DEFINE f == [j \in 2..m |-> pick[j - 1]]
  <1>19. Locates(f, path, 1, cabundle)
    <2>1. ASSUME NEW j \in 2..m PROVE j - 1 \in 1..n /\ j \in 1..m /\ (j - 1) + 1 = j
      BY <1>2, <1>12
    <2>2. \A j \in 2..m : pick[j - 1] \in 1..L
      BY <2>1, <1>3
    <2>3. f \in [2..m -> 1..L] /\ \A j \in 2..m : f[j] = pick[j - 1]
      BY <2>2
    <2> HIDE DEF f
    <2>4. ASSUME NEW a \in 2..m, NEW b \in 2..m, f[a] = f[b] PROVE a = b
      <3>1. a - 1 \in 1..n /\ b - 1 \in 1..n /\ pick[a - 1] = pick[b - 1]
        BY <2>1, <2>3, <2>4
      <3>2. a - 1 = b - 1
        BY <3>1, <1>3
      <3>3. QED
        BY <3>2
    <2>5. ASSUME NEW j \in 2..m PROVE cabundle[f[j]] = path[j]
      <3>1. j - 1 \in 1..n /\ j \in 1..m /\ (j - 1) + 1 = j
        BY <2>1
      <3>2. full[(j - 1) + 1] = cabundle[pick[j - 1]]
        BY <3>1, <1>7
      <3>3. QED
        BY <3>1, <3>2, <2>3, <1>14
    <2>6. 1 + 1 = 2
      OBVIOUS
    <2>7. QED
      BY <2>3, <2>4, <2>5, <2>6, <1>14 DEF Locates, L
  <1> HIDE DEF f
  <1>20. PICK tr : /\ Building(CrateEnds, CrateFits, leaf, cabundle, tr)
                   /\ tr[Len(cabundle)].chain = build_path(leaf, cabundle)
    BY CrateBuilds
  <1>21. build_path(leaf, cabundle) = path
    BY <1>18, <1>19, <1>20, PathFound
  <1>22. CratePath(path, t)
    <2>1. Last(path).issuer = Root.subject
      BY <1>12, <1>14 DEF Last
    <2>2. CrateValid(Root, t)
      BY <1>2, <1>5, <1>6 DEF CrateChain
    <2>3. ASSUME NEW i \in 1..Len(path)
          PROVE  /\ CrateValid(path[i], t)
                 /\ CrateLink(path[i], IF i = Len(path) THEN Root ELSE path[i + 1], i - 1)
      <3>1. i \in 1..m /\ i \in 1..(n + 1) /\ i \in 1..(n + 2) /\ path[i] = full[i]
        BY <1>2, <1>12, <1>14
      <3>2. CrateValid(full[i], t) /\ CrateLink(full[i], full[i + 1], i - 1)
        BY <3>1, <1>5 DEF CrateChain
      <3>3. full[i + 1] = IF i = Len(path) THEN Root ELSE path[i + 1]
        <4>1. CASE i = m
          BY <4>1, <1>14, <1>17
        <4>2. CASE i # m
          <5>1. i + 1 \in 1..m
            BY <4>2, <3>1, <1>2, <1>12
          <5>2. QED
            BY <5>1, <4>2, <1>14
        <4>3. QED
          BY <4>1, <4>2
      <3>4. QED
        BY <3>1, <3>2, <3>3
    <2>4. QED
      BY <2>1, <2>2, <2>3 DEF CratePath
  <1>23. QED
    BY <1>14, <1>21, <1>22, VerifyChainValue

(* What the SDK asks of a certificate and the one that issued it. *)
SdkLink(c, d) == c.issuer = d.subject /\ c.signed_by = d.key /\ d.ca

SdkValid(c, t) == t \in (c.not_before * MsPerSec)..(c.not_after * MsPerSec)

SdkTrusted(leaf, cabundle, t) ==
    Trusted(leaf, cabundle, LAMBDA c, n : TRUE,
            LAMBDA c : t \in (c.not_before * MsPerSec)..(c.not_after * MsPerSec))

SdkChain(full, n, t) ==
    /\ \A k \in 1..(n + 1) : SdkLink(full[k], full[k + 1])
    /\ \A k \in 1..(n + 2) : SdkValid(full[k], t)

(* Trusted, in these words. *)
LEMMA SdkTrustedValue ==
    ASSUME NEW leaf, NEW cabundle, NEW t
    PROVE  SdkTrusted(leaf, cabundle, t)
             <=> \E n \in 0..Len(cabundle) : \E pick \in Injection(1..n, 1..Len(cabundle)) :
                    SdkChain(Full(leaf, cabundle, n, pick), n, t)
  <1> DEFINE Body(full, n) ==
               /\ \A k \in 1..(n + 1) :
                     /\ full[k].issuer = full[k + 1].subject
                     /\ full[k].signed_by = full[k + 1].key
                     /\ full[k + 1].ca /\ TRUE
               /\ \A k \in 1..(n + 2) : t \in (full[k].not_before * MsPerSec)..(full[k].not_after * MsPerSec)
  <1>1. SdkTrusted(leaf, cabundle, t)
          <=> \E n \in 0..Len(cabundle) : \E pick \in Injection(1..n, 1..Len(cabundle)) :
                 Body(Full(leaf, cabundle, n, pick), n)
    BY DEF SdkTrusted, Trusted, Full
  <1>2. ASSUME NEW full, NEW n PROVE Body(full, n) <=> SdkChain(full, n, t)
    BY Zenon DEF SdkChain, SdkLink, SdkValid
  <1> HIDE DEF Body
  <1>3. QED
    BY <1>1, <1>2, Zenon

(* certIsValid checks the validity to the millisecond. *)
LEMMA SdkValidityValue ==
    ASSUME NEW c \in Certificate, NEW t \in Int
    PROVE  certIsValid(c, t) <=> SdkValid(c, t)
  <1> DEFINE x == c.not_before * MsPerSec
             y == c.not_after * MsPerSec
  <1>1. x \in Int /\ y \in Int
    BY NitroAssumption DEF Certificate
  <1>2. (certIsValid(c, t) <=> t >= x /\ t <= y) /\ (SdkValid(c, t) <=> t \in x..y)
    BY DEF certIsValid, SdkValid
  <1> HIDE DEF x, y
  <1>3. QED
    BY <1>1, <1>2

(* What validateCertificatePath asks of the path it built. *)
SdkPath(ch, t) ==
    Last(ch) = Root /\ \A i \in 1..Len(ch) : SdkValid(ch[i], t) /\ (i > 1 => ch[i].ca)

SdkBuilt(leaf, cabundle) == FoldLeft(findIssuer, Unbuilt(leaf, cabundle), cabundle).chain

(* It asks that, and that the root is in the bundle. *)
LEMMA ValidateValue ==
    ASSUME NEW leaf, NEW cabundle, NEW t \in Int, SdkBuilt(leaf, cabundle) \in Seq(Certificate)
    PROVE  validateCertificatePath(leaf, cabundle, t)
             <=> Contains(cabundle, Root) /\ SdkPath(SdkBuilt(leaf, cabundle), t)
  <1> DEFINE ch == SdkBuilt(leaf, cabundle)
  <1>1. \A i \in 1..Len(ch) : certIsValid(ch[i], t) <=> SdkValid(ch[i], t)
    BY SdkValidityValue
  <1>2. validateCertificatePath(leaf, cabundle, t) <=>
           /\ Contains(cabundle, Root)
           /\ Last(ch) = Root
           /\ \A i \in 1..Len(ch) : certIsValid(ch[i], t) /\ (i > 1 => ch[i].ca)
           /\ Root.signed_by = Root.key
    BY Zenon DEF validateCertificatePath, SdkBuilt
  <1> HIDE DEF ch
  <1>3. Root.signed_by = Root.key
    BY NitroAssumption
  <1>4. SdkPath(ch, t) <=>
           Last(ch) = Root /\ \A i \in 1..Len(ch) : SdkValid(ch[i], t) /\ (i > 1 => ch[i].ca)
    BY DEF SdkPath
  <1>5. QED
    BY <1>1, <1>2, <1>3, <1>4, Zenon DEF ch

(* The SDK accepts only what is trusted, *)
LEMMA SdkSound ==
    ASSUME NEW leaf \in Certificate, NEW cabundle \in Seq(Certificate), NEW t \in Int,
           validateCertificatePath(leaf, cabundle, t)
    PROVE  SdkTrusted(leaf, cabundle, t)
  <1> DEFINE ch == SdkBuilt(leaf, cabundle)
             L == Len(cabundle)
  <1>1. PICK tr : Building(SdkEnds, SdkFits, leaf, cabundle, tr) /\ tr[L].chain = ch
    BY SdkBuilds DEF SdkBuilt
  <1>2. L \in Nat
    OBVIOUS
  <1>3. PICK g : Drawn(SdkFits, leaf, cabundle, tr[L].chain, tr[L].pool, g)
    BY <1>1, <1>2, DrawnAlways
  <1> DEFINE po == tr[L].pool
  <1>4. Drawn(SdkFits, leaf, cabundle, ch, po, g)
    BY <1>1, <1>3
  <1> HIDE DEF ch, po, L
  <1>5. ch \in Seq(Certificate) /\ po \in Seq(Certificate) /\ ch[1] = leaf
    BY <1>4 DEF Drawn
  <1>6. Len(ch) >= 1 /\ Len(ch) + Len(po) = L + 1
    BY <1>4 DEF Drawn, L
  <1>7. g \in [1..L -> 1..L] /\ \A a, b \in 1..L : g[a] = g[b] => a = b
    BY <1>4 DEF Drawn, L
  <1>8. \A j \in 1..(Len(ch) - 1) : ch[j + 1] = cabundle[g[j]] /\ <<ch[j], ch[j + 1]>> \in SdkFits
    BY <1>4 DEF Drawn
  <1>9. SdkPath(ch, t)
    BY <1>5, ValidateValue DEF ch
  <1>10. Last(ch) = Root /\ ch[Len(ch)] = Root
    BY <1>9 DEF SdkPath, Last
  <1>11. CASE Len(ch) = 1
    <2> DEFINE pick == [k \in 1..0 |-> 1]
    <2>1. pick \in [1..0 -> 1..L] /\ DOMAIN pick = 1..0 /\ \A a, b \in 1..0 : pick[a] = pick[b] => a = b
      OBVIOUS
    <2> HIDE DEF pick
    <2>2. pick \in Injection(1..0, 1..L)
      BY <2>1 DEF Injection, IsInjective
    <2> DEFINE full == Full(leaf, cabundle, 0, pick)
    <2>3. IsFull(leaf, cabundle, 0, pick, full)
      BY <2>1, FullValue DEF L
    <2> HIDE DEF full
    <2>4. full[1] = Root /\ full[2] = Root
      BY <2>3, <1>5, <1>10, <1>11 DEF IsFull
    <2>5. SdkValid(Root, t)
      BY <1>9, <1>10, <1>11 DEF SdkPath
    <2>6. SdkLink(Root, Root)
      BY NitroAssumption DEF SdkLink
    <2>7. \A k \in 1..(0 + 1) : k = 1 /\ k + 1 = 2
      OBVIOUS
    <2>8. \A k \in 1..(0 + 2) : k = 1 \/ k = 2
      OBVIOUS
    <2>9. SdkChain(full, 0, t)
      BY <2>4, <2>5, <2>6, <2>7, <2>8 DEF SdkChain
    <2>10. 0 \in 0..L
      BY <1>2
    <2>11. QED
      BY <2>2, <2>9, <2>10, SdkTrustedValue DEF full, L
  <1>12. CASE Len(ch) # 1
    <2> DEFINE n == Len(ch) - 2
    <2>a. Len(ch) \in Nat /\ Len(po) \in Nat
      BY <1>5
    <2>b. \A x, y, z \in Nat : x >= 1 /\ x # 1 /\ x + y = z + 1 =>
             x - 2 \in 0..z /\ x - 2 \in Nat /\ x = (x - 2) + 2
      OBVIOUS
    <2>1. n \in 0..L /\ n \in Nat /\ Len(ch) = n + 2
      BY <2>a, <2>b, <1>2, <1>6, <1>12
    <2>2. \A k \in 1..n : k \in 1..L
      BY <1>2, <2>1
    <2>3. \A j \in 1..(n + 1) : j \in 1..(Len(ch) - 1)
      BY <2>1
    <2> HIDE DEF n
    <2>4. \A j \in 1..(n + 1) : <<ch[j], ch[j + 1]>> \in SdkFits
      BY <2>3, <1>8
    <2>5. \A j \in 1..n : ch[j + 1] = cabundle[g[j]]
      <3>1. \A j \in 1..n : j \in 1..(n + 1)
        BY <2>1
      <3>2. QED
        BY <3>1, <2>3, <1>8
    <2> DEFINE pick == [k \in 1..n |-> g[k]]
    <2>6. pick \in [1..n -> 1..L] /\ DOMAIN pick = 1..n /\ \A k \in 1..n : pick[k] = g[k]
      BY <1>7, <2>2
    <2> HIDE DEF pick
    <2>7. \A a, b \in 1..n : pick[a] = pick[b] => a = b
      BY <1>7, <2>2, <2>6
    <2>8. pick \in Injection(1..n, 1..L)
      BY <2>6, <2>7 DEF Injection, IsInjective
    <2> DEFINE full == Full(leaf, cabundle, n, pick)
    <2>9. IsFull(leaf, cabundle, n, pick, full)
      BY <2>1, <2>6, FullValue DEF L
    <2> HIDE DEF full
    <2>10. ASSUME NEW k \in 1..(n + 2) PROVE full[k] = ch[k]
      <3>1. CASE k = 1
        BY <3>1, <1>5, <2>9 DEF IsFull
      <3>2. CASE k = n + 2
        BY <3>2, <1>10, <2>1, <2>9 DEF IsFull
      <3>3. CASE k # 1 /\ k # n + 2
        <4>1. k - 1 \in 1..n /\ (k - 1) + 1 = k
          BY <3>3, <2>1
        <4>2. full[(k - 1) + 1] = cabundle[pick[k - 1]] /\ ch[(k - 1) + 1] = cabundle[g[k - 1]]
          BY <4>1, <2>5, <2>9 DEF IsFull
        <4>3. QED
          BY <4>1, <4>2, <2>6
      <3>4. QED
        BY <3>1, <3>2, <3>3
    <2>11. ASSUME NEW k \in 1..(n + 1) PROVE SdkLink(full[k], full[k + 1])
      <3>1. k \in 1..(n + 2) /\ k + 1 \in 1..(n + 2) /\ k + 1 \in 1..Len(ch) /\ k + 1 > 1
        BY <2>1
      <3>2. full[k] = ch[k] /\ full[k + 1] = ch[k + 1]
        BY <3>1, <2>10
      <3>3. ch[k + 1].ca
        BY <3>1, <1>9 DEF SdkPath
      <3>4. ch[k].issuer = ch[k + 1].subject /\ ch[k].signed_by = ch[k + 1].key
        BY <2>4 DEF SdkFits, IsIssuer
      <3>5. QED
        BY <3>2, <3>3, <3>4 DEF SdkLink
    <2>12. ASSUME NEW k \in 1..(n + 2) PROVE SdkValid(full[k], t)
      BY <2>1, <2>10, <1>9 DEF SdkPath
    <2>13. SdkChain(full, n, t)
      BY <2>11, <2>12 DEF SdkChain
    <2>14. QED
      BY <2>1, <2>8, <2>13, SdkTrustedValue DEF full, L
  <1>13. QED
    BY <1>11, <1>12

(* No two authorities share a name and a key. *)
ApartByKey(cabundle) ==
    \A c, d \in ToSet(cabundle) \cup {Root} : c.subject = d.subject /\ c.key = d.key => c = d

(* path is the chain up to m, where the first root is. *)
CutAtRoot(full, n, m, path) ==
    /\ m \in 1..(n + 2) /\ Len(path) = m
    /\ \A j \in 1..(m - 1) : full[j] # Root
    /\ \A k \in 1..m : path[k] = full[k]

(* The bundle has a path up to its first root: the places picked for the    *)
(* chain and, where the chain ends in the pinned root, a place of the root, *)
(* which is none of these.                                                  *)
LEMMA RootLocated ==
    ASSUME NEW leaf, NEW cabundle \in Seq(Certificate), NEW n \in Nat,
           NEW pick \in Injection(1..n, 1..Len(cabundle)), NEW full,
           IsFull(leaf, cabundle, n, pick, full), Root \in ToSet(cabundle),
           NEW m, NEW path, CutAtRoot(full, n, m, path)
    PROVE  \E f : Locates(f, path, 1, cabundle)
  <1> DEFINE L == Len(cabundle)
  <1>a. pick \in [1..n -> 1..L] /\ \A a, b \in 1..n : pick[a] = pick[b] => a = b
    BY DEF Injection, IsInjective
  <1>b. m \in 1..(n + 2) /\ Len(path) = m
    BY DEF CutAtRoot
  <1>c. \A j \in 1..(m - 1) : full[j] # Root
    BY DEF CutAtRoot
  <1>d. \A k \in 1..m : path[k] = full[k]
    BY DEF CutAtRoot
  <1>1. PICK r \in 1..L : cabundle[r] = Root
    BY DEF ToSet
  <1>2. full[n + 2] = Root /\ \A k \in 1..n : full[k + 1] = cabundle[pick[k]]
    BY DEF IsFull
  <1> HIDE DEF L
  <1> DEFINE f == [j \in 2..m |-> IF j = n + 2 THEN r ELSE pick[j - 1]]
  <1>3. ASSUME NEW j \in 2..m, j # n + 2
        PROVE  j - 1 \in 1..n /\ (j - 1) + 1 = j
    BY <1>3, <1>b
  <1>4. ASSUME NEW j \in 2..m PROVE (IF j = n + 2 THEN r ELSE pick[j - 1]) \in 1..L
    <2>1. CASE j = n + 2
      BY <2>1
    <2>2. CASE j # n + 2
      BY <2>2, <1>3, <1>a
    <2>3. QED
      BY <2>1, <2>2
  <1>5. /\ f \in [2..m -> 1..L]
        /\ \A j \in 2..m : f[j] = IF j = n + 2 THEN r ELSE pick[j - 1]
    BY <1>4
  <1> HIDE DEF f
  <1>6. ASSUME NEW j \in 2..m PROVE cabundle[f[j]] = path[j]
    <2>1. j \in 1..m /\ path[j] = full[j]
      BY <1>b, <1>d
    <2>2. CASE j = n + 2
      BY <2>1, <2>2, <1>1, <1>2, <1>5
    <2>3. CASE j # n + 2
      BY <2>1, <2>3, <1>2, <1>3, <1>5
    <2>4. QED
      BY <2>2, <2>3
  <1>7. ASSUME NEW j \in 2..m, j # n + 2, m = n + 2 PROVE pick[j - 1] # r
    <2>1. j \in 1..(m - 1)
      BY <1>7, <1>b
    <2>2. full[j] # Root /\ full[j] = cabundle[pick[j - 1]]
      BY <2>1, <1>2, <1>3, <1>7, <1>c
    <2>3. QED
      BY <2>2, <1>1
  <1>8. ASSUME NEW a \in 2..m, NEW b \in 2..m, f[a] = f[b] PROVE a = b
    <2>1. CASE a = n + 2 /\ b = n + 2
      BY <2>1
    <2>2. CASE a = n + 2 /\ b # n + 2
      <3>1. m = n + 2
        BY <2>2, <1>b
      <3>2. f[a] = r /\ f[b] = pick[b - 1] /\ pick[b - 1] # r
        BY <2>2, <3>1, <1>5, <1>7
      <3>3. QED
        BY <3>2, <1>8
    <2>3. CASE a # n + 2 /\ b = n + 2
      <3>1. m = n + 2
        BY <2>3, <1>b
      <3>2. f[b] = r /\ f[a] = pick[a - 1] /\ pick[a - 1] # r
        BY <2>3, <3>1, <1>5, <1>7
      <3>3. QED
        BY <3>2, <1>8
    <2>4. CASE a # n + 2 /\ b # n + 2
      <3>1. a - 1 \in 1..n /\ b - 1 \in 1..n /\ pick[a - 1] = pick[b - 1]
        BY <2>4, <1>3, <1>5, <1>8
      <3>2. a - 1 = b - 1
        BY <3>1, <1>a
      <3>3. QED
        BY <3>2
    <2>5. QED
      BY <2>1, <2>2, <2>3, <2>4
  <1>9. 1 + 1 = 2
    OBVIOUS
  <1>10. Locates(f, path, 1, cabundle)
    BY <1>5, <1>6, <1>8, <1>9, <1>b DEF Locates, L
  <1>11. QED
    BY <1>10

(* and everything trusted if the root is in the bundle and no two           *)
(* authorities share a name and a key: the path to the first root is the    *)
(* one it finds.                                                            *)
LEMMA SdkComplete ==
    ASSUME NEW leaf \in Certificate, NEW cabundle \in Seq(Certificate), NEW t \in Int,
           Root \in ToSet(cabundle), ApartByKey(cabundle), SdkTrusted(leaf, cabundle, t)
    PROVE  validateCertificatePath(leaf, cabundle, t)
  <1> DEFINE L == Len(cabundle)
  <1>0. PICK n \in 0..L : \E pick \in Injection(1..n, 1..L) :
           SdkChain(Full(leaf, cabundle, n, pick), n, t)
    BY SdkTrustedValue
  <1>1. PICK pick \in Injection(1..n, 1..L) : SdkChain(Full(leaf, cabundle, n, pick), n, t)
    BY <1>0
  <1>2. n \in Nat /\ L \in Nat /\ n <= L
    OBVIOUS
  <1>3. pick \in [1..n -> 1..L] /\ \A a, b \in 1..n : pick[a] = pick[b] => a = b
    BY DEF Injection, IsInjective
  <1> DEFINE full == Full(leaf, cabundle, n, pick)
  <1>4. IsFull(leaf, cabundle, n, pick, full)
    BY <1>2, <1>3, FullValue
  <1>5. SdkChain(full, n, t)
    BY <1>1
  <1> HIDE DEF full, L
  <1>6. full \in Seq(Certificate) /\ Len(full) = n + 2 /\ full[1] = leaf /\ full[n + 2] = Root
    BY <1>4 DEF IsFull
  <1>7. \A k \in 1..n : full[k + 1] = cabundle[pick[k]]
    BY <1>4 DEF IsFull
  <1>8. \A k \in 1..(n + 1) : IsIssuer(full[k], full[k + 1]) /\ full[k + 1].ca
    BY <1>5 DEF SdkChain, SdkLink, IsIssuer
  <1>9. \A k \in 1..(n + 2) : full[k] \in Certificate /\ SdkValid(full[k], t)
    BY <1>5, <1>6 DEF SdkChain
  <1> DEFINE W == {k \in 1..(n + 2) : full[k] = Root}
  <1>10. n + 2 \in W /\ W \in SUBSET (Nat \ {0})
    BY <1>2, <1>6
  <1>11. PICK m \in W : \A j \in 1..(m - 1) : j \notin W
    BY <1>10, First
  <1>12. m \in 1..(n + 2) /\ full[m] = Root
    BY <1>11
  <1>13. \A j \in 1..(m - 1) : j \in 1..(n + 1) /\ full[j] # Root
    <2>1. \A j \in 1..(m - 1) : j \in 1..(n + 1) /\ j \in 1..(n + 2)
      BY <1>2, <1>12
    <2>2. QED
      BY <2>1, <1>11
  <1> HIDE DEF W
  <1> DEFINE path == [k \in 1..m |-> full[k]]
  <1>14. path \in Seq(Certificate) /\ Len(path) = m /\ \A k \in 1..m : path[k] = full[k]
    <2>1. \A k \in 1..m : full[k] \in Certificate
      BY <1>2, <1>9, <1>12
    <2>2. m \in Nat
      BY <1>12, <1>2
    <2>3. QED
      BY <2>1, <2>2
  <1> HIDE DEF path
  <1>15. \A k \in 1..(n + 1) : full[k + 1] \in ToSet(cabundle) \cup {Root}
    <2> SUFFICES ASSUME NEW k \in 1..(n + 1) PROVE full[k + 1] \in ToSet(cabundle) \cup {Root}
      OBVIOUS
    <2>1. CASE k = n + 1
      <3>1. k + 1 = n + 2
        BY <2>1, <1>2
      <3>2. QED
        BY <3>1, <1>6
    <2>2. CASE k # n + 1
      <3>1. k \in 1..n
        BY <2>2, <1>2
      <3>2. pick[k] \in DOMAIN cabundle
        BY <3>1, <1>3 DEF L
      <3>3. QED
        BY <3>1, <3>2, <1>7 DEF ToSet
    <2>3. QED
      BY <2>1, <2>2
  <1>16. Findable(SdkEnds, SdkFits, leaf, cabundle, path)
    <2>1. Len(path) >= 1 /\ path[1] = leaf /\ path[Len(path)] \in SdkEnds
      BY <1>2, <1>6, <1>12, <1>14 DEF SdkEnds
    <2>2. ASSUME NEW j \in 1..(Len(path) - 1)
          PROVE  /\ path[j] \notin SdkEnds /\ <<path[j], path[j + 1]>> \in SdkFits
                 /\ \A i \in 1..Len(cabundle) :
                       <<path[j], cabundle[i]>> \in SdkFits => cabundle[i] = path[j + 1]
      <3>1. j \in 1..(m - 1) /\ j \in 1..m /\ j + 1 \in 1..m /\ j \in 1..(n + 1)
        BY <1>2, <1>12, <1>14
      <3>2. path[j] = full[j] /\ path[j + 1] = full[j + 1]
        BY <3>1, <1>14
      <3>3. path[j] \in Certificate /\ path[j + 1] \in Certificate
        BY <3>1, <1>14
      <3>4. path[j] \notin SdkEnds
        BY <3>1, <3>2, <1>13 DEF SdkEnds
      <3>5. IsIssuer(path[j], path[j + 1])
        BY <3>1, <3>2, <1>8
      <3>6. <<path[j], path[j + 1]>> \in SdkFits
        BY <3>3, <3>5 DEF SdkFits
      <3>7. ASSUME NEW i \in 1..Len(cabundle), <<path[j], cabundle[i]>> \in SdkFits
            PROVE  cabundle[i] = path[j + 1]
        <4>1. IsIssuer(path[j], cabundle[i])
          BY <3>7 DEF SdkFits
        <4>2. cabundle[i] \in ToSet(cabundle) \cup {Root}
          BY DEF ToSet
        <4>3. path[j + 1] \in ToSet(cabundle) \cup {Root}
          BY <3>1, <3>2, <1>15
        <4>4. QED
          BY <4>1, <4>2, <4>3, <3>5 DEF ApartByKey, IsIssuer
      <3>8. QED
        BY <3>4, <3>6, <3>7
    <2>3. QED
      BY <2>1, <2>2, <1>14 DEF Findable
  <1>a. CutAtRoot(full, n, m, path)
    BY <1>12, <1>13, <1>14 DEF CutAtRoot
  <1>17. PICK f : Locates(f, path, 1, cabundle)
    BY <1>2, <1>4, <1>a, RootLocated DEF L
  <1>18. PICK tr : /\ Building(SdkEnds, SdkFits, leaf, cabundle, tr)
                   /\ tr[Len(cabundle)].chain = SdkBuilt(leaf, cabundle)
    BY SdkBuilds DEF SdkBuilt
  <1>19. SdkBuilt(leaf, cabundle) = path
    BY <1>16, <1>17, <1>18, PathFound
  <1>20. SdkPath(path, t)
    <2>1. Last(path) = Root
      BY <1>12, <1>14 DEF Last
    <2>2. ASSUME NEW i \in 1..Len(path) PROVE SdkValid(path[i], t) /\ (i > 1 => path[i].ca)
      <3>1. i \in 1..m /\ i \in 1..(n + 2) /\ path[i] = full[i]
        BY <1>2, <1>12, <1>14
      <3>2. ASSUME i > 1 PROVE full[i].ca
        <4>1. i - 1 \in 1..(n + 1) /\ (i - 1) + 1 = i
          BY <3>1, <3>2, <1>2
        <4>2. QED
          BY <4>1, <1>8
      <3>3. QED
        BY <3>1, <3>2, <1>9
    <2>3. QED
      BY <2>1, <2>2 DEF SdkPath
  <1>21. Contains(cabundle, Root)
    BY DEF Contains, ToSet
  <1>22. QED
    BY <1>14, <1>19, <1>20, <1>21, ValidateValue

-----------------------------------------------------------------------------
(* The theorems *)

(* What is presented is a document and the JSON around it. *)
NitroTypeOK == doc \in Document /\ advertised \in Advertisement /\ now \in Nat

(* So it starts, *)
LEMMA NitroTypeInit == NitroInit => NitroTypeOK
  BY PresentedAssumption DEF NitroInit, NitroTypeOK

(* and so it stays when the bundle grows and the clock runs. *)
LEMMA NitroTypeStep == NitroTypeOK /\ [NitroNext]_presentation => NitroTypeOK'
  <1> SUFFICES ASSUME NitroTypeOK, [NitroNext]_presentation PROVE NitroTypeOK'
    OBVIOUS
  <1>1. CASE UNCHANGED presentation
    BY <1>1 DEF presentation, NitroTypeOK
  <1>2. CASE Tick
    BY <1>2 DEF Tick, NitroTypeOK
  <1>3. CASE NextDocument
    BY <1>3, PresentedAssumption DEF NextDocument, NitroTypeOK
  <1>4. ASSUME NEW c \in Bundled, AddCertificate(c) PROVE NitroTypeOK'
    <2>1. c \in Certificate
      BY PresentedAssumption
    <2>2. doc \in Document /\ doc.cabundle \in Seq(Certificate)
      BY DEF NitroTypeOK, Document
    <2>3. Append(doc.cabundle, c) \in Seq(Certificate)
      BY <2>1, <2>2
    <2>4. doc' = [doc EXCEPT !.cabundle = Append(doc.cabundle, c)]
      BY <1>4 DEF AddCertificate
    <2>5. doc' \in Document
      BY <2>2, <2>3, <2>4 DEF Document
    <2>6. QED
      BY <1>4, <2>5 DEF AddCertificate, NitroTypeOK
  <1>5. QED
    BY <1>1, <1>2, <1>3, <1>4 DEF NitroNext

(* An option that is not empty holds a value. *)
LEMMA OptionValue ==
    ASSUME NEW S, NEW o \in Option(S), o # <<>>
    PROVE  o[1] \in S
  <1>1. o \in Seq(S) /\ Len(o) # 0
    BY DEF Option
  <1>2. 1 \in 1..Len(o)
    BY <1>1
  <1>3. QED
    BY <1>1, <1>2

(* What parse_and_verify checks, in a row. *)
LEMMA CrateAccepts ==
    ASSUME NEW d, NEW e, NEW t
    PROVE  parse_and_verify(d, e, t, t) <=>
              /\ d.module_id # <<>> /\ d.digest # <<>> /\ d.timestamp_ms # <<>>
              /\ d.certificate \o d.cabundle # <<>>
              /\ verify_chain(Head(d.certificate \o d.cabundle), Tail(d.certificate \o d.cabundle), t)
              /\ d.alg = "ES384" /\ d.signed_by = Head(d.certificate \o d.cabundle).key
              /\ assert_fresh(d.timestamp_ms[1], t)
              /\ e # <<>> => d.pcr0 = <<e[1]>>
  <1> DEFINE present == d.module_id # <<>> /\ d.digest # <<>> /\ d.timestamp_ms # <<>>
             rec == [timestamp_ms |-> d.timestamp_ms[1], pcr0 |-> d.pcr0,
                     certificate_chain |-> d.certificate \o d.cabundle]
             Judges(r) == /\ verify_signature(d, r.certificate_chain, t)
                          /\ assert_fresh(r.timestamp_ms, t)
                          /\ e # <<>> => assert_measurement_matches(r, e[1])
  <1>1. parse(d) = IF present THEN <<rec>> ELSE <<>>
    BY DEF parse
  <1>2. parse_and_verify(d, e, t, t) <=> \E r \in ToSet(parse(d)) : Judges(r)
    BY DEF parse_and_verify
  <1>3. Judges(rec) <=>
           /\ d.certificate \o d.cabundle # <<>>
           /\ verify_chain(Head(d.certificate \o d.cabundle), Tail(d.certificate \o d.cabundle), t)
           /\ d.alg = "ES384" /\ d.signed_by = Head(d.certificate \o d.cabundle).key
           /\ assert_fresh(d.timestamp_ms[1], t)
           /\ e # <<>> => d.pcr0 = <<e[1]>>
    <2>1. /\ rec.certificate_chain = d.certificate \o d.cabundle
          /\ rec.timestamp_ms = d.timestamp_ms[1] /\ rec.pcr0 = d.pcr0
      OBVIOUS
    <2> HIDE DEF rec
    <2>2. QED
      BY <2>1, Zenon DEF verify_signature, verify_cose_signature, assert_measurement_matches
  <1> HIDE DEF rec, Judges
  <1>4. ToSet(<<rec>>) = {rec} /\ ToSet(<<>>) = {}
    BY DEF ToSet
  <1>5. CASE present
    <2>1. ToSet(parse(d)) = {rec}
      BY <1>1, <1>4, <1>5
    <2>2. parse_and_verify(d, e, t, t) <=> Judges(rec)
      BY <1>2, <2>1
    <2>3. QED
      BY <1>3, <1>5, <2>2
  <1>6. CASE ~present
    <2>1. ToSet(parse(d)) = {}
      BY <1>1, <1>4, <1>6
    <2>2. ~parse_and_verify(d, e, t, t)
      BY <1>2, <2>1
    <2>3. QED
      BY <1>6, <2>2
  <1>7. QED
    BY <1>5, <1>6

(* The crate is exact about every document of the right type. *)
LEMMA CrateExact == NitroTypeOK => CrateIsExact
  <1> SUFFICES ASSUME NitroTypeOK PROVE CrateIsExact
    OBVIOUS
  <1> DEFINE ch == doc.certificate \o doc.cabundle
             wanted == /\ doc.module_id # <<>> /\ doc.digest # <<>> /\ doc.timestamp_ms # <<>>
                       /\ ch # <<>> /\ Genuine(ch[1]) /\ CrateTrusted(ch[1], Tail(ch), now)
                       /\ Age < (MaxSkew + 1) * MsPerSec
             accepts(e) == parse_and_verify(doc, e, now, now)
             measured(e) == e # <<>> => Measured
             apart == \A c, d \in Authorities : c.subject = d.subject => c = d
  <1>1. CrateIsExact <=> \A e \in {<<>>, <<ExpectedPcr0>>} :
                            /\ accepts(e) => wanted /\ measured(e)
                            /\ apart /\ wanted /\ measured(e) => accepts(e)
    BY Zenon DEF CrateIsExact, CrateTrusted
  <1>2. doc.certificate \in Option(Certificate) /\ doc.cabundle \in Seq(Certificate)
    BY DEF NitroTypeOK, Document
  <1>3. doc.timestamp_ms \in Option(Int) /\ now \in Int
    BY DEF NitroTypeOK, Document
  <1>4. doc.certificate \in Seq(Certificate) /\ Len(doc.certificate) <= 1
    BY <1>2 DEF Option
  <1>5. ch \in Seq(Certificate)
    BY <1>2, <1>4
  <1>6. ch # <<>> => /\ ch[1] \in Certificate /\ Tail(ch) \in Seq(Certificate)
                     /\ Head(ch) = ch[1]
    <2> HIDE DEF ch
    <2>1. QED
      BY <1>5
  <1>7. doc.timestamp_ms # <<>> =>
           (assert_fresh(doc.timestamp_ms[1], now) <=> Age < (MaxSkew + 1) * MsPerSec)
    <2> SUFFICES ASSUME doc.timestamp_ms # <<>>
                 PROVE  assert_fresh(doc.timestamp_ms[1], now) <=> Age < (MaxSkew + 1) * MsPerSec
      OBVIOUS
    <2>1. doc.timestamp_ms[1] \in Int
      BY <1>3, OptionValue
    <2>2. QED
      BY <2>1, <1>3, FreshValue DEF Age
  <1>8. ASSUME ch # <<>>, apart PROVE ApartByName(Tail(ch))
    <2>1. ToSet(Tail(ch)) \subseteq ToSet(doc.cabundle)
      <3> SUFFICES ASSUME NEW k \in DOMAIN Tail(ch) PROVE Tail(ch)[k] \in ToSet(doc.cabundle)
        BY DEF ToSet
      <3>1. k \in 1..(Len(ch) - 1) /\ Tail(ch)[k] = ch[k + 1]
        <4> HIDE DEF ch
        <4>1. QED
          BY <1>5, <1>8
      <3> DEFINE a == doc.certificate
                 b == doc.cabundle
                 x == k + 1 - Len(a)
      <3>a. IsJoin(Certificate, a, b, ch)
        BY <1>2, <1>4, JoinValue
      <3>b. /\ Len(a) \in Nat /\ Len(a) <= 1 /\ Len(b) \in Nat /\ DOMAIN b = 1..Len(b)
        BY <1>2, <1>4
      <3> HIDE DEF a, b, ch
      <3>c. Len(ch) = Len(a) + Len(b) /\ \A j \in 1..Len(b) : ch[Len(a) + j] = b[j]
        BY <3>a DEF IsJoin
      <3>d. x \in 1..Len(b) /\ Len(a) + x = k + 1
        BY <3>1, <3>b, <3>c
      <3> HIDE DEF x
      <3>2. x \in DOMAIN b /\ ch[k + 1] = b[x]
        <4>1. ch[Len(a) + x] = b[x]
          BY <3>c, <3>d
        <4>2. QED
          BY <4>1, <3>b, <3>d
      <3>e. x \in DOMAIN doc.cabundle /\ ch[k + 1] = doc.cabundle[x]
        BY <3>2 DEF b
      <3>3. QED
        BY <3>1, <3>e DEF ToSet
    <2>2. QED
      BY <2>1, <1>8 DEF ApartByName, Authorities
  <1>9. ch # <<>> => (verify_chain(ch[1], Tail(ch), now) => CrateTrusted(ch[1], Tail(ch), now))
    BY <1>3, <1>6, CrateSound
  <1>10. ch # <<>> /\ apart =>
            (CrateTrusted(ch[1], Tail(ch), now) => verify_chain(ch[1], Tail(ch), now))
    BY <1>3, <1>6, <1>8, CrateComplete
  <1>11. ASSUME NEW e \in {<<>>, <<ExpectedPcr0>>}
         PROVE  accepts(e) <=>
            /\ doc.module_id # <<>> /\ doc.digest # <<>> /\ doc.timestamp_ms # <<>>
            /\ ch # <<>> /\ verify_chain(Head(ch), Tail(ch), now)
            /\ doc.alg = "ES384" /\ doc.signed_by = Head(ch).key
            /\ assert_fresh(doc.timestamp_ms[1], now)
            /\ measured(e)
    <2>1. accepts(e) <=>
            /\ doc.module_id # <<>> /\ doc.digest # <<>> /\ doc.timestamp_ms # <<>>
            /\ ch # <<>> /\ verify_chain(Head(ch), Tail(ch), now)
            /\ doc.alg = "ES384" /\ doc.signed_by = Head(ch).key
            /\ assert_fresh(doc.timestamp_ms[1], now)
            /\ e # <<>> => doc.pcr0 = <<e[1]>>
      BY CrateAccepts
    <2>2. (e # <<>> => doc.pcr0 = <<e[1]>>) <=> measured(e)
      BY DEF Measured
    <2> HIDE DEF ch, accepts, measured
    <2>3. QED
      BY <2>1, <2>2, Zenon
  <1> HIDE DEF ch, accepts, measured, apart
  <1>12. ASSUME NEW e \in {<<>>, <<ExpectedPcr0>>}
         PROVE  /\ accepts(e) => wanted /\ measured(e)
                /\ apart /\ wanted /\ measured(e) => accepts(e)
    <2>1. accepts(e) => wanted /\ measured(e)
      BY <1>6, <1>7, <1>9, <1>11, Zenon DEF Genuine
    <2>2. apart /\ wanted /\ measured(e) => accepts(e)
      BY <1>6, <1>7, <1>10, <1>11, Zenon DEF Genuine
    <2>3. QED
      BY <2>1, <2>2
  <1>13. QED
    BY <1>1, <1>12

(* The SDK is exact about every document of the right type. *)
LEMMA SdkExact == NitroTypeOK => SdkIsExact
  <1> SUFFICES ASSUME NitroTypeOK PROVE SdkIsExact
    OBVIOUS
  <1> DEFINE leaf == doc.certificate[1]
             bound == /\ doc.public_key # <<>> /\ doc.user_data # <<>>
                      /\ advertised = Advertised(doc.public_key[1], advertised.proof_verifier_key)
                      /\ doc.user_data[1] = Binding(doc.public_key[1], advertised.proof_verifier_key)
             wanted == /\ doc.digest = <<"SHA384">> /\ doc.timestamp_ms # <<>>
                       /\ doc.certificate # <<>> /\ Genuine(leaf) /\ Measured
                       /\ SdkTrusted(leaf, doc.cabundle, now)
                       /\ Age <= MaxSkew * MsPerSec
                       /\ bound
             accepts == verifyNitroAttestation(doc, advertised, now)
             apart == \A c, d \in Authorities : c.subject = d.subject /\ c.key = d.key => c = d
             rooted == Root \in ToSet(doc.cabundle)
             valid == validateCertificatePath(leaf, doc.cabundle, now)
             trusted == SdkTrusted(leaf, doc.cabundle, now)
             matches == /\ doc.pcr0 = <<advertised.measurement>>
                        /\ doc.public_key # <<>> /\ doc.user_data # <<>>
                        /\ doc.user_data[1].format = Format
                        /\ advertised.binding_format = Format
                        /\ doc.public_key[1] = advertised.channel_public_key
                        /\ doc.user_data[1].channel_public_key = doc.public_key[1]
                        /\ doc.user_data[1].proof_verifier_key = advertised.proof_verifier_key
  <1>1. SdkIsExact <=> (accepts => wanted) /\ (rooted /\ apart => (wanted => accepts))
    BY Zenon DEF SdkIsExact, SdkTrusted
  <1>2. accepts <=> /\ doc.alg = "ES384" /\ doc.digest = <<"SHA384">> /\ doc.certificate # <<>>
                    /\ valid /\ doc.signed_by = leaf.key
                    /\ doc.timestamp_ms # <<>> /\ Age <= MaxSkew * MsPerSec
                    /\ doc.pcr0 = <<ExpectedPcr0>> /\ matches
    BY Zenon DEF verifyNitroAttestation, Age
  <1>3. doc.certificate \in Option(Certificate) /\ doc.cabundle \in Seq(Certificate)
    BY DEF NitroTypeOK, Document
  <1>4. doc.certificate # <<>> => leaf \in Certificate
    BY <1>3, OptionValue
  <1>5. now \in Int
    BY DEF NitroTypeOK
  <1>6. doc.certificate # <<>> => (valid => trusted)
    BY <1>3, <1>4, <1>5, SdkSound
  <1>7. apart => ApartByKey(doc.cabundle)
    BY DEF ApartByKey, Authorities
  <1>8. doc.certificate # <<>> /\ rooted /\ apart => (trusted => valid)
    BY <1>3, <1>4, <1>5, <1>7, SdkComplete
  <1>9. doc.pcr0 = <<ExpectedPcr0>> => (matches <=> bound)
    <2> SUFFICES ASSUME doc.pcr0 = <<ExpectedPcr0>>, doc.public_key # <<>>, doc.user_data # <<>>
                 PROVE  matches <=> bound
      OBVIOUS
    <2> DEFINE u == doc.user_data[1]
               p == doc.public_key[1]
               v == advertised.proof_verifier_key
    <2>1. doc.user_data \in Option(UserData)
      BY DEF NitroTypeOK, Document
    <2>2. u \in UserData
      BY <2>1, OptionValue
    <2>3. advertised \in Advertisement
      BY DEF NitroTypeOK
    <2>4. doc.pcr0 = <<advertised.measurement>> <=> advertised.measurement = ExpectedPcr0
      OBVIOUS
    <2> HIDE DEF u, p
    <2>5. u = Binding(p, v) <=> /\ u.format = Format /\ u.channel_public_key = p
                                /\ u.proof_verifier_key = v
      BY <2>2 DEF UserData, Binding
    <2>6. advertised = Advertised(p, v) <=>
             /\ advertised.measurement = ExpectedPcr0 /\ advertised.binding_format = Format
             /\ advertised.channel_public_key = p
      BY <2>3 DEF Advertisement, Advertised
    <2>7. matches <=> /\ advertised.measurement = ExpectedPcr0 /\ u.format = Format
                      /\ advertised.binding_format = Format
                      /\ p = advertised.channel_public_key /\ u.channel_public_key = p
                      /\ u.proof_verifier_key = v
      BY <2>4 DEF u, p
    <2>8. bound <=> advertised = Advertised(p, v) /\ u = Binding(p, v)
      BY DEF u, p
    <2>9. QED
      BY <2>5, <2>6, <2>7, <2>8
  <1> HIDE DEF accepts, apart, rooted, valid, matches, bound
  <1>10. wanted <=> /\ doc.digest = <<"SHA384">> /\ doc.timestamp_ms # <<>>
                    /\ doc.certificate # <<>> /\ doc.alg = "ES384" /\ doc.signed_by = leaf.key
                    /\ doc.pcr0 = <<ExpectedPcr0>> /\ trusted
                    /\ Age <= MaxSkew * MsPerSec /\ bound
    BY DEF Genuine, Measured
  <1> HIDE DEF leaf, trusted, wanted
  <1>11. accepts => wanted
    BY <1>2, <1>6, <1>9, <1>10, Zenon
  <1>12. rooted /\ apart => (wanted => accepts)
    BY <1>2, <1>8, <1>9, <1>10, Zenon
  <1>13. QED
    BY <1>1, <1>11, <1>12

(* parse_and_verify accepts only documents that are genuine, fresh,         *)
(* trusted and, if the caller expects a measurement, of that image, and all *)
(* of them if no two authorities share a name, whatever the length and the  *)
(* order of the bundle.                                                     *)
THEOREM CrateAlwaysExact == NitroSpec => []CrateIsExact
  BY NitroTypeInit, NitroTypeStep, CrateExact, PTL DEF NitroSpec

(* verifyNitroAttestation accepts only documents that are genuine, fresh,   *)
(* trusted and advertised as they are bound, and, of those with the root,   *)
(* all if no two authorities share a name and a key.                        *)
THEOREM SdkAlwaysExact == NitroSpec => []SdkIsExact
  BY NitroTypeInit, NitroTypeStep, SdkExact, PTL DEF NitroSpec
=============================================================================

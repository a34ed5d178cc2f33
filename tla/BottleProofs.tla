---------------------------- MODULE BottleProofs ----------------------------
(***************************************************************************)
(* What becomes of a bottle: it is counted once, and its sample goes to    *)
(* the next hole.  For any number of values of a byte, of batches and      *)
(* bottles, of holes and of attempts to be understood by the sampler.      *)
(***************************************************************************)
EXTENDS Batches, Sampler, TLAPS

-----------------------------------------------------------------------------
(* Quotient and remainder.                                                 *)
LEMMA DivMod ==
    ASSUME NEW x \in Nat, NEW d \in Nat \ {0}
    PROVE  /\ x \div d \in Nat /\ x % d \in 0 .. d - 1
           /\ (x \div d) * d + (x % d) = x
  BY SMT

(* A number is known from its quotient and remainder.                      *)
LEMMA DivUnique ==
    ASSUME NEW d \in Nat \ {0}, NEW q \in Nat, NEW r \in 0 .. d - 1
    PROVE  (q * d + r) \div d = q /\ (q * d + r) % d = r
  BY SMT

(* The quotient of a number and of the one before it.                      *)
LEMMA DivSucc ==
    ASSUME NEW d \in Nat \ {0}, NEW x \in Nat \ {0}
    PROVE  /\ x % d = 0 => x \div d = ((x - 1) \div d) + 1
           /\ x % d # 0 => x \div d = (x - 1) \div d
  BY SMT

(* The quotient never falls when the number grows by one.                  *)
LEMMA DivGrows ==
    ASSUME NEW d \in Nat \ {0}, NEW x \in Nat
    PROVE  (x + 1) \div d >= x \div d
  BY SMT

-----------------------------------------------------------------------------
(* The invariant.  It has two parts: what the EEPROM holds of the bottles  *)
(* that were filled, and how far the current batch has come.               *)
Bytes == [Counters -> Nat \X (0 .. Base - 1)]
Writes == [counter : Counters \cup {"none"}, low : 0 .. Base - 1]

BatchesTypeOK ==
    /\ eeprom \in Bytes
    /\ writing \in Writes /\ (writing.counter = "none" => writing = NoWrite)
    /\ priming_bottleCounter \in Nat /\ priming_batchCounter \in Nat
    /\ priming \in {"STOPPED", "WAITING", "FILLING"}
    /\ filled \in Nat /\ outages \in Nat /\ harm \in BOOLEAN
    /\ batch.filled \in Nat /\ batch.outages \in Nat

Counting == writing.counter = "BOTTLECOUNTER"

(* A count that is half written belongs to the counter of a task that has  *)
(* stopped; a task that runs has the counter of the EEPROM, unless it was  *)
(* cleared since.                                                          *)
Counted ==
    /\ Counting =>
          /\ priming = "STOPPED"
          /\ eeprom["BOTTLECOUNTER"][1] = priming_bottleCounter \div Base
          /\ writing.low = priming_bottleCounter % Base
          /\ filled <= priming_bottleCounter + outages
    /\ priming # "STOPPED" =>
          /\ filled <= priming_bottleCounter + outages
          /\ memoryRead("BOTTLECOUNTER") = priming_bottleCounter \/ filled = 0
    /\ NeverForgets

(* The count n is r bottles into a batch, and so many have been filled but *)
(* for the more that are not yet in n, and those that power losses took.   *)
Within(n, top, more) ==
    \E s \in Nat, r \in 0 .. top, lost \in 0 .. outages - batch.outages :
        /\ n = s * priming_numBottlesPerBatch + r
        /\ filled - batch.filled = r + more + lost

HalfCounted ==
    /\ priming_bottleCounter # 0
    /\ Within(priming_bottleCounter - 1, priming_numBottlesPerBatch - 1, 1)
    /\ \/ memoryRead("BOTTLECOUNTER") = priming_bottleCounter - 1
       \/ memoryRead("BOTTLECOUNTER") > priming_bottleCounter

InBatch ==
    /\ memoryRead("BOTTLECOUNTER") = priming_bottleCounter
    /\ Within(priming_bottleCounter, priming_numBottlesPerBatch - 1, 0)

Between ==
    /\ priming = "WAITING" => memoryRead("BOTTLECOUNTER") = priming_bottleCounter
    /\ Within(memoryRead("BOTTLECOUNTER"), priming_numBottlesPerBatch, 0)

Grouped ==
    /\ Counting => HalfCounted
    /\ ~Counting /\ priming = "FILLING" => InBatch
    /\ ~Counting /\ priming # "FILLING" => Between

BatchesInv == BatchesTypeOK /\ Counted /\ (harm \/ Grouped)

(* memoryWrite keeps the types and leaves the counter it writes half       *)
(* written; one bottle more is at most one too few in between.             *)
LEMMA WriteKeeps ==
    ASSUME BatchesTypeOK, writing = NoWrite, NEW c \in Counters, NEW n \in Nat,
           memoryWrite(c, n)
    PROVE  /\ eeprom' \in Bytes /\ writing' \in Writes /\ writing'.counter = c
           /\ eeprom'[c][1] = n \div Base /\ writing'.low = n % Base
           /\ \A o \in Counters \ {c} : memoryRead(o)' = memoryRead(o)
           /\ memoryRead(c)' = (n \div Base) * Base + eeprom[c][2]
<1>. DEFINE h == n \div Base  l == n % Base
<1>1. h \in Nat /\ l \in 0 .. Base - 1
  BY DivMod, BatchesAssumption
<1>2. eeprom' = [eeprom EXCEPT ![c][1] = h] /\ writing' = [counter |-> c, low |-> l]
  BY DEF memoryWrite
<1>. HIDE DEF h, l
<1>3. eeprom \in Bytes /\ eeprom[c] \in Nat \X (0 .. Base - 1)
  BY DEF BatchesTypeOK, Bytes
<1>4. eeprom' \in Bytes /\ eeprom'[c] = <<h, eeprom[c][2]>>
      /\ \A o \in Counters \ {c} : eeprom'[o] = eeprom[o]
  BY <1>1, <1>2, <1>3 DEF Bytes
<1>5. writing' \in Writes /\ writing'.counter = c /\ writing'.low = l
  BY <1>1, <1>2 DEF Writes
<1>6. eeprom'[c][1] = h /\ eeprom'[c][2] = eeprom[c][2]
  BY <1>4
<1>7. memoryRead(c)' = h * Base + eeprom[c][2]
  BY <1>6 DEF memoryRead
<1>8. \A o \in Counters \ {c} : memoryRead(o)' = memoryRead(o)
  BY <1>4 DEF memoryRead
<1>. QED
  BY <1>4, <1>5, <1>6, <1>7, <1>8 DEF h, l

(* What memoryRead returns for two bytes, and the bytes of a number.       *)
LEMMA ReadIsNat ==
    ASSUME BatchesTypeOK, NEW c \in Counters
    PROVE  /\ memoryRead(c) \in Nat
           /\ eeprom[c][1] = memoryRead(c) \div Base
           /\ eeprom[c][2] = memoryRead(c) % Base
<1>. DEFINE h == eeprom[c][1]  l == eeprom[c][2]
<1>1. h \in Nat /\ l \in 0 .. Base - 1 /\ Base \in Nat \ {0}
  BY BatchesAssumption DEF BatchesTypeOK, Bytes
<1>2. memoryRead(c) = h * Base + l
  BY DEF memoryRead
<1>. HIDE DEF h, l
<1>3. (h * Base + l) \div Base = h /\ (h * Base + l) % Base = l
  BY <1>1, DivUnique
<1>4. h * Base + l \in Nat
  BY <1>1
<1>. QED
  BY <1>2, <1>3, <1>4 DEF h, l

(* Two bytes make a number.                                                *)
LEMMA BytesRead ==
    ASSUME NEW e \in Bytes, NEW c \in Counters
    PROVE  e[c][1] * Base + e[c][2] \in Nat
<1>1. PICK h \in Nat, l \in 0 .. Base - 1 : e[c][1] = h /\ e[c][2] = l
  BY DEF Bytes
<1>2. Base \in Nat /\ h * Base + l \in Nat
  BY BatchesAssumption
<1>. QED
  BY <1>1, <1>2

-----------------------------------------------------------------------------
(* Arithmetic of batches.                                                  *)

(* A count that divides by d is r = 0 or r = d bottles into a batch of d.  *)
LEMMA WholeGroups ==
    ASSUME NEW d \in Nat \ {0}, NEW s \in Nat, NEW r \in 0 .. d
    PROVE  /\ (s * d + r) % d = 0 => r = 0 \/ r = d
           /\ r = d => (s * d + r) % d = 0 /\ s * d + r # 0
           /\ s * d + r \in Nat
<1>1. s * d \in Nat /\ s * d + r \in Nat
  OBVIOUS
<1>2. CASE r < d
  <2>1. r \in 0 .. d - 1
    BY <1>2
  <2>2. (s * d + r) % d = r
    BY <2>1, DivUnique
  <2>. QED
    BY <1>1, <1>2, <2>2
<1>3. CASE r = d
  <2>1. s + 1 \in Nat /\ 0 \in 0 .. d - 1
    OBVIOUS
  <2>2. ((s + 1) * d + 0) % d = 0
    BY <2>1, DivUnique
  <2>3. (s + 1) * d + 0 = s * d + r
    BY <1>3
  <2>4. s * d + r # 0
    BY <1>1, <1>3
  <2>. QED
    BY <1>1, <1>3, <2>2, <2>3, <2>4
<1>. QED
  BY <1>2, <1>3

(* One more changes the high byte only when it carries.                    *)
LEMMA Carries ==
    ASSUME NEW d \in Nat \ {0, 1}, NEW n \in Nat
    PROVE  LET m == ((n + 1) \div d) * d + (n % d)
           IN m \in Nat /\ (m = n \/ m > n + 1)
<1>. DEFINE q == n \div d  r == n % d
<1>1. q \in Nat /\ r \in 0 .. d - 1 /\ q * d + r = n
  BY DivMod
<1>. HIDE DEF q, r
<1>2. CASE r < d - 1
  <2>1. r + 1 \in 0 .. d - 1 /\ q * d + (r + 1) = n + 1
    BY <1>1, <1>2
  <2>2. (n + 1) \div d = q
    BY <1>1, <2>1, DivUnique
  <2>. QED
    BY <1>1, <2>2 DEF r
<1>3. CASE r = d - 1
  <2>1. (q + 1) * d + 0 = n + 1 /\ q + 1 \in Nat /\ 0 \in 0 .. d - 1
    BY <1>1, <1>3
  <2>2. (n + 1) \div d = q + 1
    BY <2>1, DivUnique
  <2>3. (q + 1) * d + r = n + d /\ n + d \in Nat /\ n + d > n + 1
    BY <1>1
  <2>. QED
    BY <2>2, <2>3 DEF r
<1>. QED
  BY <1>1, <1>2, <1>3

-----------------------------------------------------------------------------
(* One action after the other.                                             *)

(* Nothing has been counted, and nothing filled.                           *)
LEMMA NoneWithin ==
    ASSUME priming_numBottlesPerBatch \in Nat \ {0}, filled = 0, batch.filled = 0,
           outages = 0, batch.outages = 0
    PROVE  Within(0, priming_numBottlesPerBatch, 0)
<1>1. /\ 0 \in Nat /\ 0 \in 0 .. priming_numBottlesPerBatch /\ 0 \in 0 .. outages - batch.outages
      /\ 0 = 0 * priming_numBottlesPerBatch + 0
      /\ filled - batch.filled = 0 + 0 + 0
  OBVIOUS
<1>. QED
  BY <1>1 DEF Within

LEMMA InitInv == BatchesInit => BatchesInv
<1>. SUFFICES ASSUME BatchesInit PROVE BatchesInv
  OBVIOUS
<1>1. <<0, 0>> \in Nat \X (0 .. Base - 1) /\ NoWrite \in Writes
  BY BatchesAssumption DEF NoWrite, Writes
<1>2. BatchesTypeOK
  BY <1>1 DEF BatchesInit, BatchesTypeOK, Bytes
<1>3. memoryRead("BOTTLECOUNTER") = 0
  BY BatchesAssumption DEF BatchesInit, memoryRead, Counters
<1>4. ~Counting /\ priming = "STOPPED" /\ filled = 0 /\ outages = 0
  BY DEF Counting, NoWrite, BatchesInit
<1>5. Counted
  BY <1>3, <1>4 DEF Counted, NeverForgets, Counting
<1>6. Within(0, priming_numBottlesPerBatch, 0)
  BY NoneWithin, BatchesAssumption DEF BatchesInit
<1>. QED
  BY <1>2, <1>3, <1>4, <1>5, <1>6 DEF BatchesInv, Grouped, Between

(* The second byte of memoryWrite completes the number.                    *)
LEMMA WriteLowInv ==
    ASSUME BatchesInv, WriteLow
    PROVE  BatchesInv'
<1>. PICK c \in Counters : c = writing.counter
  BY DEF BatchesInv, BatchesTypeOK, WriteLow, Writes
<1>1. writing.low \in 0 .. Base - 1 /\ writing' = NoWrite
      /\ eeprom \in Bytes /\ eeprom' = [eeprom EXCEPT ![c][2] = writing.low]
  BY DEF BatchesInv, BatchesTypeOK, WriteLow, Writes
<1>2. eeprom' \in Bytes /\ eeprom'[c] = <<eeprom[c][1], writing.low>>
      /\ \A o \in Counters \ {c} : eeprom'[o] = eeprom[o]
  BY <1>1 DEF Bytes
<1>3. eeprom'[c][1] = eeprom[c][1] /\ eeprom'[c][2] = writing.low
  BY <1>2
<1>4. memoryRead(c)' = eeprom[c][1] * Base + writing.low
  BY <1>3 DEF memoryRead
<1>5. \A o \in Counters \ {c} : memoryRead(o)' = memoryRead(o)
  BY <1>2 DEF memoryRead
<1>6. /\ priming_bottleCounter' = priming_bottleCounter
      /\ priming_batchCounter' = priming_batchCounter
      /\ priming' = priming
      /\ filled' = filled /\ outages' = outages /\ harm' = harm /\ batch' = batch
  BY DEF WriteLow, history
<1>7. BatchesTypeOK'
  <2>1. NoWrite \in Writes
    BY BatchesAssumption DEF NoWrite, Writes
  <2>. QED
    BY <1>1, <1>2, <1>6, <2>1 DEF BatchesInv, BatchesTypeOK, Writes, NoWrite
<1>8. ~Counting'
  BY <1>1 DEF Counting, NoWrite
<1>9. CASE Counting
  <2>1. /\ priming = "STOPPED" /\ filled <= priming_bottleCounter + outages
        /\ eeprom[c][1] = priming_bottleCounter \div Base
        /\ writing.low = priming_bottleCounter % Base
    BY <1>9 DEF Counting, BatchesInv, Counted
  <2>2. /\ priming_bottleCounter \in Nat /\ Base \in Nat \ {0}
        /\ priming_numBottlesPerBatch \in Nat \ {0}
        /\ filled \in Nat /\ batch.filled \in Nat /\ outages \in Nat /\ batch.outages \in Nat
    BY BatchesAssumption DEF BatchesInv, BatchesTypeOK
  <2>3. memoryRead("BOTTLECOUNTER")' = priming_bottleCounter
    BY <1>4, <1>9, <2>1, <2>2, DivMod DEF Counting
  <2>4. Counted'
    BY <1>6, <1>8, <2>1, <2>2, <2>3 DEF Counted, NeverForgets, Counting
  <2>5. ASSUME Grouped PROVE Grouped'
    <3>1. HalfCounted
      BY <1>9, <2>5 DEF Grouped
    <3>2. PICK s \in Nat, r \in 0 .. priming_numBottlesPerBatch - 1,
               lost \in 0 .. outages - batch.outages :
                  /\ priming_bottleCounter - 1 = s * priming_numBottlesPerBatch + r
                  /\ filled - batch.filled = r + 1 + lost
      BY <3>1 DEF HalfCounted, Within
    <3>3. /\ r + 1 \in 0 .. priming_numBottlesPerBatch
          /\ priming_bottleCounter = s * priming_numBottlesPerBatch + (r + 1)
          /\ filled - batch.filled = (r + 1) + 0 + lost
      BY <2>2, <3>2
    <3>4. Within(priming_bottleCounter, priming_numBottlesPerBatch, 0)
      BY <3>2, <3>3 DEF Within
    <3>5. Within(memoryRead("BOTTLECOUNTER"), priming_numBottlesPerBatch, 0)'
      BY <1>6, <2>3, <3>4 DEF Within
    <3>. QED
      BY <1>6, <1>8, <2>1, <3>5 DEF Grouped, Between
  <2>. QED
    BY <1>6, <1>7, <2>4, <2>5 DEF BatchesInv
<1>10. CASE ~Counting
  <2>1. memoryRead("BOTTLECOUNTER")' = memoryRead("BOTTLECOUNTER")
    BY <1>5, <1>10 DEF Counting, Counters
  <2>2. Counted'
    BY <1>6, <1>8, <1>10, <2>1 DEF BatchesInv, Counted, NeverForgets, Counting
  <2>3. Grouped => Grouped'
    BY <1>6, <1>8, <1>10, <2>1 DEF Grouped, InBatch, Between, Within
  <2>. QED
    BY <1>6, <1>7, <2>2, <2>3 DEF BatchesInv
<1>. QED
  BY <1>9, <1>10

(* priming_init reloads the counters from the EEPROM.                      *)
LEMMA PrimingInitInv ==
    ASSUME BatchesInv, PrimingInit
    PROVE  BatchesInv'
<1>1. /\ priming = "STOPPED" /\ priming' = "WAITING"
      /\ writing = NoWrite /\ writing' = writing /\ eeprom' = eeprom
      /\ priming_bottleCounter' = memoryRead("BOTTLECOUNTER")
      /\ priming_batchCounter' = memoryRead("BATCHCOUNTER")
      /\ filled' = filled /\ outages' = outages /\ harm' = harm /\ batch' = batch
  BY DEF PrimingInit, history
<1>2. \A c \in Counters : memoryRead(c) \in Nat /\ memoryRead(c)' = memoryRead(c)
  BY <1>1, ReadIsNat DEF BatchesInv, memoryRead
<1>3. BatchesTypeOK'
  BY <1>1, <1>2 DEF BatchesInv, BatchesTypeOK, Counters
<1>4. ~Counting /\ ~Counting'
  BY <1>1 DEF Counting, NoWrite
<1>5. filled <= memoryRead("BOTTLECOUNTER") + outages
  BY <1>2, <1>4 DEF BatchesInv, BatchesTypeOK, Counted, NeverForgets, Counting, Counters
<1>6. Counted'
  BY <1>1, <1>2, <1>4, <1>5 DEF BatchesInv, BatchesTypeOK, Counted, NeverForgets, Counting, Counters
<1>7. Grouped => Grouped'
  BY <1>1, <1>2, <1>4 DEF Grouped, Between, Within, Counters
<1>. QED
  BY <1>1, <1>3, <1>6, <1>7 DEF BatchesInv

(* A priming starts.  A batch begins when the bottles before it make whole *)
(* batches.                                                                *)
LEMMA StartsInv ==
    ASSUME BatchesInv, Starts
    PROVE  /\ BatchesInv'
           /\ priming_batchCounter' # priming_batchCounter /\ ~harm =>
                 \E lost \in 0 .. outages - batch.outages :
                    filled - batch.filled - lost \in {0, priming_numBottlesPerBatch}
<1>. DEFINE N == priming_numBottlesPerBatch
            n == priming_bottleCounter
<1>1. /\ priming = "WAITING" /\ priming' = "FILLING"
      /\ writing = NoWrite /\ n' = n /\ filled' = filled /\ outages' = outages
      /\ BatchesTypeOK /\ n \in Nat /\ priming_batchCounter \in Nat
      /\ N \in Nat \ {0}
      /\ filled \in Nat /\ outages \in Nat /\ batch.filled \in Nat /\ batch.outages \in Nat
  BY BatchesAssumption DEF Starts, BatchBegins, BatchesInv, BatchesTypeOK, history
<1>2. ~Counting
  BY <1>1 DEF Counting, NoWrite
<1>3. /\ filled <= n + outages /\ NeverForgets
      /\ memoryRead("BOTTLECOUNTER") = n \/ filled = 0
  BY <1>1, <1>2 DEF BatchesInv, Counted
<1>4. ASSUME ~harm
      PROVE  memoryRead("BOTTLECOUNTER") = n /\ Within(n, N, 0)
  BY <1>1, <1>2, <1>4 DEF BatchesInv, Grouped, Between
<1>5. CASE NextBatchDue
  <2>1. /\ priming_batchCounter' = priming_batchCounter + 1
        /\ memoryWrite("BATCHCOUNTER", priming_batchCounter + 1)
        /\ batch' = [filled |-> filled, outages |-> outages]
        /\ harm' = (harm /\ memoryRead("BOTTLECOUNTER") # n)
    BY <1>5 DEF Starts, BatchBegins
  <2>2. /\ eeprom' \in Bytes /\ writing' \in Writes /\ writing'.counter = "BATCHCOUNTER"
        /\ memoryRead("BOTTLECOUNTER")' = memoryRead("BOTTLECOUNTER")
    BY <1>1, <2>1, WriteKeeps DEF Counters
  <2>3. /\ batch'.filled = filled /\ batch'.outages = outages /\ harm' \in BOOLEAN
    BY <2>1 DEF BatchesInv, BatchesTypeOK
  <2>4. BatchesTypeOK'
    BY <1>1, <2>1, <2>2, <2>3 DEF BatchesTypeOK
  <2>5. ~Counting'
    BY <2>2 DEF Counting
  <2>6. Counted'
    BY <1>1, <1>2, <1>3, <2>2, <2>5 DEF Counted, NeverForgets, Counting
  <2>7. ASSUME ~harm' PROVE Grouped'
    <3>1. memoryRead("BOTTLECOUNTER") = n
      BY <1>4, <2>1, <2>7
    <3>2. n % N = 0 /\ n \div N \in Nat /\ (n \div N) * N + (n % N) = n
      BY <1>1, <1>5, DivMod DEF NextBatchDue
    <3>3. PICK q \in Nat : n = q * N + 0
      BY <1>1, <3>2
    <3>4. /\ 0 \in 0 .. N - 1 /\ 0 \in 0 .. outages - outages
          /\ filled - filled = 0 + 0 + 0
      BY <1>1
    <3>5. Within(n, N - 1, 0)'
      BY <1>1, <2>3, <3>3, <3>4 DEF Within
    <3>. QED
      BY <1>1, <2>2, <2>5, <3>1, <3>5 DEF Grouped, InBatch
  <2>8. ASSUME ~harm
        PROVE  \E lost \in 0 .. outages - batch.outages :
                  filled - batch.filled - lost \in {0, N}
    <3>1. PICK s \in Nat, r \in 0 .. N, lost \in 0 .. outages - batch.outages :
             n = s * N + r /\ filled - batch.filled = r + 0 + lost
      BY <1>4, <2>8 DEF Within
    <3>2. (s * N + r) % N = 0
      BY <1>5, <3>1 DEF NextBatchDue
    <3>. HIDE DEF N
    <3>3. r = 0 \/ r = N
      BY <1>1, <3>2, WholeGroups
    <3>4. filled - batch.filled - lost = r
      BY <1>1, <3>1
    <3>. QED
      BY <3>3, <3>4
  <2>. QED
    BY <2>4, <2>6, <2>7, <2>8 DEF BatchesInv
<1>6. CASE ~NextBatchDue
  <2>1. /\ priming_batchCounter' = priming_batchCounter
        /\ eeprom' = eeprom /\ writing' = writing /\ harm' = harm /\ batch' = batch
    BY <1>6 DEF Starts, history
  <2>2. memoryRead("BOTTLECOUNTER")' = memoryRead("BOTTLECOUNTER")
    BY <2>1 DEF memoryRead
  <2>3. BatchesTypeOK'
    BY <1>1, <2>1 DEF BatchesTypeOK
  <2>4. ~Counting'
    BY <1>2, <2>1 DEF Counting
  <2>5. Counted'
    BY <1>1, <1>2, <1>3, <2>1, <2>2, <2>4 DEF Counted, NeverForgets, Counting
  <2>6. ASSUME ~harm PROVE Grouped'
    <3>1. PICK s \in Nat, r \in 0 .. N, lost \in 0 .. outages - batch.outages :
             n = s * N + r /\ filled - batch.filled = r + 0 + lost
      BY <1>4, <2>6 DEF Within
    <3>2. ~(n % N = 0 /\ n # 0)
      BY <1>6 DEF NextBatchDue
    <3>3. r # N
      <4>. HIDE DEF N, n
      <4>. QED
        BY <1>1, <3>1, <3>2, WholeGroups
    <3>4. r \in 0 .. N - 1
      BY <1>1, <3>3
    <3>5. Within(n, N - 1, 0)
      BY <3>1, <3>4 DEF Within
    <3>6. Within(n, N - 1, 0)'
      BY <1>1, <2>1, <3>5 DEF Within
    <3>. QED
      BY <1>1, <1>4, <2>2, <2>4, <2>6, <3>6 DEF Grouped, InBatch
  <2>. QED
    BY <2>1, <2>3, <2>5, <2>6 DEF BatchesInv
<1>. QED
  BY <1>5, <1>6

(* A stop leaves the EEPROM as it is.                                      *)
LEMMA StopsEarlyInv ==
    ASSUME BatchesInv, StopsEarly
    PROVE  BatchesInv'
<1>1. /\ priming' = "STOPPED" /\ priming \in {"WAITING", "FILLING"} /\ writing = NoWrite
      /\ eeprom' = eeprom /\ writing' = writing
      /\ priming_bottleCounter' = priming_bottleCounter
      /\ priming_batchCounter' = priming_batchCounter
      /\ filled' = filled /\ outages' = outages /\ harm' = harm /\ batch' = batch
      /\ priming_numBottlesPerBatch \in Nat \ {0}
  BY BatchesAssumption DEF StopsEarly, BatchesInv, BatchesTypeOK, history
<1>2. BatchesTypeOK'
  BY <1>1 DEF BatchesInv, BatchesTypeOK
<1>3. memoryRead("BOTTLECOUNTER")' = memoryRead("BOTTLECOUNTER")
  BY <1>1 DEF memoryRead
<1>4. ~Counting /\ ~Counting'
  BY <1>1 DEF Counting, NoWrite
<1>5. Counted'
  BY <1>1, <1>3, <1>4 DEF BatchesInv, Counted, NeverForgets, Counting
<1>6. ASSUME Grouped PROVE Grouped'
  <2>1. Within(memoryRead("BOTTLECOUNTER"), priming_numBottlesPerBatch, 0)
    <3>1. CASE priming = "FILLING"
      <4>1. Within(memoryRead("BOTTLECOUNTER"), priming_numBottlesPerBatch - 1, 0)
        BY <1>4, <1>6, <3>1 DEF Grouped, InBatch
      <4>2. 0 .. priming_numBottlesPerBatch - 1 \subseteq 0 .. priming_numBottlesPerBatch
        BY <1>1
      <4>. QED
        BY <4>1, <4>2 DEF Within
    <3>2. CASE priming = "WAITING"
      BY <1>4, <1>6, <3>2 DEF Grouped, Between
    <3>. QED
      BY <1>1, <3>1, <3>2
  <2>2. Within(memoryRead("BOTTLECOUNTER"), priming_numBottlesPerBatch, 0)'
    BY <1>1, <1>3, <2>1 DEF Within
  <2>. QED
    BY <1>1, <1>4, <2>2 DEF Grouped, Between
<1>. QED
  BY <1>1, <1>2, <1>5, <1>6 DEF BatchesInv

(* One bottle more: high byte first, so that the EEPROM is behind by one   *)
(* at most until the low byte follows.                                     *)
LEMMA CountsInv ==
    ASSUME BatchesInv, CountsFilled \/ CountsPhantom
    PROVE  BatchesInv'
<1>. DEFINE n == priming_bottleCounter
            was == memoryRead("BOTTLECOUNTER")
            is == memoryRead("BOTTLECOUNTER")'
<1>1. PICK from \in {"WAITING", "FILLING"} : Counts(from)
  BY DEF CountsFilled, CountsPhantom
<1>2. /\ priming = from /\ priming' = "STOPPED" /\ writing = NoWrite
      /\ n' = n + 1 /\ memoryWrite("BOTTLECOUNTER", n + 1)
      /\ priming_batchCounter' = priming_batchCounter
      /\ outages' = outages /\ batch' = batch
      /\ BatchesTypeOK /\ n \in Nat /\ n + 1 \in Nat /\ Base \in Nat \ {0, 1}
      /\ filled \in Nat /\ outages \in Nat
  BY <1>1, BatchesAssumption DEF Counts, BatchesInv, BatchesTypeOK
<1>3. /\ eeprom' \in Bytes /\ writing' \in Writes /\ writing'.counter = "BOTTLECOUNTER"
      /\ eeprom'["BOTTLECOUNTER"][1] = (n + 1) \div Base
      /\ writing'.low = (n + 1) % Base
      /\ is = ((n + 1) \div Base) * Base + eeprom["BOTTLECOUNTER"][2]
  BY <1>2, WriteKeeps DEF Counters
<1>4. ~Counting /\ Counting'
  BY <1>2, <1>3 DEF Counting, NoWrite
<1>5. /\ filled' \in {filled, filled + 1} /\ harm' \in BOOLEAN
      /\ ~harm' => ~harm /\ from = "FILLING" /\ filled' = filled + 1
  BY <1>2 DEF CountsFilled, CountsPhantom, Counts, BatchesInv, BatchesTypeOK
<1>6. BatchesTypeOK'
  BY <1>2, <1>3, <1>5 DEF BatchesTypeOK
<1>7. filled <= n + outages /\ (was = n \/ filled = 0)
  BY <1>2 DEF BatchesInv, Counted
<1>8. is \in Nat
  BY <1>3, BytesRead DEF Counters, memoryRead
<1>9. was = n => is = n \/ is > n + 1
  <2>1. SUFFICES ASSUME was = n PROVE is = n \/ is > n + 1
    OBVIOUS
  <2>2. eeprom["BOTTLECOUNTER"][2] = n % Base
    BY <1>2, <2>1, ReadIsNat DEF Counters
  <2>3. is = ((n + 1) \div Base) * Base + (n % Base)
    BY <1>3, <2>2
  <2>. HIDE DEF n, is
  <2>. QED
    BY <1>2, <2>3, Carries
<1>10. Counted'
  <2>1. filled' <= is + outages + 1
    <3>1. was = n => is >= n
      BY <1>2, <1>8, <1>9
    <3>2. CASE was = n
      BY <3>1, <3>2, <1>2, <1>5, <1>7, <1>8
    <3>3. CASE filled = 0
      BY <3>3, <1>2, <1>5, <1>8
    <3>. QED
      BY <1>7, <3>2, <3>3
  <2>2. filled' <= n' + outages'
    BY <1>2, <1>5, <1>7
  <2>. QED
    BY <1>2, <1>3, <1>4, <2>1, <2>2 DEF Counted, NeverForgets, Counting
<1>11. ASSUME ~harm' PROVE Grouped'
  <2>1. ~harm /\ priming = "FILLING" /\ filled' = filled + 1
    BY <1>2, <1>5, <1>11
  <2>2. was = n /\ Within(n, priming_numBottlesPerBatch - 1, 0)
    BY <1>4, <2>1 DEF BatchesInv, Grouped, InBatch
  <2>3. PICK s \in Nat, r \in 0 .. priming_numBottlesPerBatch - 1,
             lost \in 0 .. outages - batch.outages :
                n = s * priming_numBottlesPerBatch + r /\ filled - batch.filled = r + 0 + lost
    BY <2>2 DEF Within
  <2>4. n' - 1 = n /\ filled' - batch'.filled = r + 1 + lost
    BY <1>2, <2>1, <2>3 DEF BatchesTypeOK
  <2>5. Within(n - 1, priming_numBottlesPerBatch - 1, 1)'
    BY <1>2, <2>3, <2>4 DEF Within
  <2>6. is = n' - 1 \/ is > n'
    BY <1>2, <1>9, <2>2
  <2>7. n' # 0
    BY <1>2
  <2>. QED
    BY <1>4, <2>5, <2>6, <2>7 DEF Grouped, HalfCounted
<1>. QED
  BY <1>6, <1>10, <1>11 DEF BatchesInv

(* The bytes that a clear has reached are zero.                            *)
LEMMA ZeroesBytes ==
    ASSUME BatchesTypeOK, NEW n \in 1 .. 4, Zeroes(n)
    PROVE  eeprom' \in Bytes /\ (n = 4 => memoryRead("BOTTLECOUNTER")' = 0)
<1>1. Base \in Nat \ {0, 1} /\ eeprom \in Bytes
  BY BatchesAssumption DEF BatchesTypeOK
<1>. DEFINE before(c) == IF c = "BOTTLECOUNTER" THEN 0 ELSE 2
            byte(c, i) == IF n > before(c) + i - 1 THEN 0 ELSE eeprom[c][i]
<1>2. eeprom' = [c \in Counters |-> <<IF n > before(c) THEN 0 ELSE eeprom[c][1],
                                      IF n > before(c) + 1 THEN 0 ELSE eeprom[c][2]>>]
  BY DEF Zeroes
<1>3. \A c \in Counters : eeprom[c][1] \in Nat /\ eeprom[c][2] \in 0 .. Base - 1
  BY <1>1 DEF Bytes
<1>4. \A c \in Counters : <<IF n > before(c) THEN 0 ELSE eeprom[c][1],
                            IF n > before(c) + 1 THEN 0 ELSE eeprom[c][2]>>
                             \in Nat \X (0 .. Base - 1)
  BY <1>1, <1>3
<1>5. eeprom' \in Bytes
  BY <1>2, <1>4 DEF Bytes
<1>6. ASSUME n = 4 PROVE memoryRead("BOTTLECOUNTER")' = 0
  <2>1. eeprom'["BOTTLECOUNTER"] = <<0, 0>>
    BY <1>2, <1>6 DEF Counters
  <2>. QED
    BY <1>1, <2>1 DEF memoryRead
<1>. QED
  BY <1>5, <1>6

(* A clear counts anew.                                                    *)
LEMMA ClearInv ==
    ASSUME BatchesInv, ClearCount \/ ClearIsCut
    PROVE  BatchesInv'
<1>1. /\ filled' = 0 /\ outages' = 0 /\ batch' = [filled |-> 0, outages |-> 0]
      /\ writing' = NoWrite /\ BatchesTypeOK
      /\ Base \in Nat \ {0, 1} /\ priming_numBottlesPerBatch \in Nat \ {0}
  BY BatchesAssumption DEF ClearCount, ClearIsCut, CountAnew, Restarts, BatchesInv
<1>2. batch'.filled = 0 /\ batch'.outages = 0 /\ ~Counting' /\ NoWrite \in Writes
  BY <1>1 DEF Counting, NoWrite, Writes
<1>3. eeprom' \in Bytes
  BY <1>1, ZeroesBytes DEF ClearCount, ClearIsCut
<1>4. BatchesTypeOK'
  <2>1. /\ priming' \in {"STOPPED", "WAITING", "FILLING"} /\ harm' \in BOOLEAN
        /\ priming_bottleCounter' \in Nat /\ priming_batchCounter' \in Nat
    <3>1. CASE ClearCount
      BY <1>1, <3>1 DEF ClearCount, BatchesTypeOK
    <3>2. CASE ClearIsCut
      BY <3>2 DEF ClearIsCut, Restarts
    <3>. QED
      BY <3>1, <3>2
  <2>. QED
    BY <1>1, <1>2, <1>3, <2>1 DEF BatchesTypeOK
<1>5. memoryRead("BOTTLECOUNTER")' \in Nat /\ priming_bottleCounter' \in Nat
  BY <1>3, <1>4, BytesRead DEF Counters, BatchesTypeOK, memoryRead
<1>6. Counted'
  BY <1>1, <1>2, <1>5 DEF Counted, NeverForgets, Counting
<1>7. ASSUME ~harm' PROVE Grouped'
  <2>1. memoryRead("BOTTLECOUNTER")' = 0 /\ priming' = "STOPPED"
    <3>1. CASE ClearCount
      <4>1. Zeroes(4) /\ priming' = priming /\ harm' = (priming # "STOPPED")
        BY <3>1 DEF ClearCount
      <4>2. memoryRead("BOTTLECOUNTER")' = 0
        BY <1>1, <4>1, ZeroesBytes
      <4>. QED
        BY <1>7, <4>1, <4>2
    <3>2. CASE ClearIsCut
      <4>1. eeprom'["BOTTLECOUNTER"] = <<0, 0>> /\ priming' = "STOPPED"
        BY <1>7, <3>2 DEF ClearIsCut, Restarts
      <4>. QED
        BY <1>1, <4>1 DEF memoryRead
    <3>. QED
      BY <3>1, <3>2
  <2>2. Within(0, priming_numBottlesPerBatch, 0)'
    <3>1. /\ 0 \in Nat /\ 0 \in 0 .. priming_numBottlesPerBatch /\ 0 \in 0 .. 0 - 0
          /\ 0 = 0 * priming_numBottlesPerBatch + 0 /\ 0 - 0 = 0 + 0 + 0
      BY <1>1
    <3>. QED
      BY <1>1, <1>2, <3>1 DEF Within
  <2>. QED
    BY <1>2, <2>1, <2>2 DEF Grouped, Between
<1>. QED
  BY <1>4, <1>6, <1>7 DEF BatchesInv

(* A power loss takes back the bottle that is being counted, or none.      *)
LEMMA PowerLossInv ==
    ASSUME BatchesInv, PowerLoss
    PROVE  BatchesInv'
<1>. DEFINE is == memoryRead("BOTTLECOUNTER")
<1>1. /\ writing' = NoWrite /\ priming' = "STOPPED" /\ eeprom' = eeprom
      /\ priming_bottleCounter' = 0 /\ priming_batchCounter' = 0
      /\ outages' = outages + 1 /\ filled' = filled /\ batch' = batch
      /\ harm' = (harm \/ (Counting /\ is > priming_bottleCounter))
  BY DEF PowerLoss, Restarts, Counting
<1>2. /\ BatchesTypeOK /\ outages \in Nat /\ filled \in Nat /\ priming_bottleCounter \in Nat
      /\ batch.filled \in Nat /\ batch.outages \in Nat
      /\ priming_numBottlesPerBatch \in Nat \ {0}
  BY BatchesAssumption DEF BatchesInv, BatchesTypeOK
<1>3. NoWrite \in Writes /\ ~Counting'
  BY <1>1, BatchesAssumption DEF NoWrite, Writes, Counting
<1>4. harm' \in BOOLEAN
  BY <1>1, <1>2 DEF BatchesTypeOK
<1>5. BatchesTypeOK'
  BY <1>1, <1>2, <1>3, <1>4 DEF BatchesTypeOK
<1>6. is \in Nat /\ memoryRead("BOTTLECOUNTER")' = is
  BY <1>1, <1>2, ReadIsNat DEF Counters, memoryRead
<1>7. filled <= is + outages + 1
  BY <1>2, <1>6 DEF BatchesInv, Counted, NeverForgets
<1>8. Counted'
  BY <1>1, <1>2, <1>3, <1>6, <1>7 DEF Counted, NeverForgets, Counting
<1>9. ASSUME ~harm' PROVE Grouped'
  <2>1. Grouped /\ (Counting => ~(is > priming_bottleCounter))
    BY <1>1, <1>9 DEF BatchesInv
  <2>2. PICK s \in Nat, r \in 0 .. priming_numBottlesPerBatch,
             lost \in 0 .. outages + 1 - batch.outages :
                /\ is = s * priming_numBottlesPerBatch + r
                /\ filled - batch.filled = r + 0 + lost
    <3>1. CASE Counting
      <4>1. PICK s \in Nat, r \in 0 .. priming_numBottlesPerBatch - 1,
                 lost \in 0 .. outages - batch.outages :
                    /\ priming_bottleCounter - 1 = s * priming_numBottlesPerBatch + r
                    /\ filled - batch.filled = r + 1 + lost
        BY <2>1, <3>1 DEF Grouped, HalfCounted, Within
      <4>2. is = priming_bottleCounter - 1
        BY <2>1, <3>1 DEF Grouped, HalfCounted
      <4>3. /\ r \in 0 .. priming_numBottlesPerBatch
            /\ lost + 1 \in 0 .. outages + 1 - batch.outages
            /\ filled - batch.filled = r + 0 + (lost + 1)
        BY <1>2, <4>1
      <4>. QED
        BY <4>1, <4>2, <4>3
    <3>2. CASE ~Counting
      <4>1. PICK t \in {priming_numBottlesPerBatch - 1, priming_numBottlesPerBatch} :
               Within(is, t, 0)
        BY <2>1, <3>2 DEF Grouped, InBatch, Between
      <4>2. PICK s \in Nat, r \in 0 .. t, lost \in 0 .. outages - batch.outages :
               /\ is = s * priming_numBottlesPerBatch + r
               /\ filled - batch.filled = r + 0 + lost
        BY <4>1 DEF Within
      <4>3. /\ r \in 0 .. priming_numBottlesPerBatch
            /\ lost \in 0 .. outages + 1 - batch.outages
        BY <1>2, <4>1, <4>2
      <4>. QED
        BY <4>2, <4>3
    <3>. QED
      BY <3>1, <3>2
  <2>3. Within(is, priming_numBottlesPerBatch, 0)'
    <3>1. filled' - batch'.filled = r + 0 + lost /\ lost \in 0 .. outages' - batch'.outages
      <4>1. /\ filled' - batch'.filled = filled - batch.filled
            /\ outages' - batch'.outages = outages + 1 - batch.outages
        <5>1. filled' = filled /\ outages' = outages + 1
          BY <1>1
        <5>2. batch'.filled = batch.filled /\ batch'.outages = batch.outages
          BY <1>1
        <5>. QED
          BY <1>2, <5>1, <5>2
      <4>. QED
        BY <4>1, <2>2
    <3>2. memoryRead("BOTTLECOUNTER")' = s * priming_numBottlesPerBatch + r
      BY <1>6, <2>2
    <3>. HIDE DEF is
    <3>. QED
      BY <3>1, <3>2 DEF Within, is
  <2>. QED
    BY <1>1, <1>3, <2>3 DEF Grouped, Between
<1>. QED
  BY <1>5, <1>8, <1>9 DEF BatchesInv

-----------------------------------------------------------------------------
(* The invariant holds in every state of the rig.                          *)
LEMMA BatchesInvStep == BatchesInv /\ [BatchesNext]_batchVars => BatchesInv'
<1>1. CASE UNCHANGED batchVars
  BY <1>1 DEF batchVars, history, BatchesInv, BatchesTypeOK, Counted, NeverForgets, Counting,
              Grouped, HalfCounted, InBatch, Between, Within, memoryRead
<1>. QED
  BY <1>1, WriteLowInv, PrimingInitInv, StartsInv, StopsEarlyInv, CountsInv, ClearInv,
     PowerLossInv
  DEF BatchesNext

(* However often the power fails, and for bytes of any size, the EEPROM    *)
(* has counted every bottle that was filled but one for each power loss    *)
(* (memoryWrite, cfg/memory.h).                                            *)
THEOREM NeverForgetsAlways == BatchesSpec => []NeverForgets
<1>1. BatchesInv => NeverForgets
  BY DEF BatchesInv, Counted
<1>. QED
  BY <1>1, InitInv, BatchesInvStep, PTL DEF BatchesSpec

(* A batch has its bottles when the next one begins, one more for a power  *)
(* loss, or none, for any number of bottles in a batch (priming_runnable,  *)
(* tasks/priming.h).                                                       *)
THEOREM BatchSizeAlways == BatchesSpec => BatchSize
<1>. DEFINE Whole ==
       priming' = "FILLING" /\ priming_batchCounter' # priming_batchCounter /\ ~harm =>
          \E lost \in 0 .. outages - batch.outages :
             filled - batch.filled - lost \in {0, priming_numBottlesPerBatch}
<1>1. BatchesInv /\ [BatchesNext]_batchVars => [Whole]_batchVars
  <2>1. SUFFICES ASSUME BatchesInv, BatchesNext PROVE Whole
    OBVIOUS
  <2>2. CASE Starts
    BY <2>1, <2>2, StartsInv
  <2>3. CASE ~Starts
    <3>1. ~(priming' = "FILLING" /\ priming_batchCounter' # priming_batchCounter)
      BY <2>1, <2>3 DEF BatchesNext, WriteLow, PrimingInit, StopsEarly, CountsFilled,
                        CountsPhantom, Counts, ClearCount, PowerLoss, ClearIsCut, Restarts
    <3>. QED
      BY <3>1
  <2>. QED
    BY <2>2, <2>3
<1>. QED
  BY <1>1, InitInv, BatchesInvStep, PTL DEF BatchesSpec, BatchSize

-----------------------------------------------------------------------------
(* How many bottles an experiment has.  The batches that were counted are  *)
(* never fewer than the bottles say, as long as the bottles are counted    *)
(* right; so the counter of batches reaches its limit in time.             *)
Full(k) == (k + 1) * priming_numBottlesPerBatch
Most == priming_numBatches * priming_numBottlesPerBatch + 1

(* With c bottles and k batches counted, the next batch is still due.      *)
InTime(c, k) == c <= Most /\ (c <= Full(k) \/ k >= priming_numBatches)

SizeOfRun ==
    /\ priming # "STOPPED" =>
          /\ InTime(priming_bottleCounter, priming_batchCounter)
          /\ writing = NoWrite =>
                \/ memoryRead("BATCHCOUNTER") = priming_batchCounter
                \/ priming_bottleCounter = 0
    /\ priming = "FILLING" =>
          priming_bottleCounter < Full(priming_batchCounter) /\ priming_bottleCounter < Most
    /\ Counting => InTime(priming_bottleCounter, memoryRead("BATCHCOUNTER"))

SizeInMemory == InTime(filled, memoryRead("BATCHCOUNTER"))

BatchHalfWritten ==
    /\ priming = "FILLING"
    /\ eeprom["BATCHCOUNTER"][1] = priming_batchCounter \div Base
    /\ writing.low = priming_batchCounter % Base

Sized ==
    /\ writing.counter = "BATCHCOUNTER" => BatchHalfWritten
    /\ outages = 0 /\ filled = priming_bottleCounter => SizeOfRun
    /\ outages = 0 /\ writing = NoWrite /\ filled = memoryRead("BOTTLECOUNTER") => SizeInMemory

LEMMA FullFacts ==
    ASSUME NEW k \in Nat
    PROVE  /\ Full(k) \in Nat \ {0} /\ Most \in Nat \ {0}
           /\ Full(k) < Full(k + 1)
           /\ k < priming_numBatches => Full(k) < Most
           /\ Full(k) % priming_numBottlesPerBatch = 0
<1>. DEFINE b == priming_numBottlesPerBatch  n == priming_numBatches
<1>1. b \in Nat \ {0} /\ n \in Nat
  BY BatchesAssumption
<1>. HIDE DEF b, n
<1>2. (k + 1) * b \in Nat /\ k * b \in Nat /\ n * b \in Nat
      /\ (k + 1) * b = k * b + b /\ (k + 1 + 1) * b = (k + 1) * b + b
  BY <1>1
<1>3. ASSUME k < n PROVE (k + 1) * b <= n * b
  <2>1. PICK j \in Nat : n = (k + 1) + j
    <3>1. n - (k + 1) \in Nat /\ n = (k + 1) + (n - (k + 1))
      BY <1>1, <1>3
    <3>. QED
      BY <3>1
  <2>2. n * b = (k + 1) * b + j * b /\ j * b \in Nat
    BY <1>1, <2>1
  <2>. QED
    BY <1>2, <2>2
<1>4. ((k + 1) * b + 0) % b = 0
  BY <1>1, DivUnique
<1>. QED
  BY <1>1, <1>2, <1>3, <1>4 DEF Full, Most, b, n

(* A batch that has not begun begins in time, and the bottle before it.    *)
LEMMA InTimeNone ==
    ASSUME NEW k \in Nat
    PROVE  InTime(0, k)
  BY FullFacts DEF InTime

LEMMA InTimeNext ==
    ASSUME NEW c \in Nat, NEW k \in Nat, c < Full(k), c < Most
    PROVE  InTime(c + 1, k)
  BY FullFacts DEF InTime

LEMMA SizedInit == BatchesInit => Sized
<1>. SUFFICES ASSUME BatchesInit PROVE Sized
  OBVIOUS
<1>1. memoryRead("BATCHCOUNTER") = 0 /\ InTime(0, 0)
  BY InTimeNone, BatchesAssumption DEF BatchesInit, memoryRead, Counters
<1>. QED
  BY <1>1 DEF Sized, SizeOfRun, SizeInMemory, Counting, NoWrite, BatchesInit

LEMMA SizedWriteLow ==
    ASSUME BatchesInv, Sized, WriteLow
    PROVE  Sized'
<1>1. PICK c \in Counters : c = writing.counter
  BY DEF BatchesInv, BatchesTypeOK, WriteLow, Writes
<1>2. /\ eeprom \in Bytes /\ eeprom' = [eeprom EXCEPT ![c][2] = writing.low]
      /\ writing' = NoWrite /\ writing'.counter = "none"
      /\ priming' = priming /\ filled' = filled /\ outages' = outages
      /\ priming_bottleCounter' = priming_bottleCounter
      /\ priming_batchCounter' = priming_batchCounter
      /\ priming_bottleCounter \in Nat /\ priming_batchCounter \in Nat
      /\ outages \in Nat /\ filled \in Nat
  BY <1>1 DEF BatchesInv, BatchesTypeOK, WriteLow, NoWrite, history
<1>3. /\ eeprom'[c][1] = eeprom[c][1] /\ eeprom'[c][2] = writing.low
      /\ \A o \in Counters \ {c} : eeprom'[o] = eeprom[o]
  BY <1>2 DEF Bytes
<1>4. /\ memoryRead(c)' = eeprom[c][1] * Base + writing.low
      /\ \A o \in Counters \ {c} : memoryRead(o)' = memoryRead(o)
  BY <1>3 DEF memoryRead
<1>5. CASE c = "BOTTLECOUNTER"
  <2>1. Counting /\ ~Counting' /\ priming = "STOPPED"
    BY <1>1, <1>2, <1>5 DEF BatchesInv, Counted, Counting
  <2>2. memoryRead("BOTTLECOUNTER")' = priming_bottleCounter
    BY <1>2, <1>4, <1>5, <2>1, DivMod, BatchesAssumption DEF BatchesInv, Counted
  <2>3. memoryRead("BATCHCOUNTER")' = memoryRead("BATCHCOUNTER")
    BY <1>4, <1>5 DEF Counters
  <2>4. outages = 0 /\ filled = priming_bottleCounter =>
           InTime(filled, memoryRead("BATCHCOUNTER"))
    BY <2>1 DEF Sized, SizeOfRun
  <2>5. SizeOfRun'
    BY <1>2, <2>1 DEF SizeOfRun
  <2>6. outages = 0 /\ filled = priming_bottleCounter => SizeInMemory'
    BY <1>2, <2>3, <2>4 DEF SizeInMemory, InTime
  <2>. QED
    BY <1>2, <2>2, <2>5, <2>6 DEF Sized
<1>6. CASE c = "BATCHCOUNTER"
  <2>1. BatchHalfWritten /\ ~Counting /\ ~Counting'
    BY <1>1, <1>2, <1>6 DEF Sized, Counting
  <2>2. memoryRead("BATCHCOUNTER")' = priming_batchCounter
    BY <1>2, <1>4, <1>6, <2>1, DivMod, BatchesAssumption DEF BatchHalfWritten
  <2>3. /\ memoryRead("BOTTLECOUNTER")' = memoryRead("BOTTLECOUNTER")
        /\ memoryRead("BOTTLECOUNTER") = priming_bottleCounter \/ filled = 0
    BY <1>4, <1>6, <2>1 DEF Counters, BatchHalfWritten, BatchesInv, Counted
  <2>4. outages = 0 /\ filled = priming_bottleCounter => SizeOfRun'
    BY <1>2, <2>1, <2>2 DEF Sized, SizeOfRun, InTime, Full, Most
  <2>5. outages = 0 /\ filled = memoryRead("BOTTLECOUNTER") => SizeInMemory'
    <3>1. CASE filled = 0
      BY <1>2, <2>2, <3>1, InTimeNone DEF SizeInMemory
    <3>2. CASE filled = priming_bottleCounter
      BY <1>2, <2>1, <2>2, <3>2 DEF Sized, SizeOfRun, SizeInMemory, BatchHalfWritten
    <3>. QED
      BY <2>3, <3>1, <3>2
  <2>. QED
    BY <1>2, <2>3, <2>4, <2>5 DEF Sized
<1>. QED
  BY <1>5, <1>6 DEF Counters

LEMMA SizedPrimingInit ==
    ASSUME BatchesInv, Sized, PrimingInit
    PROVE  Sized'
<1>1. /\ writing = NoWrite /\ writing' = NoWrite /\ eeprom' = eeprom
      /\ priming' = "WAITING" /\ filled' = filled /\ outages' = outages
      /\ priming_bottleCounter' = memoryRead("BOTTLECOUNTER")
      /\ priming_batchCounter' = memoryRead("BATCHCOUNTER")
  BY DEF PrimingInit, history
<1>2. \A c \in Counters : memoryRead(c)' = memoryRead(c)
  BY <1>1 DEF memoryRead
<1>3. ~Counting' /\ writing'.counter # "BATCHCOUNTER"
  BY <1>1 DEF Counting, NoWrite
<1>4. outages = 0 /\ filled = memoryRead("BOTTLECOUNTER") => SizeInMemory
  BY <1>1 DEF Sized
<1>5. outages = 0 /\ filled = memoryRead("BOTTLECOUNTER") => SizeOfRun' /\ SizeInMemory'
  BY <1>1, <1>2, <1>3, <1>4 DEF SizeOfRun, SizeInMemory, InTime, Full, Most, Counters
<1>. QED
  BY <1>1, <1>2, <1>3, <1>5 DEF Sized, Counters

LEMMA SizedStarts ==
    ASSUME BatchesInv, Sized, Starts
    PROVE  Sized'
<1>. DEFINE c == priming_bottleCounter  k == priming_batchCounter
<1>1. /\ BatchesTypeOK /\ writing = NoWrite /\ priming = "WAITING" /\ priming' = "FILLING"
      /\ c \in Nat /\ k \in Nat /\ k < priming_numBatches /\ c' = c
      /\ filled' = filled /\ outages' = outages /\ filled \in Nat /\ outages \in Nat
      /\ priming_numBatches \in Nat
  BY BatchesAssumption DEF Starts, BatchesLeft, BatchBegins, BatchesInv, BatchesTypeOK, history
<1>2. ~Counting /\ (c = memoryRead("BOTTLECOUNTER") \/ filled = 0)
  BY <1>1 DEF Counting, NoWrite, BatchesInv, Counted
<1>3. outages = 0 /\ filled = c =>
         /\ c <= Full(k) /\ c <= Most
         /\ memoryRead("BATCHCOUNTER") = k \/ c = 0
  BY <1>1 DEF Sized, SizeOfRun, InTime
<1>4. /\ Full(k) < Full(k + 1) /\ Full(k) < Most /\ Full(k) \in Nat \ {0} /\ Most \in Nat
      /\ Full(k + 1) \in Nat
  BY <1>1, FullFacts
<1>5. CASE NextBatchDue
  <2>1. k' = k + 1 /\ memoryWrite("BATCHCOUNTER", k + 1)
    BY <1>5 DEF Starts
  <2>2. /\ writing'.counter = "BATCHCOUNTER"
        /\ eeprom'["BATCHCOUNTER"][1] = (k + 1) \div Base /\ writing'.low = (k + 1) % Base
    BY <1>1, <2>1, WriteKeeps DEF Counters
  <2>3. ~Counting' /\ writing' # NoWrite
    BY <2>2 DEF Counting, NoWrite
  <2>4. BatchHalfWritten'
    BY <1>1, <2>1, <2>2 DEF BatchHalfWritten
  <2>5. outages = 0 /\ filled = c => c < Full(k + 1) /\ c < Most /\ InTime(c, k + 1)
    BY <1>1, <1>3, <1>4 DEF InTime
  <2>6. outages = 0 /\ filled = c => SizeOfRun'
    BY <1>1, <2>1, <2>3, <2>5 DEF SizeOfRun, InTime, Full, Most
  <2>. QED
    BY <1>1, <2>3, <2>4, <2>6 DEF Sized
<1>6. CASE ~NextBatchDue
  <2>1. k' = k /\ eeprom' = eeprom /\ writing' = writing
    BY <1>6 DEF Starts
  <2>2. \A o \in Counters : memoryRead(o)' = memoryRead(o)
    BY <2>1 DEF memoryRead
  <2>3. c # Full(k)
    BY <1>1, <1>4, <1>6, FullFacts DEF NextBatchDue
  <2>4. outages = 0 /\ filled = c => c < Full(k) /\ c < Most /\ InTime(c, k)
    BY <1>1, <1>3, <1>4, <2>3 DEF InTime
  <2>5. ~Counting' /\ writing'.counter # "BATCHCOUNTER"
    BY <1>1, <2>1 DEF Counting, NoWrite
  <2>6. outages = 0 /\ filled = c => SizeOfRun'
    BY <1>1, <1>3, <2>1, <2>2, <2>4, <2>5 DEF SizeOfRun, InTime, Full, Most, Counters
  <2>7. outages = 0 /\ filled = memoryRead("BOTTLECOUNTER") => SizeInMemory'
    BY <1>1, <2>1, <2>2 DEF Sized, SizeInMemory, InTime, Full, Most, Counters
  <2>. QED
    BY <1>1, <2>2, <2>5, <2>6, <2>7 DEF Sized, Counters
<1>. QED
  BY <1>5, <1>6

LEMMA SizedCounts ==
    ASSUME BatchesInv, Sized, CountsFilled \/ CountsPhantom
    PROVE  Sized'
<1>. DEFINE c == priming_bottleCounter  k == priming_batchCounter
<1>1. /\ BatchesTypeOK /\ writing = NoWrite /\ priming # "STOPPED" /\ priming' = "STOPPED"
      /\ c \in Nat /\ k \in Nat /\ c' = c + 1 /\ outages' = outages
      /\ filled \in Nat /\ outages \in Nat /\ memoryWrite("BOTTLECOUNTER", c + 1)
      /\ (priming = "FILLING" /\ filled' = filled + 1) \/ filled' = filled
  BY DEF CountsFilled, CountsPhantom, Counts, BatchesInv, BatchesTypeOK
<1>2. filled <= c + outages
  BY <1>1 DEF BatchesInv, Counted
<1>3. /\ writing'.counter = "BOTTLECOUNTER" /\ writing' # NoWrite
      /\ memoryRead("BATCHCOUNTER")' = memoryRead("BATCHCOUNTER")
  <2>1. writing'.counter = "BOTTLECOUNTER"
        /\ \A o \in Counters \ {"BOTTLECOUNTER"} : memoryRead(o)' = memoryRead(o)
    BY <1>1, WriteKeeps DEF Counters
  <2>. QED
    BY <2>1 DEF Counters, NoWrite
<1>4. ASSUME outages = 0, filled' = c'
      PROVE  SizeOfRun'
  <2>1. priming = "FILLING" /\ filled = c
    BY <1>1, <1>2, <1>4
  <2>2. /\ c < Full(k) /\ c < Most
        /\ memoryRead("BATCHCOUNTER") = k \/ c = 0
    BY <1>1, <1>4, <2>1 DEF Sized, SizeOfRun
  <2>3. memoryRead("BATCHCOUNTER") \in Nat
    BY <1>1, ReadIsNat DEF Counters
  <2>4. c < Full(memoryRead("BATCHCOUNTER"))
    BY <1>1, <2>2, <2>3, FullFacts
  <2>5. InTime(c + 1, memoryRead("BATCHCOUNTER"))
    BY <1>1, <2>2, <2>3, <2>4, InTimeNext
  <2>. QED
    BY <1>1, <1>3, <2>5 DEF SizeOfRun, InTime, Full, Most
<1>. QED
  BY <1>1, <1>3, <1>4 DEF Sized

(* A stop, a clear or a power loss.                                        *)
LEMMA SizedStops ==
    ASSUME BatchesInv, Sized, StopsEarly
    PROVE  Sized'
<1>1. /\ writing = NoWrite /\ writing' = NoWrite /\ eeprom' = eeprom /\ priming' = "STOPPED"
      /\ filled' = filled /\ outages' = outages
  BY DEF StopsEarly, history
<1>2. \A c \in Counters : memoryRead(c)' = memoryRead(c)
  BY <1>1 DEF memoryRead
<1>3. ~Counting' /\ writing'.counter # "BATCHCOUNTER"
  BY <1>1 DEF Counting, NoWrite
<1>4. SizeOfRun'
  BY <1>1, <1>3 DEF SizeOfRun
<1>5. SizeInMemory => SizeInMemory'
  BY <1>1, <1>2 DEF SizeInMemory, InTime, Full, Most, Counters
<1>. QED
  BY <1>1, <1>2, <1>3, <1>4, <1>5 DEF Sized, Counters

LEMMA SizedAnew ==
    ASSUME BatchesInv, BatchesInv', ClearCount \/ ClearIsCut
    PROVE  Sized'
<1>1. /\ filled' = 0 /\ writing' = NoWrite /\ writing = NoWrite
      /\ BatchesTypeOK' /\ priming_batchCounter' \in Nat
  BY DEF ClearCount, ClearIsCut, CountAnew, Restarts, BatchesInv, BatchesTypeOK
<1>2. memoryRead("BATCHCOUNTER")' \in Nat
  <2>1. eeprom' \in Bytes
    BY <1>1 DEF BatchesTypeOK
  <2>. QED
    BY <2>1, BytesRead DEF memoryRead, Counters
<1>3. InTime(0, memoryRead("BATCHCOUNTER")') /\ InTime(0, priming_batchCounter')
      /\ 0 < Full(priming_batchCounter') /\ 0 < Most
  BY <1>1, <1>2, InTimeNone, FullFacts
<1>4. ~Counting' /\ writing'.counter # "BATCHCOUNTER"
  BY <1>1 DEF Counting, NoWrite
<1>5. SizeInMemory'
  BY <1>1, <1>3 DEF SizeInMemory, InTime, Full, Most
<1>6. priming_bottleCounter' = 0 => SizeOfRun'
  BY <1>3, <1>4 DEF SizeOfRun, InTime, Full, Most
<1>. QED
  BY <1>1, <1>4, <1>5, <1>6 DEF Sized

LEMMA SizedPowerLoss ==
    ASSUME BatchesInv, PowerLoss
    PROVE  Sized'
<1>1. outages' # 0 /\ writing'.counter # "BATCHCOUNTER"
  BY DEF PowerLoss, Restarts, NoWrite, BatchesInv, BatchesTypeOK
<1>. QED
  BY <1>1 DEF Sized

(* An experiment whose bottles are all counted, and counted once, has the  *)
(* bottles of its batches and one more, for any number of either (priming- *)
(* _runnable, tasks/priming.h).                                            *)
THEOREM ExperimentSizeAlways == BatchesSpec => []ExperimentSize
<1>1. BatchesInv /\ Sized => ExperimentSize
  BY DEF Sized, SizeInMemory, InTime, Most, ExperimentSize
<1>2. BatchesInv /\ BatchesInv' /\ Sized /\ [BatchesNext]_batchVars => Sized'
  <2>1. SUFFICES ASSUME BatchesInv, BatchesInv', Sized, [BatchesNext]_batchVars
                 PROVE  Sized'
    OBVIOUS
  <2>2. CASE UNCHANGED batchVars
    <3>1. memoryRead("BOTTLECOUNTER")' = memoryRead("BOTTLECOUNTER")
          /\ memoryRead("BATCHCOUNTER")' = memoryRead("BATCHCOUNTER")
      BY <2>2 DEF batchVars, memoryRead
    <3>2. SizeOfRun' = SizeOfRun /\ SizeInMemory' = SizeInMemory
      BY <2>2, <3>1 DEF batchVars, history, SizeOfRun, SizeInMemory, Counting, InTime, Full, Most
    <3>. QED
      BY <2>1, <2>2, <3>1, <3>2 DEF batchVars, history, Sized, BatchHalfWritten
  <2>. QED
    BY <2>1, <2>2, SizedWriteLow, SizedPrimingInit, SizedStarts, SizedCounts, SizedStops,
       SizedAnew, SizedPowerLoss DEF BatchesNext
<1>. QED
  BY <1>1, <1>2, InitInv, BatchesInvStep, SizedInit, PTL DEF BatchesSpec

-----------------------------------------------------------------------------
(* The sampler.  While the line only loses commands and answers, the       *)
(* needle goes from the hole of one dose to the next in steps that a lost  *)
(* command repeats; an attempt too many raises SAMPLERERROR, after which   *)
(* nothing is dosed before a recovery, which goes back to the hole that    *)
(* was asked last.                                                         *)

(* The next sample goes to the hole after the last one; where a dose       *)
(* begins, there is a hole left.                                           *)
Follows(h) == h \in Nat /\ (place = -1 \/ h = place + 1)
RoomAt(h) == h \in Nat /\ h < Holes

(* Where the needle is, in each of the steps of a sample.                  *)
Positioned ==
    /\ at \in {"stopped", "asking"} => Follows(hole)
    /\ at = "asking" => hole < Holes /\ state = 0
    /\ at = "running" /\ sampleState = 0 =>
          /\ Follows(hole)
          /\ due => hole < Holes
          /\ due /\ ~samplerError => numSample = hole /\ (state = 2 => over = "hole")
    /\ at = "running" /\ sampleState = 1 =>
          /\ due /\ Follows(hole) /\ hole < Holes /\ numSample = hole
          /\ ~samplerError => over = "hole" /\ state = 0
    /\ at \in {"running", "sending"} /\ sampleState = 2 =>
          due /\ RoomAt(place) /\ hole = place /\ numSample = place /\ state = 0
    /\ at = "running" /\ sampleState = 3 =>
          /\ due /\ RoomAt(place) /\ numSample = place
          /\ ~samplerError => IF state = 2 THEN hole = place + 1
                              ELSE hole = place \/ (place = 0 /\ hole = 1)
    /\ at = "running" /\ sampleState = 4 => due
    /\ (at = "running" /\ sampleState = 4) \/ at = "finishing" =>
          place \in Nat /\ hole = place + 1

(* A recovery that does not go astray takes the needle to numSample, which *)
(* is the hole of the next dose, or of the one that has ended.             *)
Recovering ==
    /\ samplerError /\ state \in {0, 1, 2} /\ resets \in {<<"last">>, <<"rinse">>, <<>>}
    /\ \/ sampleState = 0 /\ Follows(numSample) /\ (due => numSample < Holes)
       \/ sampleState = 3 /\ due /\ RoomAt(place) /\ numSample = place
    /\ \/ resets = <<"last">> /\ state # 2
       \/ hole = numSample /\ stale = Silence
    /\ resets = <<>> => state = 0

(* What the promise rests on while it is not void.                         *)
OnlyLosses ==
    /\ at \in {"stopped", "asking", "running", "sending", "finishing", "recovering"}
    /\ samplerError => at \in {"running", "finishing", "recovering"}
    /\ samplerError /\ at = "running" => sampleState # 2
    /\ sampleState \in 0 .. 4
    /\ at = "asking" => sampleState = 0
    /\ at = "sending" => sampleState = 2
    /\ stale \in {Silence, Z}
    /\ ~samplerError => stale = Silence /\ state \in {0, 1, 2}
    /\ at # "recovering" => resets = <<>> /\ Positioned
    /\ at = "recovering" => Recovering

SamplerInv == broken \in BOOLEAN /\ (broken \/ OnlyLosses)

(* The initial states.                                                     *)
LEMMA SamplerInitInv == SamplerInit => SamplerInv /\ Series!Init
<1>. SUFFICES ASSUME SamplerInit PROVE SamplerInv /\ Series!Init
  OBVIOUS
<1>1. Positioned
  BY DEF SamplerInit, Positioned, Follows
<1>2. OnlyLosses
  BY <1>1 DEF SamplerInit, OnlyLosses
<1>. QED
  BY <1>2 DEF SamplerInit, SamplerInv, Series!Init

(* The outcomes that leave the promise standing: neither late nor refused, *)
(* and a Gr1 that is obeyed is answered.                                   *)
Mild == {"answered", "lost", "unheard"}

LEMMA MildOutcome ==
    ASSUME NEW o \in Outcome, NEW cmd, Wears(o, cmd), ~broken'
    PROVE  /\ o \in Mild /\ (o = "unheard" => cmd[1] # "Gr1")
           /\ ~broken /\ ~Misplaces(o)
<1>1. o \in {"answered", "lost", "unheard", "late", "E01"}
  BY SamplerAssumption DEF Outcome
<1>2. ~Misleads(o, cmd) /\ ~broken /\ ~Misplaces(o)
  BY DEF Wears
<1>. QED
  BY <1>1, <1>2 DEF Misleads, Mild

(* What such a command does to the needle.                                 *)
LEMMA Needle ==
    ASSUME NEW o \in Mild
    PROVE  /\ \A n : Executes(o, <<"Ta", n>>) => UNCHANGED <<hole, over>>
           /\ \A n : Executes(o, <<"N", n>>) => UNCHANGED <<hole, over>>
           /\ \A n : Executes(o, <<"GSp", n>>) => hole' = hole
           /\ \A n \in Nat : Executes(o, <<"G", n>>) =>
                 IF o = "lost" THEN UNCHANGED <<hole, over>> ELSE hole' = n /\ over' = "hole"
           /\ \A n : Executes(o, <<"Gr1", n>>) =>
                 hole' = IF o # "lost" /\ hole < Holes THEN hole + 1 ELSE hole
<1>1. \A c, n : <<c, n>>[1] = c /\ <<c, n>>[2] = n
  OBVIOUS
<1>2. Obeys(o) <=> o # "lost"
  BY DEF Obeys, Mild
<1>3. ASSUME NEW n PROVE Executes(o, <<"Ta", n>>) => UNCHANGED <<hole, over>>
  BY <1>1 DEF Executes, HoleAfter, OverAfter
<1>4. ASSUME NEW n PROVE Executes(o, <<"N", n>>) => UNCHANGED <<hole, over>>
  BY <1>1 DEF Executes, HoleAfter, OverAfter
<1>5. ASSUME NEW n PROVE Executes(o, <<"GSp", n>>) => hole' = hole
  BY <1>1 DEF Executes, HoleAfter
<1>6. ASSUME NEW n \in Nat
      PROVE  Executes(o, <<"G", n>>) =>
                IF o = "lost" THEN UNCHANGED <<hole, over>> ELSE hole' = n /\ over' = "hole"
  BY <1>1, <1>2 DEF Executes, HoleAfter, OverAfter
<1>7. ASSUME NEW n
      PROVE  Executes(o, <<"Gr1", n>>) =>
                hole' = IF o # "lost" /\ hole < Holes THEN hole + 1 ELSE hole
  BY <1>1, <1>2 DEF Executes, HoleAfter
<1>. QED
  BY <1>3, <1>4, <1>5, <1>6, <1>7

(* It is not refused.                                                      *)
LEMMA NotRefused ==
    ASSUME stale \in {Silence, Z}, NEW o \in Mild
    PROVE  ~Refused(o)
<1>1. Silence.c = "" /\ Z.c = "Z"
  BY DEF Silence, Z, Answer
<1>2. Fresh(o, Z) \in {Silence, Z}
  BY DEF Fresh, Mild
<1>3. Read(o, Z) \in {Silence, Z}
  BY <1>1, <1>2 DEF Read
<1>. QED
  BY <1>1, <1>3 DEF Refused

(* It ends a step of the dialogue, or is to be repeated, or was one too    *)
(* many; an answer that was left unread ends the step as well.             *)
LEMMA Repeats ==
    ASSUME stale \in {Silence, Z}, NEW o \in Mild, NEW s, NEW next, cmdSuccess(o, s, next)
    PROVE  /\ stale' \in {Silence, Z} /\ state' \in {s, next}
           /\ ~GivesUp =>
                 /\ samplerError' = samplerError /\ stale' = Silence
                 /\ state' = IF stale = Z \/ o = "answered" THEN next ELSE s
           /\ GivesUp => samplerError'
<1>1. Read(o, Z).c = "Z" <=> stale = Z \/ o = "answered"
  <2>1. Silence.c = "" /\ Z.c = "Z"
    BY DEF Silence, Z, Answer
  <2>2. Read(o, Z) = IF stale = Silence THEN (IF o = "answered" THEN Z ELSE Silence) ELSE stale
    BY <2>1 DEF Read, Fresh, Mild
  <2>. QED
    BY <2>1, <2>2
<1>2. Unread(o, Z) \in {Silence, Z} /\ Behind(o, Z) = Silence
  BY DEF Unread, Fresh, Behind, Mild
<1>. QED
  BY <1>1, <1>2 DEF cmdSuccess

(* A step of the sample, while the promise stands: a command is sent, and  *)
(* either repeated or followed by the next; the last one ends the step.    *)
LEMMA CommandStep ==
    ASSUME OnlyLosses, ~broken', NEW n \in {0, 3, 4}, NEW move, Moves(n, move)
    PROVE  /\ at = "running" /\ due /\ ~samplerError /\ sampleState = n
           /\ stale' \in {Silence, Z} /\ UNCHANGED <<numSample, resets, due, place>>
           /\ \E o \in Mild :
                 /\ o = "unheard" => Command(move)[1] # "Gr1"
                 /\ Executes(o, Command(move))
                 /\ \/ state' = 0 /\ state = 2 /\ StepDone(n)
                    \/ state' # 0 /\ UNCHANGED taskVars
                 /\ ~samplerError' =>
                       /\ stale' = Silence
                       /\ state' = IF o = "answered" THEN (IF state = 2 THEN 0 ELSE 2)
                                   ELSE IF state = 2 THEN 2 ELSE 1
<1>1. at = "running" /\ due /\ ~samplerError /\ sampleState = n /\ UNCHANGED numSample
  BY DEF Moves
<1>2. stale = Silence /\ state \in {0, 1, 2}
  BY <1>1 DEF OnlyLosses
<1>3. PICK o \in Outcome :
         /\ Wears(o, Command(move))
         /\ \/ /\ Position(o, move)
               /\ IF samplerReady THEN StepDone(n) ELSE UNCHANGED taskVars
               /\ UNCHANGED resets
            \/ Resets(o, move, "resetting")
  BY DEF Moves
<1>4. o \in Mild /\ (o = "unheard" => Command(move)[1] # "Gr1")
  BY <1>3, MildOutcome
<1>5. ~Refused(o)
  BY <1>2, <1>4, NotRefused
<1>6. /\ Position(o, move)
      /\ IF samplerReady THEN StepDone(n) ELSE UNCHANGED taskVars
      /\ UNCHANGED resets
  BY <1>3, <1>5 DEF Resets
<1>. DEFINE s == IF state = 0 THEN 1 ELSE state
<1>7. /\ Executes(o, Command(move))
      /\ cmdSuccess(o, s, IF s = 1 THEN 2 ELSE 0)
  BY <1>6 DEF Position
<1>8. s = (IF state = 2 THEN 2 ELSE 1)
  BY <1>2
<1>. HIDE DEF s
<1>9. /\ stale' \in {Silence, Z}
      /\ state' \in {s, IF s = 1 THEN 2 ELSE 0}
      /\ ~samplerError' =>
             /\ stale' = Silence
             /\ state' = IF o = "answered" THEN (IF s = 1 THEN 2 ELSE 0) ELSE s
  <2>1. Silence # Z
    BY DEF Silence, Z, Answer
  <2>. QED
    BY <1>2, <1>4, <1>7, <2>1, Repeats
<1>10. /\ state' = 0 => state = 2
       /\ ~samplerError' =>
             /\ stale' = Silence
             /\ state' = IF o = "answered" THEN (IF state = 2 THEN 0 ELSE 2)
                         ELSE IF state = 2 THEN 2 ELSE 1
  BY <1>8, <1>9
<1>11. UNCHANGED <<due, place>>
  BY <1>6 DEF StepDone, taskVars
<1>12. \/ state' = 0 /\ StepDone(n)
       \/ state' # 0 /\ UNCHANGED taskVars
  <2>1. CASE samplerReady
    BY <1>6, <2>1 DEF samplerReady
  <2>2. CASE ~samplerReady
    BY <1>6, <2>2 DEF samplerReady
  <2>. QED
    BY <2>1, <2>2
<1>. QED
  BY <1>1, <1>4, <1>6, <1>7, <1>9, <1>10, <1>11, <1>12

-----------------------------------------------------------------------------
(* The steps of a sample, one after the other.  To the hole that           *)
(* askNumSample named, and the needle down.                                *)
LEMMA ToLastStep ==
    ASSUME OnlyLosses, ~broken', ToLastPosition
    PROVE  OnlyLosses'
<1>1. Moves(0, lastPosition)
  BY DEF ToLastPosition
<1>2. /\ at = "running" /\ due /\ ~samplerError /\ sampleState = 0
      /\ stale' \in {Silence, Z} /\ UNCHANGED <<numSample, resets, due, place>>
  BY <1>1, CommandStep
<1>3. PICK o \in Mild :
         /\ Executes(o, Command(lastPosition))
         /\ \/ state' = 0 /\ state = 2 /\ StepDone(0)
            \/ state' # 0 /\ UNCHANGED taskVars
         /\ ~samplerError' =>
               /\ stale' = Silence
               /\ state' = IF o = "answered" THEN (IF state = 2 THEN 0 ELSE 2)
                           ELSE IF state = 2 THEN 2 ELSE 1
  BY <1>1, CommandStep
<1>4. /\ hole \in Nat /\ hole < Holes /\ numSample = hole /\ Follows(hole) /\ resets = <<>>
      /\ state \in {0, 1, 2} /\ (state = 2 => over = "hole")
  BY <1>2 DEF OnlyLosses, Positioned, Follows
<1>5. hole' = hole /\ (state = 2 \/ o = "answered" => over' = "hole")
  <2>1. CASE state = 2
    BY <1>3, <1>4, <2>1, Needle DEF Command
  <2>2. CASE state # 2
    BY <1>3, <1>4, <2>2, Needle DEF Command, lastPosition
  <2>. QED
    BY <2>1, <2>2
<1>6. at' = "running" /\ sampleState' \in {0, 1}
  BY <1>2, <1>3 DEF StepDone, taskVars
<1>7. Follows(hole)'
  BY <1>2, <1>4, <1>5 DEF Follows
<1>8. ~samplerError' =>
         /\ state' \in {0, 1, 2} /\ stale' = Silence
         /\ sampleState' = 1 => state' = 0 /\ over' = "hole"
         /\ sampleState' = 0 /\ state' = 2 => over' = "hole"
  BY <1>2, <1>3, <1>5 DEF StepDone, taskVars
<1>9. Positioned'
  BY <1>2, <1>4, <1>5, <1>6, <1>7, <1>8 DEF Positioned
<1>. QED
  BY <1>2, <1>4, <1>6, <1>8, <1>9 DEF OnlyLosses

(* To the next hole, which is G1 from the first.                           *)
LEMMA ToNextStep ==
    ASSUME OnlyLosses, ~broken', ToNextPosition
    PROVE  OnlyLosses'
<1>1. Moves(3, nextPosition)
  BY DEF ToNextPosition
<1>2. /\ at = "running" /\ due /\ ~samplerError /\ sampleState = 3
      /\ stale' \in {Silence, Z} /\ UNCHANGED <<numSample, resets, due, place>>
  BY <1>1, CommandStep
<1>3. PICK o \in Mild :
         /\ o = "unheard" => Command(nextPosition)[1] # "Gr1"
         /\ Executes(o, Command(nextPosition))
         /\ \/ state' = 0 /\ state = 2 /\ StepDone(3)
            \/ state' # 0 /\ UNCHANGED taskVars
         /\ ~samplerError' =>
               /\ stale' = Silence
               /\ state' = IF o = "answered" THEN (IF state = 2 THEN 0 ELSE 2)
                           ELSE IF state = 2 THEN 2 ELSE 1
  BY <1>1, CommandStep
<1>4. /\ place \in Nat /\ place < Holes /\ numSample = place /\ resets = <<>>
      /\ state \in {0, 1, 2}
      /\ IF state = 2 THEN hole = place + 1 ELSE hole = place \/ (place = 0 /\ hole = 1)
  BY <1>2 DEF OnlyLosses, Positioned, RoomAt
<1>5. /\ state = 2 \/ o = "answered" => hole' = place + 1
      /\ state # 2 /\ o # "answered" => hole' = place \/ (place = 0 /\ hole' = 1)
  <2>1. CASE state = 2
    BY <1>3, <1>4, <2>1, Needle DEF Command
  <2>2. CASE state # 2 /\ numSample = 0
    <3>1. Executes(o, <<"G", 1>>)
      BY <1>3, <2>2 DEF Command, nextPosition
    <3>2. IF o = "lost" THEN hole' = hole ELSE hole' = 1
      BY <3>1, Needle
    <3>. QED
      BY <1>4, <2>2, <3>2
  <2>3. CASE state # 2 /\ numSample # 0
    <3>1. Executes(o, <<"Gr1", 0>>) /\ o # "unheard" /\ hole = place
      BY <1>3, <1>4, <2>3 DEF Command, nextPosition
    <3>2. hole' = IF o # "lost" /\ hole < Holes THEN hole + 1 ELSE hole
      BY <3>1, Needle
    <3>. QED
      BY <1>4, <2>3, <3>1, <3>2 DEF Mild
  <2>. QED
    BY <2>1, <2>2, <2>3
<1>6. /\ at' = "running" /\ sampleState' \in {3, 4}
      /\ sampleState' = 4 => state = 2
  BY <1>2, <1>3 DEF StepDone, taskVars
<1>7. ~samplerError' =>
         /\ state' \in {0, 1, 2} /\ stale' = Silence
         /\ sampleState' = 3 => IF state' = 2 THEN hole' = place + 1
                                ELSE hole' = place \/ (place = 0 /\ hole' = 1)
  <2>1. SUFFICES ASSUME ~samplerError'
                 PROVE  /\ state' \in {0, 1, 2}
                        /\ sampleState' = 3 => IF state' = 2 THEN hole' = place + 1
                                               ELSE hole' = place \/ (place = 0 /\ hole' = 1)
    BY <1>3
  <2>2. CASE state = 2
    BY <1>2, <1>3, <1>5, <2>1, <2>2 DEF StepDone, taskVars
  <2>3. CASE state # 2
    BY <1>3, <1>4, <1>5, <2>1, <2>3
  <2>. QED
    BY <2>2, <2>3
<1>8. Positioned'
  BY <1>2, <1>4, <1>5, <1>6, <1>7 DEF Positioned, RoomAt
<1>. QED
  BY <1>2, <1>4, <1>6, <1>7, <1>8 DEF OnlyLosses

(* To the waste, over which the carousel stands still.                     *)
LEMMA ToRinseStep ==
    ASSUME OnlyLosses, ~broken', ToRinsePosition
    PROVE  OnlyLosses'
<1>1. Moves(4, rinsePosition)
  BY DEF ToRinsePosition
<1>2. /\ at = "running" /\ due /\ ~samplerError /\ sampleState = 4
      /\ stale' \in {Silence, Z} /\ UNCHANGED <<numSample, resets, due, place>>
  BY <1>1, CommandStep
<1>3. PICK o \in Mild :
         /\ Executes(o, Command(rinsePosition))
         /\ \/ state' = 0 /\ state = 2 /\ StepDone(4)
            \/ state' # 0 /\ UNCHANGED taskVars
         /\ ~samplerError' =>
               /\ stale' = Silence
               /\ state' = IF o = "answered" THEN (IF state = 2 THEN 0 ELSE 2)
                           ELSE IF state = 2 THEN 2 ELSE 1
  BY <1>1, CommandStep
<1>4. place \in Nat /\ hole = place + 1 /\ resets = <<>>
  BY <1>2 DEF OnlyLosses, Positioned
<1>5. hole' = hole
  <2>1. CASE state = 2
    BY <1>3, <2>1, Needle DEF Command
  <2>2. CASE state # 2
    BY <1>3, <2>2, Needle DEF Command, rinsePosition
  <2>. QED
    BY <2>1, <2>2
<1>6. sampleState' = 4 /\ at' \in {"running", "finishing"}
  BY <1>2, <1>3 DEF StepDone, taskVars
<1>7. ~samplerError' => state' \in {0, 1, 2} /\ stale' = Silence
  BY <1>3
<1>8. Positioned'
  BY <1>2, <1>4, <1>5, <1>6 DEF Positioned
<1>. QED
  BY <1>2, <1>4, <1>6, <1>7, <1>8 DEF OnlyLosses

(* The dose, where the needle is.                                          *)
LEMMA DoseStep ==
    ASSUME OnlyLosses, ~broken', StartsDose \/ EndsDose
    PROVE  OnlyLosses' /\ (StartsDose => place' = hole /\ Follows(hole))
<1>1. at = "running" /\ ~samplerError /\ Positioned
  BY DEF StartsDose, EndsDose, OnlyLosses
<1>2. CASE StartsDose
  <2>1. /\ ~broken /\ sampleState = 1 /\ over = "hole" /\ Follows(hole) /\ hole < Holes
        /\ state = 0 /\ due /\ numSample = hole
    BY <1>1, <1>2 DEF StartsDose, Positioned, lineVars
  <2>2. place' = hole
    BY <2>1, <1>2 DEF StartsDose
  <2>3. Positioned'
    BY <1>1, <1>2, <2>1, <2>2
    DEF StartsDose, Positioned, Follows, RoomAt, classVars, deviceVars
  <2>. QED
    BY <1>2, <2>1, <2>2, <2>3 DEF StartsDose, OnlyLosses, classVars, lineVars
<1>3. CASE EndsDose
  <2>1. Positioned'
    BY <1>1, <1>3 DEF EndsDose, Positioned, Follows, RoomAt, classVars, deviceVars
  <2>. QED
    BY <1>1, <1>3, <2>1 DEF EndsDose, StartsDose, OnlyLosses, classVars, lineVars
<1>. QED
  BY <1>2, <1>3

(* When the first loop of a reset ends, its second one is left; then none. *)
LEMMA UnwindOne == Unwind(<<"last">>) = <<"rinse">> /\ Unwind(<<"rinse">>) = <<>>
<1>1. Unwind(<<"rinse">>) = <<>>
  BY DEF Unwind
<1>2. Unwind(<<"last">>) = <<"rinse">>
  <2>. DEFINE stack == <<"last">>
              Last(k) == stack[k] = "last" /\ \A j \in k + 1 .. Len(stack) : stack[j] # "last"
              k == CHOOSE k \in DOMAIN stack : Last(k)
  <2>1. DOMAIN stack = {1} /\ Len(stack) = 1 /\ stack[1] = "last"
    OBVIOUS
  <2>2. Last(1)
    BY <2>1
  <2>3. k = 1
    BY <2>1, <2>2
  <2>4. Unwind(stack) = Append(SubSeq(stack, 1, k - 1), "rinse")
    BY <2>1 DEF Unwind
  <2>5. SubSeq(stack, 1, 0) = <<>>
    OBVIOUS
  <2>. QED
    BY <2>3, <2>4, <2>5
<1>. QED
  BY <1>1, <1>2

(* The three questions for the number of the sample: one that is answered  *)
(* names the hole, one that is lost is repeated, one too many is given up. *)
LEMMA AskedStep ==
    ASSUME OnlyLosses, ~broken', AsksNumber \/ SendsNumber \/ Finishes
    PROVE  OnlyLosses'
<1>. DEFINE r(o) == Read(o, Answer("N", hole))
<1>1. PICK o \in Mild :
         /\ Executes(o, <<"N", 0>>)
         /\ stale' = Behind(o, Answer("N", hole))
         /\ numSample' = IF r(o).c = "N" THEN r(o).n ELSE numSample
         /\ samplerError' = (samplerError \/ Exhausted)
         /\ \/ /\ Exhausted \/ r(o).c = "N"
               /\ \/ at = "asking" /\ at' = "running" /\ UNCHANGED <<sampleState, due, place>>
                  \/ /\ at = "sending" /\ at' = "running" /\ sampleState' = 3
                     /\ UNCHANGED <<due, place>>
                  \/ /\ at = "finishing" /\ at' = "running" /\ sampleState' = 0
                     /\ due' = FALSE /\ UNCHANGED place
            \/ /\ ~(Exhausted \/ r(o).c = "N")
               /\ at \in {"asking", "sending", "finishing"} /\ UNCHANGED taskVars
         /\ UNCHANGED <<state, resets>>
  <2>1. CASE AsksNumber
    BY <2>1, MildOutcome DEF AsksNumber, askNumSample
  <2>2. CASE SendsNumber
    BY <2>2, MildOutcome DEF SendsNumber, askNumSample
  <2>3. CASE Finishes
    BY <2>3, MildOutcome DEF Finishes, askNumSample
  <2>. QED
    BY <2>1, <2>2, <2>3
<1>2. UNCHANGED <<hole, over>> /\ stale' = Silence
  BY <1>1, Needle DEF Behind, Mild
<1>3. at \in {"asking", "sending", "finishing"} /\ resets = <<>> /\ Positioned
  BY <1>1 DEF OnlyLosses
<1>4. at # "finishing" => ~samplerError /\ stale = Silence /\ state = 0
  BY <1>3 DEF OnlyLosses, Positioned
<1>5. /\ Answer("N", hole).c = "N" /\ Answer("N", hole).n = hole
      /\ Silence.c = "" /\ Z.c = "Z"
  BY DEF Silence, Z, Answer
<1>6. r(o) \in {Answer("N", hole), Silence, Z} /\ (stale = Silence => r(o) # Z)
  BY <1>5 DEF Read, Fresh, OnlyLosses, Mild
<1>7. numSample' \in {numSample, hole} /\ (r(o).c = "N" => numSample' = hole)
  BY <1>1, <1>5, <1>6
<1>. HIDE DEF r
<1>8. CASE at = "asking"
  <2>1. sampleState' = 0 /\ UNCHANGED <<due, place, state>> /\ at' \in {"asking", "running"}
    BY <1>1, <1>8 DEF OnlyLosses, taskVars
  <2>2. Follows(hole)' /\ hole' < Holes /\ state' = 0
    BY <1>2, <1>3, <1>4, <1>8, <2>1 DEF Positioned, Follows
  <2>3. at' = "running" /\ ~samplerError' => numSample' = hole'
    BY <1>1, <1>2, <1>7, <1>8 DEF taskVars
  <2>4. at' = "asking" => ~samplerError'
    BY <1>1, <1>4, <1>8
  <2>5. Positioned'
    BY <2>1, <2>2, <2>3 DEF Positioned
  <2>. QED
    BY <1>1, <1>2, <1>3, <2>1, <2>2, <2>4, <2>5 DEF OnlyLosses
<1>9. CASE at = "sending"
  <2>1. /\ UNCHANGED <<due, place, state>>
        /\ \/ at' = "sending" /\ sampleState' = 2 /\ ~samplerError'
           \/ at' = "running" /\ sampleState' = 3
    BY <1>1, <1>4, <1>9 DEF OnlyLosses, taskVars
  <2>2. due /\ RoomAt(place) /\ hole = place /\ numSample = place /\ state = 0
    BY <1>3, <1>9 DEF OnlyLosses, Positioned
  <2>3. Positioned'
    BY <1>2, <1>7, <2>1, <2>2 DEF Positioned, RoomAt
  <2>. QED
    BY <1>1, <1>2, <1>3, <2>1, <2>2, <2>3 DEF OnlyLosses
<1>10. CASE at = "finishing"
  <2>1. /\ UNCHANGED <<place, state>>
        /\ \/ at' = "finishing" /\ UNCHANGED <<sampleState, due>>
           \/ at' = "running" /\ sampleState' = 0 /\ due' = FALSE
    BY <1>1, <1>10 DEF OnlyLosses, taskVars
  <2>2. place \in Nat /\ hole = place + 1
    BY <1>3, <1>10 DEF Positioned
  <2>3. Positioned'
    BY <1>2, <2>1, <2>2 DEF Positioned, Follows
  <2>4. ~samplerError' => state' \in {0, 1, 2}
    BY <1>1, <2>1 DEF OnlyLosses
  <2>. QED
    BY <1>1, <1>2, <1>3, <2>1, <2>3, <2>4 DEF OnlyLosses
<1>. QED
  BY <1>3, <1>8, <1>9, <1>10

(* The beginning and the end of a sampling.                                *)
LEMMA EndsStep ==
    ASSUME OnlyLosses, ~broken', StartsSampling \/ Stops \/ Aborts \/ Heals
    PROVE  OnlyLosses'
<1>1. CASE StartsSampling
  <2>1. ~samplerError /\ Follows(hole) /\ resets = <<>>
    BY <1>1 DEF StartsSampling, OnlyLosses, Positioned
  <2>2. Positioned'
    BY <1>1, <2>1 DEF StartsSampling, Positioned, Follows, deviceVars
  <2>. QED
    BY <1>1, <2>1, <2>2 DEF StartsSampling, OnlyLosses, lineVars
<1>2. CASE Stops \/ Aborts
  <2>1. ~samplerError /\ Positioned /\ at = "running" /\ resets = <<>> /\ at' = "stopped"
    BY <1>2 DEF Stops, Aborts, OnlyLosses
  <2>2. due => sampleState \notin {2, 3}
    BY <1>2 DEF Stops, Aborts
  <2>3. Follows(hole)
    BY <2>1, <2>2 DEF Positioned, OnlyLosses, Follows
  <2>4. Positioned'
    BY <1>2, <2>1, <2>3 DEF Stops, Aborts, Positioned, Follows, deviceVars
  <2>. QED
    BY <1>2, <2>1, <2>4 DEF Stops, Aborts, OnlyLosses, classVars, lineVars
<1>3. CASE Heals
  <2>1. Positioned => Positioned'
    BY <1>3 DEF Heals, Positioned, Follows, RoomAt, classVars, deviceVars, taskVars
  <2>2. Recovering => Recovering'
    BY <1>3 DEF Heals, Recovering, Follows, RoomAt, classVars, deviceVars, taskVars
  <2>. QED
    BY <1>3, <2>1, <2>2 DEF Heals, OnlyLosses, classVars, taskVars
<1>. QED
  BY <1>1, <1>2, <1>3

(* A recovery begins: the needle is to go where numSample says.            *)
LEMMA RecoversStep ==
    ASSUME OnlyLosses, ~broken', Recovers
    PROVE  OnlyLosses'
<1>1. /\ at = "running" /\ samplerError /\ at' = "recovering"
      /\ UNCHANGED <<numSample, samplerError, sampleState, due, place>>
      /\ resets' = <<"last">> /\ state' = 0 /\ stale' \in {BeforeZ(stale), stale}
  BY DEF Recovers, reset
<1>2. sampleState \in {0, 3} /\ (sampleState = 0 => numSample = hole) /\ Positioned
  <2>1. ~Astray
    BY DEF Recovers
  <2>2. sampleState \in 0 .. 4 /\ sampleState # 2 /\ Positioned
    BY <1>1 DEF OnlyLosses
  <2>. QED
    BY <2>1, <2>2 DEF Astray
<1>3. stale' \in {Silence, Z}
  <2>1. Silence.c = "" /\ Z.c = "Z"
    BY DEF Silence, Z, Answer
  <2>2. stale \in {Silence, Z}
    BY DEF OnlyLosses
  <2>. QED
    BY <1>1, <2>1, <2>2 DEF BeforeZ
<1>4. CASE sampleState = 0
  <2>1. Follows(numSample) /\ (due => numSample < Holes)
    BY <1>1, <1>2, <1>4 DEF Positioned
  <2>2. Recovering'
    BY <1>1, <1>4, <2>1 DEF Recovering, Follows
  <2>. QED
    BY <1>1, <1>3, <1>4, <2>2 DEF OnlyLosses
<1>5. CASE sampleState = 3
  <2>1. due /\ RoomAt(place) /\ numSample = place
    BY <1>1, <1>2, <1>5 DEF Positioned
  <2>2. Recovering'
    BY <1>1, <1>5, <2>1 DEF Recovering, RoomAt
  <2>. QED
    BY <1>1, <1>3, <1>5, <2>2 DEF OnlyLosses
<1>. QED
  BY <1>2, <1>4, <1>5

(* The loops of a recovery: to the hole, then to the waste.                *)
LEMMA ResetLoopStep ==
    ASSUME OnlyLosses, ~broken', ResetLoop
    PROVE  OnlyLosses'
<1>1. at = "recovering" /\ Recovering /\ resets \in {<<"last">>, <<"rinse">>}
  BY DEF ResetLoop, OnlyLosses, Recovering
<1>2. PICK o \in Outcome :
         /\ Wears(o, Command(ResetMove))
         /\ \/ /\ Position(o, ResetMove)
               /\ resets' = IF samplerReady THEN Unwind(resets) ELSE resets
               /\ UNCHANGED taskVars
            \/ Resets(o, ResetMove, at)
  BY DEF ResetLoop
<1>3. o \in Mild /\ ~Misplaces(o)
  BY <1>2, MildOutcome
<1>4. ~GivesUp /\ (stale = Silence \/ o # "lost")
  BY <1>1, <1>3 DEF Misplaces, GivesUp
<1>5. stale \in {Silence, Z} /\ ~Refused(o)
  BY <1>3, NotRefused DEF OnlyLosses
<1>6. /\ Position(o, ResetMove)
      /\ resets' = IF state' = 0 THEN Unwind(resets) ELSE resets
      /\ UNCHANGED <<at, sampleState, due, place, numSample>>
  BY <1>2, <1>5 DEF Resets, samplerReady, ResetLoop, taskVars
<1>. DEFINE s == IF state = 0 THEN 1 ELSE state
            next == IF s = 1 THEN 2 ELSE 0
<1>7. /\ Executes(o, Command(ResetMove)) /\ cmdSuccess(o, s, next)
      /\ state \in {0, 1, 2}
  BY <1>1, <1>6 DEF Position, Recovering
<1>. HIDE DEF next
<1>8. /\ samplerError' = samplerError /\ stale' = Silence
      /\ state' = IF stale = Z \/ o = "answered" THEN next ELSE s
  BY <1>3, <1>4, <1>5, <1>7, Repeats
<1>9. s = (IF state = 2 THEN 2 ELSE 1) /\ next = (IF state = 2 THEN 0 ELSE 2)
  BY <1>7 DEF next
<1>. HIDE DEF s
<1>10. numSample \in Nat /\ samplerError
  BY <1>1 DEF Recovering, Follows, RoomAt
<1>11. state' \in {0, 1, 2} /\ (state' = 0 => state = 2)
  BY <1>8, <1>9
<1>12. /\ \/ sampleState = 0 /\ Follows(numSample) /\ (due => numSample < Holes)
          \/ sampleState = 3 /\ due /\ RoomAt(place) /\ numSample = place
       /\ \/ resets = <<"last">> /\ state # 2
          \/ hole = numSample /\ stale = Silence
  BY <1>1 DEF Recovering
<1>13. (Follows(numSample) => Follows(numSample)') /\ (RoomAt(place) => RoomAt(place)')
  BY <1>6 DEF Follows, RoomAt
<1>14. (\E i \in {"last", "rinse"} : resets = <<i>>) /\ <<"last">>[1] = "last"
       /\ <<"rinse">>[1] = "rinse" /\ Len(resets) = 1
  BY <1>1
<1>15. CASE resets = <<"last">> /\ state # 2
  <2>1. Executes(o, <<"G", numSample>>) /\ resets' = <<"last">> /\ state' # 0
    BY <1>6, <1>7, <1>11, <1>15 DEF Command, ResetMove, lastPosition
  <2>2. IF o = "lost" THEN hole' = hole ELSE hole' = numSample
    BY <1>3, <1>10, <2>1, Needle
  <2>3. state' = 2 => hole' = numSample
    <3>1. Silence # Z
      BY DEF Silence, Z, Answer
    <3>. QED
      BY <1>4, <1>8, <1>9, <1>15, <2>2, <3>1
  <2>4. Recovering'
    BY <1>6, <1>8, <1>10, <1>11, <1>12, <1>13, <2>1, <2>3 DEF Recovering
  <2>. QED
    BY <1>1, <1>6, <1>8, <1>10, <1>12, <2>4 DEF OnlyLosses
<1>16. CASE ~(resets = <<"last">> /\ state # 2)
  <2>1. hole = numSample
    BY <1>12, <1>16
  <2>2. hole' = hole
    <3>1. CASE state = 2
      BY <1>3, <1>7, <3>1, Needle DEF Command
    <3>2. CASE state # 2
      <4>1. resets # <<"last">>
        BY <1>16, <3>2
      <4>2. resets = <<"rinse">>
        BY <1>1, <4>1
      <4>3. Executes(o, <<"GSp", 0>>)
        BY <1>7, <3>2, <4>2 DEF Command, ResetMove, rinsePosition
      <4>. QED
        BY <1>3, <4>3, Needle
    <3>. QED
      BY <3>1, <3>2
  <2>3. Unwind(<<"last">>) = <<"rinse">> /\ Unwind(<<"rinse">>) = <<>>
    BY UnwindOne
  <2>4. resets' \in {<<"last">>, <<"rinse">>, <<>>} /\ (resets' = <<>> => state' = 0)
    BY <1>1, <1>6, <2>3
  <2>5. Recovering'
    BY <1>6, <1>8, <1>10, <1>11, <1>12, <1>13, <2>1, <2>2, <2>4 DEF Recovering
  <2>. QED
    BY <1>1, <1>6, <1>8, <1>10, <1>12, <2>5 DEF OnlyLosses
<1>. QED
  BY <1>15, <1>16

(* It is over, and the sample goes on from the step that was interrupted.  *)
LEMMA ResetReturnsStep ==
    ASSUME OnlyLosses, ~broken', ResetReturns
    PROVE  OnlyLosses'
<1>1. /\ at = "recovering" /\ Recovering /\ resets = <<>>
      /\ at' = "running" /\ samplerError' = FALSE
      /\ UNCHANGED <<sampleState, due, place, state, resets, numSample, hole, over, stale>>
  BY DEF ResetReturns, OnlyLosses, classVars, deviceVars, lineVars
<1>2. /\ state = 0 /\ hole = numSample /\ stale = Silence
      /\ \/ sampleState = 0 /\ Follows(hole) /\ (due => hole < Holes)
         \/ sampleState = 3 /\ due /\ RoomAt(place) /\ hole = place
  BY <1>1 DEF Recovering, Follows
<1>3. Positioned'
  BY <1>1, <1>2 DEF Positioned, Follows, RoomAt
<1>. QED
  BY <1>1, <1>2, <1>3 DEF OnlyLosses

(* Once the promise is void it stays so, and only a dose moves place.      *)
LEMMA PlaceOfDose ==
    ASSUME [SamplerNext]_samplerVars
    PROVE  /\ broken => broken'
           /\ broken \in BOOLEAN => broken' \in BOOLEAN
           /\ StartsDose \/ place' = place
<1>1. CASE StartsSampling \/ StartsDose \/ EndsDose \/ ResetReturns \/ Stops
  <2>1. broken' = broken
    BY <1>1 DEF StartsSampling, StartsDose, EndsDose, ResetReturns, Stops, lineVars
  <2>2. StartsDose \/ place' = place
    BY <1>1 DEF StartsSampling, EndsDose, ResetReturns, Stops, StepDone
  <2>. QED
    BY <2>1, <2>2
<1>2. CASE Recovers
  BY <1>2 DEF Recovers
<1>3. CASE Aborts
  BY <1>3 DEF Aborts
<1>4. CASE AsksNumber \/ SendsNumber \/ Finishes
  BY <1>4 DEF AsksNumber, SendsNumber, Finishes, askNumSample, Wears, taskVars
<1>5. ASSUME NEW n, NEW move, Moves(n, move)
      PROVE  /\ broken => broken'
             /\ broken \in BOOLEAN => broken' \in BOOLEAN
             /\ place' = place
  BY <1>5 DEF Moves, Wears, StepDone, Resets, taskVars
<1>6. CASE ToLastPosition \/ ToNextPosition \/ ToRinsePosition
  BY <1>5, <1>6 DEF ToLastPosition, ToNextPosition, ToRinsePosition
<1>7. CASE ResetLoop
  BY <1>7 DEF ResetLoop, Wears, Resets, taskVars
<1>8. CASE Heals
  BY <1>8 DEF Heals, taskVars
<1>9. CASE UNCHANGED samplerVars
  BY <1>9 DEF samplerVars, lineVars, taskVars
<1>. QED
  BY <1>1, <1>2, <1>3, <1>4, <1>6, <1>7, <1>8, <1>9 DEF SamplerNext

(* Every step keeps the invariant.                                         *)
LEMMA SamplerInvStep == SamplerInv /\ [SamplerNext]_samplerVars => SamplerInv'
<1>1. SUFFICES ASSUME SamplerInv, [SamplerNext]_samplerVars, ~broken'
               PROVE  OnlyLosses'
  BY PlaceOfDose DEF SamplerInv
<1>2. OnlyLosses
  BY <1>1, PlaceOfDose DEF SamplerInv
<1>3. CASE UNCHANGED samplerVars
  <2>1. Positioned => Positioned'
    BY <1>3 DEF samplerVars, Positioned, Follows, RoomAt, classVars, deviceVars, taskVars
  <2>2. Recovering => Recovering'
    BY <1>3 DEF samplerVars, Recovering, Follows, RoomAt, classVars, deviceVars, lineVars, taskVars
  <2>. QED
    BY <1>2, <1>3, <2>1, <2>2 DEF samplerVars, OnlyLosses, classVars, lineVars, taskVars
<1>. QED
  BY <1>1, <1>2, <1>3, ToLastStep, ToNextStep, ToRinseStep, DoseStep, AskedStep, EndsStep,
     RecoversStep, ResetLoopStep, ResetReturnsStep
  DEF SamplerNext

(* A step in which water neither begins nor ceases to flow.                *)
LEMMA StaysDry ==
    ASSUME OnlyLosses, ~broken', SamplerNext, ~StartsDose, ~EndsDose
    PROVE  (at = "running" /\ sampleState = 2)' <=> (at = "running" /\ sampleState = 2)
<1>1. ASSUME NEW n \in {0, 3, 4}, NEW move, Moves(n, move)
      PROVE  sampleState # 2 /\ sampleState' # 2
  BY <1>1, CommandStep DEF StepDone, taskVars
<1>2. CASE ToLastPosition \/ ToNextPosition \/ ToRinsePosition
  BY <1>1, <1>2 DEF ToLastPosition, ToNextPosition, ToRinsePosition
<1>3. CASE AsksNumber \/ SendsNumber \/ Finishes
  BY <1>3 DEF AsksNumber, SendsNumber, Finishes, askNumSample, taskVars, OnlyLosses
<1>4. CASE StartsSampling
  BY <1>4 DEF StartsSampling
<1>5. CASE Stops \/ Aborts
  <2>1. at = "running" /\ at' = "stopped" /\ (due => sampleState # 2) /\ Positioned
    BY <1>5 DEF Stops, Aborts, OnlyLosses
  <2>. QED
    BY <2>1 DEF Positioned
<1>6. CASE Heals
  BY <1>6 DEF Heals, taskVars
<1>7. CASE Recovers
  BY <1>7 DEF Recovers, OnlyLosses
<1>8. CASE ResetLoop \/ ResetReturns
  <2>1. at = "recovering" /\ sampleState # 2 /\ sampleState' = sampleState
    BY <1>8 DEF ResetLoop, ResetReturns, OnlyLosses, Recovering, Resets, taskVars
  <2>. QED
    BY <2>1
<1>. QED
  BY <1>2, <1>3, <1>4, <1>5, <1>6, <1>7, <1>8 DEF SamplerNext

(* While the promise is not void the samples go to consecutive holes:      *)
(* repeated commands, lost answers, numbers asked in vain, stops before    *)
(* the dose and recoveries that find their hole are steps of SampleSeries  *)
(* or leave it where it was (SampleControl.cpp:50-148, sampling.h:213-247).*)
THEOREM SamplesInSeries == SamplerSpec => ImplementsSeries
<1>. DEFINE dosing == at = "running" /\ sampleState = 2 /\ ~broken
<1>1. ASSUME SamplerInv, [SamplerNext]_samplerVars
      PROVE  [Series!Next]_<<dosing, place, broken>>
  <2>1. CASE broken'
    <3>1. ~broken => place' = place
      BY <1>1, <2>1, PlaceOfDose DEF StartsDose, lineVars
    <3>. QED
      BY <2>1, <3>1 DEF Series!Next, Series!Void
  <2>2. CASE ~broken' /\ StartsDose
    <3>1. OnlyLosses /\ ~broken
      BY <1>1, <2>2, PlaceOfDose DEF SamplerInv
    <3>2. place' = hole /\ Follows(hole)
      BY <2>2, <3>1, DoseStep
    <3>3. place' \in IF place = -1 THEN Nat ELSE {place + 1}
      BY <3>2 DEF Follows
    <3>4. ~dosing /\ dosing' /\ broken' = broken
      BY <2>2, <3>1 DEF StartsDose, lineVars
    <3>. QED
      BY <3>3, <3>4 DEF Series!Next, Series!Dose
  <2>3. CASE ~broken' /\ EndsDose
    <3>1. ~broken
      BY <1>1, <2>3, PlaceOfDose
    <3>2. dosing /\ ~dosing' /\ UNCHANGED <<place, broken>>
      BY <2>3, <3>1 DEF EndsDose, lineVars
    <3>. QED
      BY <3>2 DEF Series!Next, Series!EndDose
  <2>4. CASE ~broken' /\ ~StartsDose /\ ~EndsDose
    <3>1. OnlyLosses /\ ~broken /\ place' = place
      BY <1>1, <2>4, PlaceOfDose DEF SamplerInv
    <3>2. (at = "running" /\ sampleState = 2)' <=> (at = "running" /\ sampleState = 2)
      BY <1>1, <2>4, <3>1, StaysDry DEF samplerVars, taskVars
    <3>3. dosing' = dosing
      BY <2>4, <3>1, <3>2
    <3>4. broken' = broken
      BY <1>1, <2>4, <3>1, PlaceOfDose DEF SamplerInv
    <3>. QED
      BY <3>1, <3>3, <3>4
  <2>. QED
    BY <2>1, <2>2, <2>3, <2>4
<1>2. SamplerSpec => []SamplerInv
  BY SamplerInitInv, SamplerInvStep, PTL DEF SamplerSpec
<1>. QED
  BY <1>1, <1>2, SamplerInitInv, PTL DEF SamplerSpec, ImplementsSeries, Series!Spec

=============================================================================

----------------------------- MODULE TimeProofs -----------------------------
(***************************************************************************)
(* Proofs about Time: what time_get returns is what the clock showed, what *)
(* time_set stores is what it was given, and few loads are enough, for     *)
(* every instant at which the kernel may find the clock, every setting,    *)
(* and every interleaving of the chip's stores with the register accesses. *)
(* And about Sleep: an ordinary call of time_sleep lasts as long as asked. *)
(***************************************************************************)
EXTENDS Time, Sleep, SequenceTheorems, TLAPS

Field == 1 .. 7

(* The values a register may hold after n updates: each adds at most one   *)
(* to the century, which no setting makes more than 99.                    *)
Value(k, n) == IF k \in {1, 2} THEN 0 .. 59 ELSE IF k = 3 THEN 0 .. 23
            ELSE IF k = 4 THEN 1 .. 31 ELSE IF k = 5 THEN 1 .. 12
            ELSE IF k = 6 THEN 0 .. 99 ELSE 0 .. 99 + n
Coded(k, b) == \E v \in Value(k, ticks) : b = ToByte(mode, v)

Getting == pc \in {"wait", "read", "century", "compare", "convert"}
Setting == pc \in {"write", "wcentury"}
Updating == get_update_in_progress_flag

(* What the registers and the stores to come hold.                         *)
ChipInv ==
  /\ mode \in Modes /\ mode.h24 /\ ticks \in 0 .. MaxTicks
  /\ reg \in [Field -> Byte] /\ \A k \in Field : Coded(k, reg[k])
  /\ DOMAIN upd \subseteq Field /\ \A k \in DOMAIN upd : Coded(k, upd[k])
  /\ Updating => ticks > 0

(* What the variables of the code hold. *)
CodeInv ==
  /\ pc \in {"idle"} \cup {"wait", "read", "century", "compare", "convert"}
              \cup {"write", "wcentury"}
  /\ ints = (pc \notin {"read", "write"}) /\ i \in 1 .. 6 /\ (pc \notin {"read", "write"} => i = 1)
  /\ buf \in [1 .. 6 -> Byte] /\ century \in Byte
  /\ tm \in [1 .. 6 -> -128 .. 255] /\ \A k \in 1 .. 5 : tm[k] \in Byte
  /\ last = << >> \/ last \in [Field -> Byte]
  /\ loads \in 0 .. LoadCap /\ ticks0 \in 0 .. ticks
  /\ Updating => ticks0 <= ticks
  /\ Getting => setting = << >> /\ ticks0 <= Finished
  /\ Setting => setting \in Instant /\ ticks0 <= Finished /\ loads = 0 /\ result = << >>
  /\ pc \in {"century", "compare"} => tm = [buf EXCEPT ![6] = SignExtend(@)]
  /\ pc \in {"compare"} => last # << >>

-----------------------------------------------------------------------------
(* time_set.  What it writes are the registers of its argument.            *)
StoreInv ==
  /\ Setting => century = RegistersOf(mode, setting)[7]
  /\ pc = "write" => \A k \in 1 .. 6 : buf[k] = RegistersOf(mode, setting)[k]
  /\ setting # << >> /\ ticks = ticks0 =>
       /\ setting \in Instant /\ ~Updating
       /\ pc = "write" => \A k \in 1 .. i - 1 : reg[k] = RegistersOf(mode, setting)[k]
       /\ pc = "wcentury" => \A k \in 1 .. 6 : reg[k] = RegistersOf(mode, setting)[k]
       /\ pc = "idle" => \A k \in Field : reg[k] = RegistersOf(mode, setting)[k]

-----------------------------------------------------------------------------
(* time_get.                                                               *)

(* The load in progress, or just made, and how much of it has been read.   *)
Load(k) == IF k = 7 THEN century ELSE buf[k]
Loaded == IF pc = "read" THEN i - 1 ELSE IF pc = "century" THEN 6 ELSE 7
Loading == pc \in {"read", "century", "compare"}
Second == last # << >>

(* From the first load on an update in progress was begun by the chip from *)
(* the registers as they are, or has stored its seconds: then they are 0,  *)
(* since only a carry needs another store.                                 *)
Seconds == FromByte(mode, reg[1])
UpdateInv ==
  Loading \/ (pc = "wait" /\ Second) =>
    \/ ~Updating
    \/ 1 \in DOMAIN upd /\ upd = UpdateOf(reg)
    \/ 1 \notin DOMAIN upd /\ Seconds = 0

(* b was the byte of the seconds n stores of the seconds ago.              *)
Moved == IF 1 \in DOMAIN upd THEN ticks - 1 ELSE ticks
Ago(b, n) == b = ToByte(mode, (Seconds - n) % 60)

(* If the seconds have not moved since they were loaded then they are 0,   *)
(* or all that was loaded still is what the registers hold.                *)
Fresh(v, m) == \E n \in 0 .. Moved : Ago(v[1], n) /\
                 (n = 0 => Seconds = 0 \/ \A k \in 1 .. m : v[k] = reg[k])

(* Nothing but the seconds has changed since the registers were r, with    *)
(* its seconds 0, and the next minute is too far away.                     *)
Steady(r) == /\ \A k \in 2 .. 7 : reg[k] = r[k]
             /\ Seconds <= Moved /\ DOMAIN upd \subseteq {1}

(* Where the second load has the seconds of the first, there is a moment   *)
(* at which the registers were what either of them says.                   *)
Agrees(r) == \/ \A k \in Field : last[k] = r[k]
             \/ Steady(r) /\ \A k \in 1 .. Loaded : Load(k) = r[k]

(* Every register file that was whole during the call is in shown.         *)
ShownInv ==
  /\ Getting /\ ~Updating => reg \in shown
  /\ \A r \in shown : r[3] \in 0 .. 127

LoadFile == [k \in Field |-> Load(k)]
FreshInv ==
  /\ Loading /\ Loaded > 0 => Fresh(LoadFile, Loaded)
  /\ (pc = "wait" \/ Loading) /\ Second => Fresh(last, 7)

(* Between the wait of the second load and its first access, the seconds   *)
(* that have not moved are those of a register file that was whole.        *)
Whole(n) == /\ Ago(last[1], n)
            /\ n = 0 => /\ reg \in shown /\ (~Updating \/ 1 \in DOMAIN upd)
                        /\ Seconds = 0 \/ \A k \in Field : last[k] = reg[k]
WholeInv == pc = "read" /\ i = 1 /\ Second => \E n \in 0 .. Moved : Whole(n)

AgreeInv == Loading /\ Loaded > 0 /\ Second /\ buf[1] = last[1] => \E r \in shown : Agrees(r)

DoneInv ==
  /\ pc = "convert" => \E r \in shown : (\A k \in 1 .. 6 : tm[k] = r[k]) /\ century = r[7]
  /\ pc = "idle" /\ result # << >> /\ setting = << >> =>
       \E r \in shown : result = InstantOf(mode, r)

ReadInv == ShownInv /\ FreshInv /\ WholeInv /\ AgreeInv /\ DoneInv

-----------------------------------------------------------------------------
(* How many loads.                                                         *)

Readable(b) == \E v \in 0 .. 99 : b = ToByte(mode, v)
                 /\ (mode.binary \/ v + MaxTicks - ticks < 80)
YearInv ==
  /\ mode.binary \/ \A t \in SetTimes : (t[6] % 100) + MaxTicks < 80
  /\ Readable(reg[6]) /\ (6 \in DOMAIN upd => Readable(upd[6]))
  /\ pc = "write" => Readable(buf[6])
  /\ buf[6] < 128

(* An update that begins in a load spoils the comparisons of this load     *)
(* with the one before and with the one after.                             *)
Updates == ticks - ticks0
Clean(v, m) == ~Updating /\ \A k \in 1 .. m : v[k] = reg[k]
CountInv ==
  /\ pc = "wait" /\ ~Second => loads = 0
  /\ pc = "wait" /\ Second =>
       loads <= 2 * Updates \/ (Clean(last, 7) /\ loads <= 1 + 2 * Updates)
  /\ Loading =>
       \/ loads <= 2 * Updates
       \/ /\ Clean(LoadFile, Loaded)
          /\ \/ loads <= 1 + 2 * Updates
             \/ Second /\ Clean(last, 7) /\ loads <= 2 + 2 * Updates
  /\ pc = "convert" => loads <= 2 + 2 * Updates

IInv == ChipInv /\ CodeInv /\ StoreInv /\ UpdateInv /\ ReadInv
LInv == YearInv /\ CountInv

-----------------------------------------------------------------------------
(* Bytes and calendar.                                                     *)

(* A number below 160 fits a byte, and is read as it was written.          *)
LEMMA ByteLemma ==
  ASSUME NEW m \in Modes, NEW v \in 0 .. 159
  PROVE  ToByte(m, v) \in 0 .. 255 /\ FromByte(m, ToByte(m, v)) = v
<1>1. CASE m.binary
  BY <1>1 DEF ToByte, FromByte
<1>2. CASE ~m.binary
  <2>1. ToByte(m, v) = (v \div 10) * 16 + (v % 10)
    BY <1>2 DEF ToByte
  <2>2. PICK a \in 0 .. 15, b \in 0 .. 9 : v = 10 * a + b /\ v \div 10 = a /\ v % 10 = b
    OBVIOUS
  <2>3. (16 * a + b) \div 16 = a /\ (16 * a + b) % 16 = b
    OBVIOUS
  <2>4. FromByte(m, 16 * a + b) = 10 * a + b
    BY <1>2, <2>3 DEF FromByte
  <2> QED
    BY <2>1, <2>2, <2>4
<1> QED
  BY <1>1, <1>2

(* The byte of a year that can be read is a positive char.                 *)
LEMMA ReadableLemma ==
  ASSUME NEW m \in Modes, NEW v \in 0 .. 99, m.binary \/ v < 80
  PROVE  ToByte(m, v) < 128
<1>1. CASE m.binary
  BY <1>1 DEF ToByte
<1>2. CASE ~m.binary
  BY <1>2 DEF ToByte
<1> QED
  BY <1>1, <1>2

(* The hours are a positive char too. *)
LEMMA HourLemma ==
  ASSUME NEW m \in Modes, NEW v \in 0 .. 23
  PROVE  ToByte(m, v) \in 0 .. 127
<1>1. CASE m.binary
  BY <1>1 DEF ToByte
<1>2. CASE ~m.binary
  BY <1>2 DEF ToByte
<1> QED
  BY <1>1, <1>2

(* What the registers show, and the registers of an instant, by field.     *)
LEMMA InstantLemma ==
  ASSUME NEW m \in Modes, m.h24, NEW r
  PROVE  InstantOf(m, r) = <<FromByte(m, r[1]), FromByte(m, r[2]), FromByte(m, r[3]),
                             FromByte(m, r[4]), FromByte(m, r[5]),
                             FromByte(m, r[6]) + 100 * FromByte(m, r[7])>>
<1>1. HourOfByte(m, r[3]) = FromByte(m, r[3])
  BY DEF HourOfByte
<1> QED
  BY <1>1 DEF InstantOf, CENTURY

LEMMA RegistersLemma ==
  ASSUME NEW m \in Modes, m.h24, NEW t
  PROVE  RegistersOf(m, t) = <<ToByte(m, t[1]), ToByte(m, t[2]), ToByte(m, t[3]),
                               ToByte(m, t[4]), ToByte(m, t[5]), ToByte(m, t[6] % 100),
                               ToByte(m, t[6] \div 100)>>
<1>1. HourByte(m, t[3]) = ToByte(m, t[3])
  BY DEF HourByte
<1> QED
  BY <1>1 DEF RegistersOf

(* The next second: every field in its range, and the seconds alone when   *)
(* they do not wrap.                                                       *)
Followed(v1, v2, v3, v4, v5, y) ==
  \E w1 \in 0 .. 59, w2 \in 0 .. 59, w3 \in 0 .. 23, w4 \in 1 .. 31, w5 \in 1 .. 12,
     z \in {y, y + 1} :
    /\ NextSecond(<<v1, v2, v3, v4, v5, y>>) = <<w1, w2, w3, w4, w5, z>>
    /\ w1 = (v1 + 1) % 60 /\ w1 # v1
    /\ v1 # 59 => w2 = v2 /\ w3 = v3 /\ w4 = v4 /\ w5 = v5 /\ z = y
LEMMA SecondLemma ==
  ASSUME NEW v1 \in 0 .. 59, NEW v2 \in 0 .. 59, NEW v3 \in 0 .. 23, NEW v4 \in 1 .. 31,
         NEW v5 \in 1 .. 12, NEW y \in Nat
  PROVE  Followed(v1, v2, v3, v4, v5, y)
<1> DEFINE t == <<v1, v2, v3, v4, v5, y>>
           days == DaysInMonth(v5, y)
           sec == v1 >= 59
           mi == sec /\ v2 >= 59
           h == mi /\ v3 >= 23
           d == h /\ v4 >= days
           mo == d /\ v5 >= 12
           w1 == IF sec THEN 0 ELSE v1 + 1
           w2 == IF mi THEN 0 ELSE IF sec THEN v2 + 1 ELSE v2
           w3 == IF h THEN 0 ELSE IF mi THEN v3 + 1 ELSE v3
           w4 == IF d THEN 1 ELSE IF h THEN v4 + 1 ELSE v4
           w5 == IF mo THEN 1 ELSE IF d THEN v5 + 1 ELSE v5
           z == IF mo THEN y + 1 ELSE y
<1>1. days \in 28 .. 31
  BY DEF DaysInMonth
<1>2. NextSecond(t) = <<w1, w2, w3, w4, w5, z>>
  BY DEF NextSecond
<1> HIDE DEF days
<1>3. w1 \in 0 .. 59 /\ w1 = (v1 + 1) % 60 /\ w1 # v1
  OBVIOUS
<1>4. w2 \in 0 .. 59 /\ w3 \in 0 .. 23 /\ w4 \in 1 .. 31 /\ w5 \in 1 .. 12 /\ z \in {y, y + 1}
  BY <1>1
<1>5. v1 # 59 => w2 = v2 /\ w3 = v3 /\ w4 = v4 /\ w5 = v5 /\ z = y
  OBVIOUS
<1> HIDE DEF w1, w2, w3, w4, w5, z
<1> QED
  BY ZenonT(40), <1>2, <1>3, <1>4, <1>5 DEF Followed

(* What the registers hold, by name.                                       *)
LEMMA FieldsLemma ==
  ASSUME ChipInv
  PROVE  \E v1 \in 0 .. 59, v2 \in 0 .. 59, v3 \in 0 .. 23, v4 \in 1 .. 31, v5 \in 1 .. 12,
            v6 \in 0 .. 99, v7 \in 0 .. 99 + ticks :
           /\ reg[1] = ToByte(mode, v1) /\ reg[2] = ToByte(mode, v2)
           /\ reg[3] = ToByte(mode, v3) /\ reg[4] = ToByte(mode, v4)
           /\ reg[5] = ToByte(mode, v5) /\ reg[6] = ToByte(mode, v6)
           /\ reg[7] = ToByte(mode, v7)
<1>1. \A k \in Field : \E v \in Value(k, ticks) : reg[k] = ToByte(mode, v)
  BY DEF ChipInv, Coded
<1>2. \E v \in 0 .. 59 : reg[1] = ToByte(mode, v)
  BY <1>1 DEF Value, Field
<1>3. \E v \in 0 .. 59 : reg[2] = ToByte(mode, v)
  BY <1>1 DEF Value, Field
<1>4. \E v \in 0 .. 23 : reg[3] = ToByte(mode, v)
  BY <1>1 DEF Value, Field
<1>5. \E v \in 1 .. 31 : reg[4] = ToByte(mode, v)
  BY <1>1 DEF Value, Field
<1>6. \E v \in 1 .. 12 : reg[5] = ToByte(mode, v)
  BY <1>1 DEF Value, Field
<1>7. \E v \in 0 .. 99 : reg[6] = ToByte(mode, v)
  BY <1>1 DEF Value, Field
<1>8. \E v \in 0 .. 99 + ticks : reg[7] = ToByte(mode, v)
  BY <1>1 DEF Value, Field
<1> PICK v1 \in 0 .. 59 : reg[1] = ToByte(mode, v1)
  BY <1>2
<1> PICK v2 \in 0 .. 59 : reg[2] = ToByte(mode, v2)
  BY <1>3
<1> PICK v3 \in 0 .. 23 : reg[3] = ToByte(mode, v3)
  BY <1>4
<1> PICK v4 \in 1 .. 31 : reg[4] = ToByte(mode, v4)
  BY <1>5
<1> PICK v5 \in 1 .. 12 : reg[5] = ToByte(mode, v5)
  BY <1>6
<1> PICK v6 \in 0 .. 99 : reg[6] = ToByte(mode, v6)
  BY <1>7
<1> PICK v7 \in 0 .. 99 + ticks : reg[7] = ToByte(mode, v7)
  BY <1>8
<1> QED
  BY ZenonT(40)

(* An update of the registers stores new seconds, and nothing else unless  *)
(* the minute is over; what it stores is in range, one century more at     *)
(* most; and it brings the end of readable years a year nearer at most.    *)
LEMMA UpdateLemma ==
  ASSUME ChipInv
  PROVE  /\ DOMAIN UpdateOf(reg) \subseteq Field
         /\ 1 \in DOMAIN UpdateOf(reg) /\ Seconds \in 0 .. 59
         /\ UpdateOf(reg)[1] = ToByte(mode, (Seconds + 1) % 60)
         /\ Seconds # 59 => DOMAIN UpdateOf(reg) \subseteq {1}
         /\ \A k \in DOMAIN UpdateOf(reg) : \E v \in Value(k, ticks + 1) :
              UpdateOf(reg)[k] = ToByte(mode, v)
         /\ 6 \in DOMAIN UpdateOf(reg) => \E v \in 0 .. 99 :
              UpdateOf(reg)[6] = ToByte(mode, v) /\ v <= FromByte(mode, reg[6]) + 1
<1>0. mode \in Modes /\ mode.h24 /\ ticks \in Nat /\ ticks < 60
  BY RtcAssumption, TimeAssumption DEF ChipInv
<1>1. PICK v1 \in 0 .. 59, v2 \in 0 .. 59, v3 \in 0 .. 23, v4 \in 1 .. 31, v5 \in 1 .. 12,
           v6 \in 0 .. 99, v7 \in 0 .. 99 + ticks :
        /\ reg[1] = ToByte(mode, v1) /\ reg[2] = ToByte(mode, v2)
        /\ reg[3] = ToByte(mode, v3) /\ reg[4] = ToByte(mode, v4)
        /\ reg[5] = ToByte(mode, v5) /\ reg[6] = ToByte(mode, v6)
        /\ reg[7] = ToByte(mode, v7)
  BY ZenonT(40), FieldsLemma
<1>2. v7 \in 0 .. 159
  BY <1>0
<1>4. /\ FromByte(mode, reg[1]) = v1 /\ FromByte(mode, reg[2]) = v2 /\ FromByte(mode, reg[3]) = v3
      /\ FromByte(mode, reg[4]) = v4 /\ FromByte(mode, reg[5]) = v5 /\ FromByte(mode, reg[6]) = v6
      /\ FromByte(mode, reg[7]) = v7 /\ Seconds = v1
  BY <1>0, <1>1, <1>2, ByteLemma DEF Seconds
<1> DEFINE y == v6 + 100 * v7
<1>3. InstantOf(mode, reg) = <<v1, v2, v3, v4, v5, y>>
  BY <1>0, <1>4, InstantLemma
<1>13. y = v6 + 100 * v7 /\ y \in Nat
  BY <1>2
<1> HIDE DEF y
<1>5. PICK w1 \in 0 .. 59, w2 \in 0 .. 59, w3 \in 0 .. 23, w4 \in 1 .. 31, w5 \in 1 .. 12,
           z \in {y, y + 1} :
        /\ NextSecond(<<v1, v2, v3, v4, v5, y>>) = <<w1, w2, w3, w4, w5, z>>
        /\ w1 = (v1 + 1) % 60 /\ w1 # v1
        /\ v1 # 59 => w2 = v2 /\ w3 = v3 /\ w4 = v4 /\ w5 = v5 /\ z = y
  <2>1. Followed(v1, v2, v3, v4, v5, y)
    BY ZenonT(40), <1>13, SecondLemma
  <2> QED
    BY ZenonT(40), <2>1 DEF Followed
<1>6. /\ z \in Nat /\ z % 100 \in 0 .. 99 /\ z \div 100 \in 0 .. 99 + ticks + 1
      /\ z % 100 <= v6 + 1 /\ (z = y => z % 100 = v6 /\ z \div 100 = v7)
  BY <1>0, <1>13
<1> DEFINE t == <<w1, w2, w3, w4, w5, z>>
           next == RegistersOf(mode, t)
<1>7. /\ next[1] = ToByte(mode, w1) /\ next[2] = ToByte(mode, w2)
      /\ next[3] = ToByte(mode, w3) /\ next[4] = ToByte(mode, w4)
      /\ next[5] = ToByte(mode, w5) /\ next[6] = ToByte(mode, z % 100)
      /\ next[7] = ToByte(mode, z \div 100)
  <2>1. RegistersOf(mode, t) =
          <<ToByte(mode, t[1]), ToByte(mode, t[2]), ToByte(mode, t[3]), ToByte(mode, t[4]),
            ToByte(mode, t[5]), ToByte(mode, t[6] % 100), ToByte(mode, t[6] \div 100)>>
    BY <1>0, RegistersLemma
  <2> QED
    BY <2>1
<1>8. UpdateOf(reg) = [k \in {j \in Field : reg[j] # next[j]} |-> next[k]]
  BY <1>3, <1>5 DEF UpdateOf, Field
<1> HIDE DEF next
<1>9. reg[1] # next[1]
  <2>1. reg[1] = ToByte(mode, v1) /\ next[1] = ToByte(mode, w1) /\ w1 # v1
    BY <1>1, <1>5, <1>7
  <2>2. v1 \in 0 .. 159 /\ w1 \in 0 .. 159 /\ mode \in Modes
    BY <1>0
  <2>3. FromByte(mode, ToByte(mode, v1)) = v1 /\ FromByte(mode, ToByte(mode, w1)) = w1
    BY <2>2, ByteLemma
  <2> QED
    BY <2>1, <2>3
<1>10. v1 # 59 => \A k \in Field : k # 1 => reg[k] = next[k]
  BY <1>1, <1>5, <1>6, <1>7 DEF Field
<1>11. \A k \in Field : \E v \in Value(k, ticks + 1) : next[k] = ToByte(mode, v)
  <2>1. \A k \in Field : k = 1 \/ k = 2 \/ k = 3 \/ k = 4 \/ k = 5 \/ k = 6 \/ k = 7
    BY DEF Field
  <2>2. /\ w1 \in Value(1, ticks + 1) /\ w2 \in Value(2, ticks + 1)
        /\ w3 \in Value(3, ticks + 1) /\ w4 \in Value(4, ticks + 1)
        /\ w5 \in Value(5, ticks + 1) /\ z % 100 \in Value(6, ticks + 1)
    BY <1>6 DEF Value
  <2>4. z \div 100 \in Value(7, ticks + 1)
    BY <1>0, <1>6 DEF Value
  <2>3. /\ \E v \in Value(1, ticks + 1) : next[1] = ToByte(mode, v)
        /\ \E v \in Value(2, ticks + 1) : next[2] = ToByte(mode, v)
        /\ \E v \in Value(3, ticks + 1) : next[3] = ToByte(mode, v)
        /\ \E v \in Value(4, ticks + 1) : next[4] = ToByte(mode, v)
        /\ \E v \in Value(5, ticks + 1) : next[5] = ToByte(mode, v)
        /\ \E v \in Value(6, ticks + 1) : next[6] = ToByte(mode, v)
        /\ \E v \in Value(7, ticks + 1) : next[7] = ToByte(mode, v)
    BY <1>7, <2>2, <2>4
  <2> QED
    BY <2>1, <2>3
<1>12. 1 \in Field
  BY DEF Field
<1> QED
  BY <1>4, <1>5, <1>6, <1>7, <1>8, <1>9, <1>10, <1>11, <1>12

(* The registers of an instant are in range, and show that instant.        *)
LEMMA SettingLemma ==
  ASSUME NEW m \in Modes, m.h24, NEW t \in Instant
  PROVE  /\ \A k \in Field : \E v \in Value(k, 0) : RegistersOf(m, t)[k] = ToByte(m, v)
         /\ InstantOf(m, RegistersOf(m, t)) = t
         /\ RegistersOf(m, t)[6] = ToByte(m, t[6] % 100) /\ t[6] \in 0 .. 9999
<1>1. /\ t[1] \in 0 .. 59 /\ t[2] \in 0 .. 59 /\ t[3] \in 0 .. 23 /\ t[4] \in 1 .. 31
      /\ t[5] \in 1 .. 12 /\ t[6] \in 0 .. 9999
      /\ t = <<t[1], t[2], t[3], t[4], t[5], t[6]>>
  BY DEF Instant
<1> DEFINE r == RegistersOf(m, t)
<1>2. /\ r[1] = ToByte(m, t[1]) /\ r[2] = ToByte(m, t[2]) /\ r[3] = ToByte(m, t[3])
      /\ r[4] = ToByte(m, t[4]) /\ r[5] = ToByte(m, t[5]) /\ r[6] = ToByte(m, t[6] % 100)
      /\ r[7] = ToByte(m, t[6] \div 100)
  <2>1. r = <<ToByte(m, t[1]), ToByte(m, t[2]), ToByte(m, t[3]), ToByte(m, t[4]),
              ToByte(m, t[5]), ToByte(m, t[6] % 100), ToByte(m, t[6] \div 100)>>
    BY RegistersLemma
  <2> QED
    BY <2>1
<1> HIDE DEF r
<1>3. /\ t[6] % 100 \in 0 .. 99 /\ t[6] \div 100 \in 0 .. 99
      /\ t[6] = (t[6] % 100) + 100 * (t[6] \div 100)
  <2>1. PICK y \in 0 .. 9999 : y = t[6]
    BY <1>1
  <2>2. y % 100 \in 0 .. 99
    OBVIOUS
  <2>3. y \div 100 \in 0 .. 99
    OBVIOUS
  <2>4. y = (y % 100) + 100 * (y \div 100)
    OBVIOUS
  <2> QED
    BY <2>1, <2>2, <2>3, <2>4
<1>4. /\ FromByte(m, r[1]) = t[1] /\ FromByte(m, r[2]) = t[2] /\ FromByte(m, r[3]) = t[3]
      /\ FromByte(m, r[4]) = t[4] /\ FromByte(m, r[5]) = t[5]
      /\ FromByte(m, r[6]) = t[6] % 100 /\ FromByte(m, r[7]) = t[6] \div 100
  <2>1. /\ t[1] \in 0 .. 159 /\ t[2] \in 0 .. 159 /\ t[3] \in 0 .. 159 /\ t[4] \in 0 .. 159
        /\ t[5] \in 0 .. 159 /\ t[6] % 100 \in 0 .. 159 /\ t[6] \div 100 \in 0 .. 159
    BY <1>1, <1>3
  <2> QED
    BY SMTT(30), <1>2, <2>1, ByteLemma
<1>5. InstantOf(m, r) = t
  <2>1. InstantOf(m, r) = <<FromByte(m, r[1]), FromByte(m, r[2]), FromByte(m, r[3]),
                            FromByte(m, r[4]), FromByte(m, r[5]),
                            FromByte(m, r[6]) + 100 * FromByte(m, r[7])>>
    BY InstantLemma
  <2> QED
    BY <1>1, <1>3, <1>4, <2>1
<1>6. ASSUME NEW k \in Field PROVE \E v \in Value(k, 0) : r[k] = ToByte(m, v)
  <2>1. k = 1 \/ k = 2 \/ k = 3 \/ k = 4 \/ k = 5 \/ k = 6 \/ k = 7
    BY DEF Field
  <2>2. /\ t[1] \in Value(1, 0) /\ t[2] \in Value(2, 0) /\ t[3] \in Value(3, 0)
        /\ t[4] \in Value(4, 0) /\ t[5] \in Value(5, 0)
    BY <1>1 DEF Value
  <2>3. t[6] % 100 \in Value(6, 0) /\ t[6] \div 100 \in Value(7, 0)
    BY <1>3 DEF Value
  <2>4. CASE k \in {1, 2, 3}
    BY <1>2, <2>2, <2>4
  <2>5. CASE k \in {4, 5}
    BY <1>2, <2>2, <2>5
  <2>6. CASE k \in {6, 7}
    BY <1>2, <2>3, <2>6
  <2> QED
    BY <2>1, <2>4, <2>5, <2>6
<1> QED
  BY <1>1, <1>2, <1>5, <1>6 DEF r

(* What is in range stays in range.                                        *)
LEMMA ValueLemma ==
  ASSUME NEW k \in Field, NEW n \in Nat, NEW n1 \in Nat, n <= n1
  PROVE  Value(k, n) \subseteq Value(k, n1)
BY DEF Value

(* A byte of a register is a byte. *)
LEMMA CodedLemma ==
  ASSUME ChipInv, NEW k \in Field, NEW b, Coded(k, b)
  PROVE  b \in Byte
<1>1. ticks \in 0 .. 59 /\ mode \in Modes
  BY RtcAssumption, TimeAssumption DEF ChipInv
<1>2. PICK v \in Value(k, ticks) : b = ToByte(mode, v)
  BY DEF Coded
<1>3. v \in 0 .. 159
  BY <1>1, <1>2 DEF Value
<1> QED
  BY <1>1, <1>2, <1>3, ByteLemma DEF Byte

-----------------------------------------------------------------------------
(* The chip.                                                               *)

(* The store of an update, taken apart.                                    *)
StoreOf(k) ==
  /\ k \in DOMAIN upd /\ \A j \in DOMAIN upd : k <= j
  /\ reg' = [reg EXCEPT ![k] = upd[k]] /\ upd' = [j \in DOMAIN upd \ {k} |-> upd[j]]
  /\ UNCHANGED <<mode, ticks>>

(* What the chip does to its registers keeps them in range. *)
LEMMA ChipBeginLemma ==
  ASSUME ChipInv, UpdateBegin
  PROVE  ChipInv' /\ Updating'
<1>1. /\ DOMAIN UpdateOf(reg) \subseteq Field /\ 1 \in DOMAIN UpdateOf(reg)
      /\ \A k \in DOMAIN UpdateOf(reg) : \E v \in Value(k, ticks + 1) :
           UpdateOf(reg)[k] = ToByte(mode, v)
  BY UpdateLemma
<1>2. PICK u : u = UpdateOf(reg)
  OBVIOUS
<1>3. ticks < MaxTicks /\ upd' = u /\ ticks' = ticks + 1 /\ reg' = reg /\ mode' = mode
  BY <1>2 DEF UpdateBegin
<1>4. ticks \in Nat /\ ticks' \in 1 .. MaxTicks
  BY <1>3, RtcAssumption DEF ChipInv
<1>5. \A k \in Field : Coded(k, reg[k])'
  <2> SUFFICES ASSUME NEW k \in Field PROVE Coded(k, reg[k])'
    OBVIOUS
  <2>1. PICK v \in Value(k, ticks) : reg[k] = ToByte(mode, v)
    BY DEF ChipInv, Coded
  <2>2. v \in Value(k, ticks')
    BY <1>3, <1>4, ValueLemma
  <2> QED
    BY <1>3, <2>1, <2>2 DEF Coded
<1>6. \A k \in DOMAIN upd' : Coded(k, upd[k])'
  BY <1>1, <1>2, <1>3 DEF Coded
<1> QED
  BY <1>1, <1>2, <1>3, <1>4, <1>5, <1>6 DEF ChipInv, Updating, get_update_in_progress_flag

LEMMA ChipStoreLemma ==
  ASSUME ChipInv, NEW k, StoreOf(k)
  PROVE  ChipInv'
<1>1. /\ k \in DOMAIN upd /\ reg' = [reg EXCEPT ![k] = upd[k]]
      /\ upd' = [j \in DOMAIN upd \ {k} |-> upd[j]] /\ mode' = mode /\ ticks' = ticks
  BY DEF StoreOf
<1>2. \A j, b : Coded(j, b)' = Coded(j, b)
  BY <1>1 DEF Coded
<1>3. \A j \in Field : Coded(j, reg'[j])
  BY <1>1 DEF ChipInv
<1>4. \A j \in DOMAIN upd' : j \in Field /\ Coded(j, upd'[j])
  BY <1>1 DEF ChipInv
<1>5. ticks > 0
  BY <1>1 DEF ChipInv, Updating, get_update_in_progress_flag
<1>6. \A j \in Field : Coded(j, reg[j])'
  BY <1>2, <1>3
<1>7. \A j \in DOMAIN upd' : Coded(j, upd[j])'
  BY <1>2, <1>4
<1>8. reg' \in [Field -> Byte]
  BY <1>1, CodedLemma DEF ChipInv
<1> QED
  BY <1>1, <1>4, <1>5, <1>6, <1>7, <1>8 DEF ChipInv

(* So does what time_set writes.                                           *)
LEMMA ChipWriteLemma ==
  ASSUME ChipInv, NEW t \in Instant, NEW k \in Field,
         set_RTC_register(k, RegistersOf(mode, t)[k]), UNCHANGED <<mode, upd, ticks>>
  PROVE  ChipInv'
<1>1. PICK b : b = RegistersOf(mode, t)[k]
  OBVIOUS
<1>2. reg' = [reg EXCEPT ![k] = b] /\ mode' = mode /\ upd' = upd /\ ticks' = ticks
  BY <1>1 DEF set_RTC_register
<1>3. Coded(k, b)
  <2>1. mode \in Modes /\ mode.h24 /\ ticks \in Nat
    BY DEF ChipInv
  <2>2. PICK v \in Value(k, 0) : b = ToByte(mode, v)
    BY <1>1, <2>1, SettingLemma
  <2>3. v \in Value(k, ticks)
    BY <2>1, <2>2, ValueLemma
  <2> QED
    BY <2>2, <2>3 DEF Coded
<1>4. \A j, c : Coded(j, c)' = Coded(j, c)
  BY <1>2 DEF Coded
<1>5. \A j \in Field : Coded(j, reg'[j])
  BY <1>2, <1>3 DEF ChipInv
<1>6. \A j \in Field : Coded(j, reg[j])'
  BY <1>4, <1>5
<1>7. \A j \in DOMAIN upd' : Coded(j, upd[j])'
  BY <1>2, <1>4 DEF ChipInv
<1>8. reg' \in [Field -> Byte]
  BY <1>2, <1>3, CodedLemma DEF ChipInv
<1> QED
  BY <1>2, <1>6, <1>7, <1>8 DEF ChipInv, Updating, get_update_in_progress_flag

-----------------------------------------------------------------------------
(* The code: what its variables hold.                                      *)

(* A century appended to six fields.                                      *)
LEMMA AppendLemma ==
  ASSUME NEW S, NEW b \in [1 .. 6 -> S], NEW c \in S
  PROVE  /\ Append(b, c) \in [Field -> S] /\ Append(b, c)[7] = c /\ Append(b, c) # << >>
         /\ \A k \in 1 .. 6 : Append(b, c)[k] = b[k]
<1>1. PICK sec : sec = b
  OBVIOUS
<1>2. sec \in Seq(S)
  BY <1>1, SeqDef
<1>3. Len(sec) = 6
  <2>1. Len(sec) \in Nat /\ DOMAIN sec = 1 .. Len(sec)
    BY <1>2, LenProperties
  <2> QED
    BY <1>1, <2>1
<1>4. PICK d : d = Append(sec, c)
  OBVIOUS
<1>5. /\ d \in Seq(S) /\ Len(d) = Len(sec) + 1 /\ d # << >>
      /\ \A k \in 1 .. Len(sec) : d[k] = sec[k]
      /\ d[Len(sec) + 1] = c
  BY <1>2, <1>4, AppendProperties
<1>6. d \in [1 .. Len(d) -> S]
  BY <1>5, LenProperties
<1> QED
  BY <1>1, <1>3, <1>4, <1>5, <1>6 DEF Field

(* The u8 copies of a load are the bytes that were read, although a char   *)
(* is signed.                                                              *)
LEMMA CopiesLemma ==
  ASSUME NEW b \in [1 .. 6 -> Byte], tm = [b EXCEPT ![6] = SignExtend(@)], NEW c \in Byte
  PROVE  /\ Copies(c) \in [Field -> Byte] /\ Copies(c)[7] = c /\ Copies(c) # << >>
         /\ \A k \in 1 .. 6 : Copies(c)[k] = b[k]
<1>1. b[6] \in 0 .. 255 /\ SignExtend(b[6]) \in -128 .. 127 /\ SignExtend(b[6]) % 256 = b[6]
  BY DEF SignExtend, Byte
<1>2. [tm EXCEPT ![6] = @ % 256] = b
  BY ZenonT(40), <1>1
<1>3. Copies(c) = Append(b, c)
  BY <1>2 DEF Copies
<1> QED
  BY SMTT(30), <1>3, AppendLemma

(* A byte out of BCD, and the sum for the century, stay a byte.            *)
LEMMA FromBCDLemma ==
  ASSUME NEW b \in Byte
  PROVE  FromBCD(b) \in Byte
BY DEF FromBCD, Byte

LEMMA FinishedLemma ==
  ASSUME ChipInv
  PROVE  /\ Finished \in 0 .. ticks /\ ticks \in Nat /\ Finished + 1 >= ticks
         /\ Updating => Finished = ticks - 1
         /\ ~Updating => Finished = ticks
BY RtcAssumption DEF ChipInv, Finished, Updating

(* An access of the code to its own variables leaves the chip alone.       *)
LEMMA KeepLemma ==
  ASSUME ChipInv, UNCHANGED rtcVars
  PROVE  /\ ChipInv' /\ Finished' = Finished /\ Updating' = Updating /\ Seconds' = Seconds
         /\ Moved' = Moved /\ UpdateOf(reg)' = UpdateOf(reg)
         /\ \A b, n : Ago(b, n)' = Ago(b, n)
         /\ \A r : Steady(r)' = Steady(r)
         /\ reg' = reg /\ mode' = mode /\ upd' = upd /\ ticks' = ticks
<1>1. reg' = reg /\ mode' = mode /\ upd' = upd /\ ticks' = ticks
  BY DEF rtcVars
<1>2. Seconds' = Seconds /\ Moved' = Moved
  BY <1>1 DEF Seconds, Moved
<1>3. \A k, b : Coded(k, b)' = Coded(k, b)
  BY <1>1 DEF Coded
<1>4. \A k \in Field : Coded(k, reg[k])'
  BY <1>1, <1>3 DEF ChipInv
<1>5. \A k \in DOMAIN upd' : Coded(k, upd[k])'
  BY <1>1, <1>3 DEF ChipInv
<1>6. ChipInv'
  BY <1>1, <1>4, <1>5 DEF ChipInv, Updating, get_update_in_progress_flag
<1>7. UpdateOf(reg)' = UpdateOf(reg)
  BY <1>1 DEF UpdateOf
<1> QED
  BY <1>1, <1>2, <1>6, <1>7
     DEF Finished, Updating, get_update_in_progress_flag, Ago, Steady

(* The byte of the hours is below 128, and there is a count of the stores  *)
(* of the seconds.                                                         *)
LEMMA RangeLemma ==
  ASSUME ChipInv
  PROVE  /\ reg[3] \in 0 .. 127 /\ Moved \in 0 .. 59 /\ Seconds \in 0 .. 59
         /\ reg[1] = ToByte(mode, Seconds) /\ ticks \in 0 .. 59
<1>1. ticks \in 0 .. 59 /\ mode \in Modes
  BY RtcAssumption, TimeAssumption DEF ChipInv
<1>2. PICK v \in 0 .. 23 : reg[3] = ToByte(mode, v)
  BY DEF ChipInv, Coded, Value, Field
<1>3. PICK sec \in 0 .. 59 : reg[1] = ToByte(mode, sec)
  BY DEF ChipInv, Coded, Value, Field
<1>4. Seconds = sec
  BY <1>1, <1>3, ByteLemma DEF Seconds
<1>5. Moved \in 0 .. 59
  BY <1>1 DEF Moved, ChipInv, Updating, get_update_in_progress_flag
<1> QED
  BY <1>1, <1>2, <1>3, <1>4, <1>5, HourLemma

(* time_get is called.                                                     *)
LEMMA CallGetLemma ==
  ASSUME IInv, CallGet
  PROVE  IInv'
<1>1. /\ ChipInv /\ CodeInv /\ StoreInv /\ UpdateInv /\ ReadInv
      /\ UNCHANGED rtcVars
  BY DEF IInv, CallGet
<1>2. ChipInv' /\ Finished' = Finished /\ Updating' = Updating /\ reg' = reg /\ ticks' = ticks
  BY <1>1, KeepLemma
<1>3. /\ pc' = "wait" /\ last' = << >> /\ setting' = << >> /\ ints' = ints /\ i' = i
      /\ buf' = NoBuf /\ tm' = NoBuf /\ century' = century /\ loads' = 0 /\ ticks0' = Finished
      /\ pc = "idle" /\ shown' = IF Updating THEN {} ELSE {reg}
  BY DEF CallGet, Updating
<1>4. NoBuf \in [1 .. 6 -> Byte] /\ NoBuf \in [1 .. 6 -> -128 .. 255]
  BY DEF NoBuf, REGISTER_COUNT, Byte
<1>5. Finished \in 0 .. ticks /\ ticks \in Nat
  BY <1>1, FinishedLemma
<1>6. 0 \in 0 .. LoadCap
  BY RtcAssumption DEF LoadCap
<1>7. CodeInv'
  <2>1. \A k \in 1 .. 5 : NoBuf[k] \in Byte
    BY <1>4
  <2> QED
    BY <1>1, <1>2, <1>3, <1>4, <1>5, <1>6, <2>1 DEF CodeInv, Getting, Setting
<1>8. StoreInv'
  BY <1>3 DEF StoreInv, Setting
<1>9. UpdateInv'
  BY <1>3 DEF UpdateInv, Loading, Second
<1>10. ShownInv'
  <2>1. reg[3] \in 0 .. 127
    BY <1>1, RangeLemma
  <2> QED
    BY <1>2, <1>3, <2>1 DEF ShownInv
<1>11. FreshInv' /\ WholeInv' /\ AgreeInv' /\ DoneInv'
  BY <1>3 DEF FreshInv, WholeInv, AgreeInv, DoneInv, Loading, Second
<1> QED
  BY <1>2, <1>7, <1>8, <1>9, <1>10, <1>11 DEF IInv, ReadInv

(* What of an instant time_set converts: numbers of two digits.            *)
LEMMA DigitsLemma ==
  ASSUME NEW t \in Instant
  PROVE  /\ \A k \in 1 .. 5 : t[k] \in 0 .. 99
         /\ t[6] % 100 \in 0 .. 99 /\ t[6] \div 100 \in 0 .. 99
<1>1. /\ t[1] \in 0 .. 59 /\ t[2] \in 0 .. 59 /\ t[3] \in 0 .. 23 /\ t[4] \in 1 .. 31
      /\ t[5] \in 1 .. 12 /\ t[6] \in 0 .. 9999
  BY DEF Instant
<1>2. PICK y \in 0 .. 9999 : y = t[6]
  BY <1>1
<1>3. y % 100 \in 0 .. 99
  OBVIOUS
<1>4. y \div 100 \in 0 .. 99
  BY SMTT(30)
<1>5. \A k \in 1 .. 5 : k = 1 \/ k = 2 \/ k = 3 \/ k = 4 \/ k = 5
  OBVIOUS
<1>6. /\ t[1] \in 0 .. 99 /\ t[2] \in 0 .. 99 /\ t[3] \in 0 .. 99 /\ t[4] \in 0 .. 99
      /\ t[5] \in 0 .. 99
  BY <1>1
<1> QED
  BY <1>2, <1>3, <1>4, <1>5, <1>6

(* time_set is called: it makes the bytes of its argument.                 *)
LEMMA BytesLemma ==
  ASSUME NEW m \in Modes, m.h24, NEW t \in Instant, NEW c, NEW b,
         c = [v \in 0 .. 99 |-> IF m.binary THEN v ELSE BIN_TO_BCD(v)],
         b = [k \in 1 .. 6 |-> c[IF k = 6 THEN t[6] % 100 ELSE t[k]]]
  PROVE  /\ \A k \in 1 .. 6 : b[k] = RegistersOf(m, t)[k]
         /\ c[t[6] \div 100] = RegistersOf(m, t)[7]
<1>1. \A v \in 0 .. 99 : c[v] = ToByte(m, v)
  BY DEF ToByte, BIN_TO_BCD
<1>2. \A k \in 1 .. 5 : t[k] \in 0 .. 99
  BY DigitsLemma
<1>3. t[6] % 100 \in 0 .. 99 /\ t[6] \div 100 \in 0 .. 99
  BY DigitsLemma
<1>4. RegistersOf(m, t) = <<ToByte(m, t[1]), ToByte(m, t[2]), ToByte(m, t[3]),
                            ToByte(m, t[4]), ToByte(m, t[5]), ToByte(m, t[6] % 100),
                            ToByte(m, t[6] \div 100)>>
  BY RegistersLemma
<1>5. c[t[6] \div 100] = RegistersOf(m, t)[7]
  BY <1>1, <1>3, <1>4
<1>6. ASSUME NEW k \in 1 .. 6 PROVE b[k] = RegistersOf(m, t)[k]
  <2>1. k = 1 \/ k = 2 \/ k = 3 \/ k = 4 \/ k = 5 \/ k = 6
    OBVIOUS
  <2>2. b[k] = c[IF k = 6 THEN t[6] % 100 ELSE t[k]]
    OBVIOUS
  <2>3. k = 6 => b[k] = ToByte(m, t[6] % 100)
    BY <1>1, <1>3, <2>2
  <2>4. k # 6 => b[k] = ToByte(m, t[k])
    <3> HAVE k # 6
    <3>1. k \in 1 .. 5
      BY <2>1
    <3>2. t[k] \in 0 .. 99 /\ b[k] = c[t[k]]
      BY <1>2, <2>2, <3>1
    <3> QED
      BY <1>1, <3>2
  <2> QED
    BY <1>4, <2>1, <2>3, <2>4
<1> QED
  BY ZenonT(40), <1>5, <1>6

LEMMA CallSetLemma ==
  ASSUME IInv, NEW t \in Instant, CallSet(t)
  PROVE  /\ IInv'
         /\ \A k \in 1 .. 6 : buf'[k] = RegistersOf(mode, t)[k]
<1>1. /\ ChipInv /\ CodeInv /\ StoreInv /\ UpdateInv /\ ReadInv
      /\ UNCHANGED rtcVars
  BY DEF IInv, CallSet
<1>2. /\ ChipInv' /\ Finished' = Finished /\ Updating' = Updating /\ reg' = reg /\ ticks' = ticks
      /\ mode' = mode /\ upd' = upd
  BY <1>1, KeepLemma
<1>3. /\ pc' = "write" /\ ints' = FALSE /\ i' = 1 /\ setting' = t /\ ticks0' = Finished
      /\ result' = << >> /\ shown' = {} /\ loads' = 0 /\ pc = "idle" /\ last' = last /\ tm' = tm
  BY DEF CallSet
<1>4. PICK c : c = [v \in 0 .. 99 |-> IF mode.binary THEN v ELSE BIN_TO_BCD(v)]
  OBVIOUS
<1>5. \A k \in 1 .. 5 : t[k] \in 0 .. 99
  BY DigitsLemma
<1>6. t[6] % 100 \in 0 .. 99 /\ t[6] \div 100 \in 0 .. 99
  BY DigitsLemma
<1>7. /\ century' = c[t[6] \div 100]
      /\ buf' = [k \in 1 .. 6 |-> c[IF k = 6 THEN t[6] % 100 ELSE t[k]]]
  <2>1. \A k \in 1 .. 6 : (IF k = 6 THEN t[6] % 100 ELSE t[k]) \in 0 .. 99
    <3> SUFFICES ASSUME NEW k \in 1 .. 6 PROVE (IF k = 6 THEN t[6] % 100 ELSE t[k]) \in 0 .. 99
      OBVIOUS
    <3>1. k \in 1 .. 5 \/ k = 6
      OBVIOUS
    <3>2. CASE k = 6
      BY <1>6, <3>2
    <3>3. CASE k # 6
      BY <1>5, <3>1, <3>3
    <3> QED
      BY <3>2, <3>3
  <2>2. \A v \in 0 .. 99 : c[v] = IF mode.binary THEN v ELSE BIN_TO_BCD(v)
    BY <1>4
  <2> QED
    BY <1>6, <2>1, <2>2 DEF CallSet, REGISTER_COUNT
<1>8. mode \in Modes /\ mode.h24
  BY <1>1 DEF ChipInv
<1>9. /\ \A k \in 1 .. 6 : buf'[k] = RegistersOf(mode, t)[k]
      /\ century' = RegistersOf(mode, t)[7]
  BY <1>4, <1>7, <1>8, BytesLemma
<1>10. \A k \in Field : RegistersOf(mode, t)[k] \in Byte
  <2> SUFFICES ASSUME NEW k \in Field PROVE RegistersOf(mode, t)[k] \in Byte
    OBVIOUS
  <2>1. PICK v \in Value(k, 0) : RegistersOf(mode, t)[k] = ToByte(mode, v)
    BY <1>8, SettingLemma
  <2>2. v \in 0 .. 159
    BY DEF Value
  <2>3. ToByte(mode, v) \in 0 .. 255
    BY <1>8, <2>2, ByteLemma
  <2> QED
    BY <2>1, <2>3 DEF Byte
<1>11. buf' \in [1 .. 6 -> Byte] /\ century' \in Byte
  BY <1>7, <1>9, <1>10 DEF Field
<1>12. Finished \in 0 .. ticks /\ ticks \in Nat /\ (Updating => Finished # ticks)
  BY <1>1, FinishedLemma
<1>13. 0 \in 0 .. LoadCap
  BY RtcAssumption DEF LoadCap
<1>14. CodeInv'
  <2>1. /\ tm \in [1 .. 6 -> -128 .. 255] /\ \A k \in 1 .. 5 : tm[k] \in Byte
        /\ last = << >> \/ last \in [Field -> Byte]
    BY <1>1 DEF CodeInv
  <2>2. ticks0' \in 0 .. ticks' /\ ticks0' <= Finished' /\ ticks0' <= ticks' /\ i' \in 1 .. 6
    BY <1>2, <1>3, <1>12
  <2>3. ints' = (pc' \notin {"read", "write"})
    BY <1>3
  <2> QED
    BY <1>3, <1>11, <1>13, <2>1, <2>2, <2>3 DEF CodeInv, Getting, Setting
<1>15. StoreInv'
  BY <1>2, <1>3, <1>9, <1>12 DEF StoreInv, Setting
<1>16. UpdateInv' /\ ShownInv' /\ FreshInv' /\ WholeInv' /\ AgreeInv' /\ DoneInv'
  BY <1>3 DEF UpdateInv, ShownInv, FreshInv, WholeInv, AgreeInv, DoneInv, Getting, Loading
<1> QED
  BY <1>2, <1>9, <1>14, <1>15, <1>16 DEF IInv, ReadInv

(* The wait for the update flag.                                           *)
LEMMA WaitLemma ==
  ASSUME IInv, WaitUpdate
  PROVE  IInv'
<1>1. /\ ChipInv /\ CodeInv /\ StoreInv /\ UpdateInv /\ ReadInv
      /\ UNCHANGED rtcVars /\ ~Updating
  BY DEF IInv, WaitUpdate, SeesNoUpdate, Updating
<1>2. /\ ChipInv' /\ Finished' = Finished /\ Updating' = Updating /\ reg' = reg /\ ticks' = ticks
      /\ mode' = mode /\ upd' = upd /\ Seconds' = Seconds /\ Moved' = Moved
      /\ \A b, n : Ago(b, n)' = Ago(b, n)
  BY <1>1, KeepLemma
<1>3. /\ pc = "wait" /\ pc' = "read" /\ i' = 1 /\ ints' = FALSE
      /\ loads' = (IF loads < LoadCap THEN loads + 1 ELSE loads)
      /\ UNCHANGED <<buf, tm, century, last, result, shown, ticks0, setting>>
  BY DEF WaitUpdate
<1>4. loads' \in 0 .. LoadCap
  <2>1. LoadCap \in Nat /\ loads \in 0 .. LoadCap
    BY <1>1, RtcAssumption DEF CodeInv, LoadCap
  <2> QED
    BY <1>3, <2>1
<1>5. CodeInv'
  BY ZenonT(40), <1>1, <1>2, <1>3, <1>4 DEF CodeInv, Getting, Setting
<1>6. StoreInv'
  BY <1>1, <1>3 DEF StoreInv, CodeInv, Getting, Setting
<1>7. UpdateInv'
  BY <1>1, <1>2 DEF UpdateInv
<1>8. reg \in shown
  BY <1>1, <1>3 DEF ReadInv, ShownInv, Getting
<1>9. ShownInv'
  BY <1>1, <1>2, <1>3 DEF ReadInv, ShownInv, Getting
<1>10. FreshInv'
  <2>1. Second => Fresh(last, 7)
    BY <1>1, <1>3 DEF ReadInv, FreshInv
  <2>2. Second' => Fresh(last, 7)'
    BY <1>2, <1>3, <2>1 DEF Fresh, Second
  <2> QED
    BY <1>3, <2>2 DEF FreshInv, Loaded, Loading
<1>11. WholeInv'
  <2> SUFFICES ASSUME Second PROVE \E n \in 0 .. Moved : Whole(n)'
    BY <1>2, <1>3 DEF WholeInv, Second
  <2>1. PICK n \in 0 .. Moved : Ago(last[1], n)
                                /\ (n = 0 => Seconds = 0 \/ \A k \in 1 .. 7 : last[k] = reg[k])
    BY <1>1, <1>3 DEF ReadInv, FreshInv, Fresh
  <2>2. Whole(n)'
    BY <1>1, <1>2, <1>3, <1>8, <2>1 DEF Whole, Field
  <2> QED
    BY <2>2
<1>12. AgreeInv' /\ DoneInv'
  BY <1>3 DEF AgreeInv, DoneInv, Loaded, Loading
<1> QED
  BY <1>2, <1>5, <1>6, <1>7, <1>9, <1>10, <1>11, <1>12 DEF IInv, ReadInv

(* A load that goes on to the next register is as fresh as it was.         *)
LEMMA NextFreshLemma ==
  ASSUME NEW v, NEW w, NEW m \in 0 .. 6, ChipInv, w[m + 1] = reg[m + 1],
         \A k \in 1 .. m : w[k] = v[k], m > 0 => Fresh(v, m)
  PROVE  Fresh(w, m + 1)
<1>1. CASE m = 0
  <2>1. reg[1] = ToByte(mode, Seconds) /\ Seconds \in 0 .. 59 /\ Moved \in 0 .. 59
    BY RangeLemma
  <2>2. Ago(w[1], 0)
    BY <1>1, <2>1 DEF Ago
  <2>3. \A k \in 1 .. m + 1 : w[k] = reg[k]
    BY <1>1
  <2>4. 0 \in 0 .. Moved
    BY <2>1
  <2> QED
    BY <2>2, <2>3, <2>4 DEF Fresh
<1>2. CASE m > 0
  <2>1. PICK n \in 0 .. Moved : Ago(v[1], n)
                                /\ (n = 0 => Seconds = 0 \/ \A k \in 1 .. m : v[k] = reg[k])
    BY <1>2 DEF Fresh
  <2>2. Ago(w[1], n)
    BY <1>2, <2>1
  <2>3. n = 0 => Seconds = 0 \/ \A k \in 1 .. m + 1 : w[k] = reg[k]
    BY <2>1
  <2> QED
    BY <2>2, <2>3 DEF Fresh
<1> QED
  BY <1>1, <1>2

(* The seconds do not come round in less than a minute. *)
LEMMA StillLemma ==
  ASSUME ChipInv, NEW n \in 0 .. Moved, Ago(reg[1], n)
  PROVE  n = 0
<1>1. reg[1] = ToByte(mode, Seconds) /\ mode \in Modes
  BY RangeLemma DEF ChipInv
<1>2. PICK sec \in 0 .. 59 : sec = Seconds
  BY RangeLemma
<1>3. n \in 0 .. 59
  BY RangeLemma
<1>4. (sec - n) % 60 \in 0 .. 159 /\ sec \in 0 .. 159
  BY <1>3
<1>5. ToByte(mode, sec) = ToByte(mode, (sec - n) % 60)
  BY <1>1, <1>2 DEF Ago
<1>6. sec = (sec - n) % 60
  BY SMTT(30), <1>1, <1>4, <1>5, ByteLemma
<1> QED
  BY <1>3, <1>6

(* Registers whose seconds are 0 stay what they are for a while.           *)
LEMMA SteadyLemma ==
  ASSUME ChipInv, Seconds = 0, ~Updating \/ (1 \in DOMAIN upd /\ upd = UpdateOf(reg))
  PROVE  Steady(reg)
<1>1. Moved \in 0 .. 59
  BY RangeLemma
<1>2. CASE ~Updating
  BY <1>1, <1>2 DEF Steady, Updating, get_update_in_progress_flag
<1>3. CASE 1 \in DOMAIN upd /\ upd = UpdateOf(reg)
  BY <1>1, <1>3, UpdateLemma DEF Steady
<1> QED
  BY <1>2, <1>3

(* A register is read. *)
LEMMA ReadLemma ==
  ASSUME IInv, ReadRegister
  PROVE  IInv'
<1>1. /\ ChipInv /\ CodeInv /\ StoreInv /\ UpdateInv /\ ReadInv
      /\ UNCHANGED rtcVars
  BY DEF IInv, ReadRegister
<1>2. /\ ChipInv' /\ Finished' = Finished /\ Updating' = Updating /\ reg' = reg /\ ticks' = ticks
      /\ mode' = mode /\ upd' = upd /\ Seconds' = Seconds /\ Moved' = Moved
      /\ UpdateOf(reg)' = UpdateOf(reg)
      /\ \A r : Steady(r)' = Steady(r)
  BY <1>1, KeepLemma
<1>3. PICK j \in 1 .. 6 : j = i
  BY <1>1 DEF CodeInv
<1>4. /\ pc = "read" /\ buf' = [buf EXCEPT ![j] = reg[j]]
      /\ UNCHANGED <<century, last, result, shown, loads, ticks0, setting>>
      /\ \/ j < 6 /\ i' = j + 1 /\ UNCHANGED <<pc, ints, tm>>
         \/ j = 6 /\ pc' = "century" /\ i' = 1 /\ ints' = TRUE
              /\ tm' = [buf' EXCEPT ![6] = SignExtend(@)]
  BY <1>3 DEF ReadRegister, get_RTC_register, REGISTER_COUNT, histVars
<1>5. Loading /\ Loading' /\ Loaded = j - 1 /\ Loaded' = j /\ Second' = Second /\ pc' # "convert"
      /\ Getting /\ Getting' /\ ~Setting' /\ pc' # "idle" /\ pc' # "wait" /\ pc' # "compare"
      /\ ~(pc' = "read" /\ i' = 1)
  BY <1>3, <1>4 DEF Loading, Loaded, Second, Getting, Setting
<1>6. buf' \in [1 .. 6 -> Byte]
  BY <1>1, <1>4 DEF CodeInv, ChipInv, Field
<1>7. CodeInv'
  <2>1. tm' \in [1 .. 6 -> -128 .. 255] /\ \A k \in 1 .. 5 : tm'[k] \in Byte
    <3>1. CASE j < 6
      <4>1. tm' = tm
        BY <1>4, <3>1
      <4>2. tm \in [1 .. 6 -> -128 .. 255] /\ \A k \in 1 .. 5 : tm[k] \in Byte
        BY <1>1 DEF CodeInv
      <4> QED
        BY <4>1, <4>2
    <3>2. CASE j = 6
      <4>1. SignExtend(buf'[6]) \in -128 .. 255
        BY <1>6 DEF SignExtend, Byte
      <4> QED
        BY <1>4, <1>6, <3>2, <4>1 DEF Byte
    <3> QED
      BY <3>1, <3>2
  <2>2. pc' = "century" => tm' = [buf' EXCEPT ![6] = SignExtend(@)]
    BY <1>4
  <2>3. ints' = (pc' \notin {"read", "write"}) /\ i' \in 1 .. 6 /\ (pc' # "read" => i' = 1)
    <3>0. ints = (pc \notin {"read", "write"})
      BY <1>1 DEF CodeInv
    <3>1. CASE j < 6
      <4>1. i' = j + 1 /\ pc' = "read" /\ ints' = ints
        BY <1>4, <3>1
      <4> QED
        BY <1>4, <3>0, <3>1, <4>1
    <3>2. CASE j = 6
      <4>1. i' = 1 /\ pc' = "century" /\ ints' = TRUE
        BY <1>4, <3>2
      <4>2. pc' \notin {"read", "write"} /\ i' \in 1 .. 6
        BY <4>1
      <4>3. ints' = (pc' \notin {"read", "write"})
        BY <4>1, <4>2, Zenon
      <4> QED
        BY <4>1, <4>2, <4>3
    <3> QED
      BY <3>1, <3>2
  <2> QED
    BY <1>1, <1>2, <1>4, <1>5, <1>6, <2>1, <2>2, <2>3 DEF CodeInv, Getting, Setting
<1>8. StoreInv'
  BY <1>1, <1>4, <1>5 DEF StoreInv, CodeInv, Setting
<1>9. UpdateInv'
  BY <1>1, <1>2, <1>5 DEF UpdateInv
<1>10. ShownInv'
  BY <1>1, <1>2, <1>4, <1>5 DEF ReadInv, ShownInv
<1>11. PICK w : w = LoadFile'
  OBVIOUS
<1>12. \A k \in Field : w[k] = IF k = j THEN reg[j] ELSE LoadFile[k]
  BY <1>1, <1>4, <1>11 DEF LoadFile, Load, Field, CodeInv
<1>13. FreshInv'
  <2>1. Fresh(w, j)
    <3>1. j - 1 > 0 => Fresh(LoadFile, j - 1)
      BY <1>1, <1>5 DEF ReadInv, FreshInv
    <3>2. j - 1 \in 0 .. 6 /\ j - 1 + 1 = j
      OBVIOUS
    <3>3. w[j] = reg[j] /\ \A k \in 1 .. j - 1 : w[k] = LoadFile[k]
      BY <1>12 DEF Field
    <3> HIDE DEF LoadFile
    <3>4. PICK m : m = j - 1
      OBVIOUS
    <3>5. Fresh(w, m + 1)
      BY <1>1, <3>1, <3>2, <3>3, <3>4, NextFreshLemma
    <3> QED
      BY <3>2, <3>4, <3>5
  <2>2. Fresh(LoadFile, Loaded)'
    BY <1>2, <1>5, <1>11, <2>1 DEF Fresh, Ago
  <2>3. Second => Fresh(last, 7)
    BY <1>1, <1>5 DEF ReadInv, FreshInv
  <2>4. Second => Fresh(last, 7)'
    BY <1>2, <1>4, <2>3 DEF Fresh, Ago
  <2> QED
    BY <1>5, <2>2, <2>4 DEF FreshInv
<1>14. WholeInv'
  BY <1>5 DEF WholeInv
<1>15. AgreeInv'
  <2> SUFFICES ASSUME Second, buf'[1] = last[1] PROVE \E r \in shown : Agrees(r)'
    BY <1>4, <1>5 DEF AgreeInv
  <2>1. ASSUME NEW r \in shown,
               (\A k \in Field : last[k] = r[k]) \/ (Steady(r) /\ \A k \in 1 .. j : w[k] = r[k])
        PROVE  Agrees(r)'
    <3>1. \A k \in 1 .. j : Load(k)' = w[k]
      BY <1>11 DEF LoadFile, Field
    <3> QED
      BY <1>2, <1>4, <1>5, <2>1, <3>1 DEF Agrees
  <2>2. CASE j = 1
    <3>1. PICK n \in 0 .. Moved : Whole(n)
      BY <1>1, <1>3, <1>4, <2>2 DEF ReadInv, WholeInv
    <3>2. reg[1] = last[1]
      BY <1>1, <1>4, <2>2 DEF CodeInv
    <3>3. n = 0
      BY <1>1, <3>1, <3>2, StillLemma DEF Whole
    <3>4. /\ reg \in shown /\ (~Updating \/ 1 \in DOMAIN upd)
          /\ Seconds = 0 \/ \A k \in Field : last[k] = reg[k]
      BY <3>1, <3>3 DEF Whole
    <3>5. CASE Seconds = 0
      <4>1. Steady(reg)
        BY <1>1, <1>5, <3>4, <3>5, SteadyLemma DEF UpdateInv
      <4>2. \A k \in 1 .. j : w[k] = reg[k]
        BY <1>12, <2>2 DEF Field
      <4> QED
        BY <2>1, <3>4, <4>1, <4>2
    <3>6. CASE \A k \in Field : last[k] = reg[k]
      BY <2>1, <3>4, <3>6
    <3> QED
      BY <3>4, <3>5, <3>6
  <2>3. CASE j > 1
    <3>1. buf[1] = last[1]
      BY <1>1, <1>4, <2>3 DEF CodeInv
    <3>2. PICK r \in shown : Agrees(r)
      BY <1>1, <1>5, <2>3, <3>1 DEF ReadInv, AgreeInv
    <3>3. CASE \A k \in Field : last[k] = r[k]
      BY <2>1, <3>3
    <3>4. CASE Steady(r) /\ \A k \in 1 .. Loaded : Load(k) = r[k]
      <4>1. \A k \in 1 .. j : w[k] = r[k]
        BY <1>5, <1>12, <2>3, <3>4 DEF LoadFile, Field, Steady
      <4> QED
        BY <2>1, <3>4, <4>1
    <3> QED
      BY <3>2, <3>3, <3>4 DEF Agrees
  <2> QED
    BY <2>2, <2>3
<1>16. DoneInv'
  BY <1>5 DEF DoneInv
<1> QED
  BY <1>2, <1>7, <1>8, <1>9, <1>10, <1>13, <1>14, <1>15, <1>16 DEF IInv, ReadInv

(* The century is read.                                                    *)
LEMMA CenturyLemma ==
  ASSUME IInv, ReadCentury
  PROVE  IInv'
<1>1. /\ ChipInv /\ CodeInv /\ StoreInv /\ UpdateInv /\ ReadInv
      /\ UNCHANGED rtcVars
  BY DEF IInv, ReadCentury
<1>2. /\ ChipInv' /\ Finished' = Finished /\ Updating' = Updating /\ reg' = reg /\ ticks' = ticks
      /\ mode' = mode /\ upd' = upd /\ Seconds' = Seconds /\ Moved' = Moved
      /\ UpdateOf(reg)' = UpdateOf(reg)
      /\ \A r : Steady(r)' = Steady(r)
  BY <1>1, KeepLemma
<1>3. /\ pc = "century" /\ century' = reg[7]
      /\ UNCHANGED <<ints, buf, i, tm, result, shown, loads, ticks0, setting>>
      /\ \/ last = << >> /\ pc' = "wait" /\ last' = Copies(reg[7])
         \/ last # << >> /\ pc' = "compare" /\ last' = last
  BY DEF ReadCentury, get_RTC_register, CENTURY, histVars
<1>4. /\ buf \in [1 .. 6 -> Byte] /\ tm = [buf EXCEPT ![6] = SignExtend(@)] /\ setting = << >>
      /\ ints = TRUE /\ i = 1
  BY <1>1, <1>3 DEF CodeInv, Getting
<1>5. reg[7] \in Byte
  BY <1>1 DEF ChipInv, Field
<1>6. PICK d : d = Copies(reg[7])
  OBVIOUS
<1>7. /\ d \in [Field -> Byte] /\ d[7] = reg[7] /\ d # << >>
      /\ \A k \in 1 .. 6 : d[k] = buf[k]
  BY <1>4, <1>5, <1>6, CopiesLemma
<1>9. Fresh(d, 7)
  <2>1. PICK v : v = LoadFile
    OBVIOUS
  <2>2. \A k \in 1 .. 6 : v[k] = buf[k]
    BY <2>1 DEF LoadFile, Load, Field
  <2>3. Fresh(v, 6)
    BY <1>1, <1>3, <2>1 DEF ReadInv, FreshInv, Loading, Loaded
  <2>4. PICK m \in 0 .. 6 : m = 6
    OBVIOUS
  <2>5. d[m + 1] = reg[m + 1] /\ (\A k \in 1 .. m : d[k] = v[k]) /\ (m > 0 => Fresh(v, m))
    BY <1>7, <2>2, <2>3, <2>4
  <2>6. Fresh(d, m + 1)
    BY <1>1, <2>5, NextFreshLemma
  <2> QED
    BY <2>4, <2>6
<1>10. StoreInv' /\ DoneInv' /\ WholeInv'
  BY <1>3, <1>4 DEF StoreInv, DoneInv, WholeInv, Setting
<1>11. UpdateInv'
  <2>1. Loading
    BY <1>3 DEF Loading
  <2> QED
    BY <1>1, <1>2, <2>1 DEF UpdateInv
<1>12. ShownInv'
  BY <1>1, <1>2, <1>3 DEF ReadInv, ShownInv, Getting
<1>13. CodeInv'
  <2>1. last' = << >> \/ last' \in [Field -> Byte]
    <3>1. last = << >> \/ last \in [Field -> Byte]
      BY <1>1 DEF CodeInv
    <3> QED
      BY <1>3, <1>6, <1>7, <3>1
  <2>2. pc' \in {"wait", "compare"} /\ (pc' = "compare" => last' # << >>)
    BY <1>3
  <2>3. ints' = (pc' \notin {"read", "write"})
    BY <1>3, <1>4, <2>2
  <2> QED
    BY <1>1, <1>2, <1>3, <1>4, <1>5, <2>1, <2>2, <2>3 DEF CodeInv, Getting, Setting
<1>14. CASE last = << >>
  <2>1. pc' = "wait" /\ last' = d
    BY <1>3, <1>6, <1>14
  <2>2. Fresh(last, 7)'
    BY <1>2, <1>9, <2>1 DEF Fresh, Ago
  <2>3. FreshInv' /\ AgreeInv'
    BY <2>1, <2>2 DEF FreshInv, AgreeInv, Loading
  <2> QED
    BY <1>2, <1>10, <1>11, <1>12, <1>13, <2>3 DEF IInv, ReadInv
<1>15. CASE last # << >>
  <2>1. pc' = "compare" /\ last' = last /\ Loaded' = 7
    BY <1>3, <1>15 DEF Loaded
  <2>2. \A k \in Field : Load(k)' = d[k]
    BY <1>3, <1>7 DEF Load, Field
  <2>3. Fresh(last, 7)'
    <3>1. Fresh(last, 7)
      BY <1>1, <1>3, <1>15 DEF ReadInv, FreshInv, Loading, Second
    <3> QED
      BY <1>2, <2>1, <3>1 DEF Fresh, Ago
  <2>4. Fresh(LoadFile, Loaded)'
    <3>1. \A k \in 1 .. 7 : LoadFile'[k] = d[k]
      BY <2>2 DEF LoadFile, Field
    <3> QED
      BY <1>2, <1>9, <2>1, <3>1 DEF Fresh, Ago
  <2>5. FreshInv'
    BY <2>1, <2>3, <2>4 DEF FreshInv
  <2>6. AgreeInv'
    <3> SUFFICES ASSUME buf[1] = last[1] PROVE \E r \in shown : Agrees(r)'
      BY <1>3, <2>1 DEF AgreeInv
    <3>1. PICK r \in shown : Agrees(r)
      BY <1>1, <1>3, <1>15 DEF ReadInv, AgreeInv, Loading, Loaded, Second
    <3>2. CASE \A k \in Field : last[k] = r[k]
      BY <2>1, <3>2 DEF Agrees
    <3>3. CASE Steady(r) /\ \A k \in 1 .. Loaded : Load(k) = r[k]
      <4>1. \A k \in 1 .. 6 : d[k] = r[k]
        BY <1>3, <1>7, <3>3 DEF Load, Loaded
      <4>2. d[7] = r[7]
        BY <1>7, <3>3 DEF Steady
      <4>3. \A k \in 1 .. 7 : Load(k)' = r[k]
        BY <2>2, <4>1, <4>2 DEF Field
      <4> QED
        BY <1>2, <2>1, <3>3, <4>3 DEF Agrees
    <3> QED
      BY <3>1, <3>2, <3>3 DEF Agrees
  <2> QED
    BY <1>2, <1>10, <1>11, <1>12, <1>13, <2>5, <2>6 DEF IInv, ReadInv
<1> QED
  BY <1>14, <1>15

(* The comparison of two loads.  When they agree the tuple of the fields   *)
(* and the century is the load before, so no field was sign extended.      *)
LEMMA TupleLemma ==
  ASSUME NEW sec \in [1 .. 6 -> -128 .. 255], NEW c \in Byte
  PROVE  Append(sec, c)[7] = c /\ \A k \in 1 .. 6 : Append(sec, c)[k] = sec[k]
<1>1. PICK S, t : S = -128 .. 255 /\ t = sec
  OBVIOUS
<1>2. t \in [1 .. 6 -> S] /\ c \in S
  BY <1>1 DEF Byte
<1>3. Append(t, c)[7] = c /\ \A k \in 1 .. 6 : Append(t, c)[k] = t[k]
  BY SMTT(30), <1>2, AppendLemma
<1> QED
  BY <1>1, <1>3, Zenon

LEMMA SameLemma ==
  ASSUME NEW x \in Byte, NEW y \in Byte, x = SignExtend(y)
  PROVE  x = y
BY DEF SignExtend, Byte

LEMMA CompareLemma ==
  ASSUME IInv, Compare
  PROVE  IInv'
<1>1. /\ ChipInv /\ CodeInv /\ StoreInv /\ UpdateInv /\ ReadInv
      /\ UNCHANGED rtcVars
  BY DEF IInv, Compare
<1>2. /\ ChipInv' /\ Finished' = Finished /\ Updating' = Updating /\ reg' = reg /\ ticks' = ticks
      /\ mode' = mode /\ upd' = upd /\ Seconds' = Seconds /\ Moved' = Moved
      /\ UpdateOf(reg)' = UpdateOf(reg)
  BY <1>1, KeepLemma
<1>3. /\ pc = "compare"
      /\ UNCHANGED <<ints, buf, i, tm, century, result, shown, loads, ticks0, setting>>
      /\ \/ SameTwice /\ pc' = "convert" /\ last' = last
         \/ ~SameTwice /\ pc' = "wait" /\ last' = Copies(century)
  BY DEF Compare, histVars
<1>4. /\ buf \in [1 .. 6 -> Byte] /\ tm = [buf EXCEPT ![6] = SignExtend(@)] /\ setting = << >>
      /\ ints = TRUE /\ i = 1 /\ century \in Byte /\ last \in [Field -> Byte] /\ last # << >>
      /\ tm \in [1 .. 6 -> -128 .. 255]
  BY <1>1, <1>3 DEF CodeInv, Getting
<1>5. PICK d : d = Copies(century)
  OBVIOUS
<1>6. /\ d \in [Field -> Byte] /\ d[7] = century
      /\ \A k \in 1 .. 6 : d[k] = buf[k]
  <2>1. PICK c \in Byte : c = century
    BY <1>4
  <2>2. buf \in [1 .. 6 -> Byte] /\ tm = [buf EXCEPT ![6] = SignExtend(@)]
    BY <1>4
  <2> QED
    BY <1>5, <2>1, <2>2, CopiesLemma
<1>7. \A k \in 1 .. 7 : LoadFile[k] = d[k]
  BY <1>6 DEF LoadFile, Load, Field
<1>8. StoreInv' /\ WholeInv' /\ AgreeInv'
  BY <1>3, <1>4 DEF StoreInv, WholeInv, AgreeInv, Setting, Loading
<1>9. UpdateInv'
  <2>1. Loading
    BY <1>3 DEF Loading
  <2> QED
    BY <1>1, <1>2, <2>1 DEF UpdateInv
<1>10. ShownInv'
  BY <1>1, <1>2, <1>3 DEF ReadInv, ShownInv, Getting
<1>11. CodeInv'
  <2>1. last' \in [Field -> Byte]
    BY <1>3, <1>4, <1>5, <1>6
  <2>2. pc' \in {"wait", "convert"}
    BY <1>3
  <2>3. ints' = (pc' \notin {"read", "write"})
    BY <1>3, <1>4, <2>2
  <2> QED
    BY <1>1, <1>2, <1>3, <1>4, <2>1, <2>2, <2>3 DEF CodeInv, Getting, Setting
<1>12. FreshInv'
  <2>1. Fresh(LoadFile, 7)
    BY <1>1, <1>3 DEF ReadInv, FreshInv, Loading, Loaded
  <2>2. Fresh(d, 7)
    BY <1>7, <2>1 DEF Fresh
  <2>3. pc' = "wait" => Fresh(last, 7)'
    <3> HAVE pc' = "wait"
    <3>1. last' = d
      BY <1>3, <1>5
    <3> QED
      BY <1>2, <2>2, <3>1 DEF Fresh, Ago
  <2> QED
    BY <1>3, <2>3 DEF FreshInv, Loading
<1>13. DoneInv'
  <2> SUFFICES ASSUME SameTwice
               PROVE  \E r \in shown : (\A k \in 1 .. 6 : tm[k] = r[k]) /\ century = r[7]
    BY <1>3 DEF DoneInv
  <2>1. tm = buf /\ last[7] = century /\ \A k \in 1 .. 6 : last[k] = buf[k]
    <3>1. Append(tm, century)[7] = century /\ \A k \in 1 .. 6 : Append(tm, century)[k] = tm[k]
      BY ZenonT(40), <1>4, TupleLemma
    <3>2. last[7] = century /\ \A k \in 1 .. 6 : last[k] = tm[k]
      BY <3>1 DEF SameTwice
    <3>0. last[6] \in Byte /\ buf[6] \in Byte
      BY <1>4 DEF Field
    <3>3. PICK x \in Byte, y \in Byte : x = last[6] /\ y = buf[6]
      BY <3>0
    <3>4. x = SignExtend(y)
      BY <1>4, <3>2, <3>3
    <3>7. x = y
      BY <3>4, SameLemma
    <3>8. last[6] = tm[6]
      BY <3>2
    <3>5. tm[6] = buf[6]
      BY <3>3, <3>7, <3>8, Zenon
    <3>6. tm = buf
      BY <1>4, <3>5
    <3> QED
      BY <3>2, <3>6
  <2>2. PICK r \in shown : Agrees(r)
    BY <1>1, <1>3, <1>4, <2>1 DEF ReadInv, AgreeInv, Loading, Loaded, Second
  <2>3. CASE \A k \in Field : last[k] = r[k]
    BY <2>1, <2>3 DEF Field
  <2>4. CASE Steady(r) /\ \A k \in 1 .. Loaded : Load(k) = r[k]
    BY <1>3, <2>1, <2>4 DEF Loaded, Load
  <2> QED
    BY <2>2, <2>3, <2>4 DEF Agrees
<1> QED
  BY <1>2, <1>8, <1>9, <1>10, <1>11, <1>12, <1>13 DEF IInv, ReadInv

(* The conversion.  What it makes of the bytes of a register file is the   *)
(* instant that the registers show.                                        *)
LEMMA ConvertLemma ==
  ASSUME IInv, Convert
  PROVE  IInv'
<1>1. /\ ChipInv /\ CodeInv /\ StoreInv /\ UpdateInv /\ ReadInv
      /\ UNCHANGED rtcVars
  BY DEF IInv, Convert
<1>2. /\ ChipInv' /\ Finished' = Finished /\ Updating' = Updating /\ reg' = reg /\ ticks' = ticks
      /\ mode' = mode /\ upd' = upd
  BY <1>1, KeepLemma
<1>3. /\ pc = "convert" /\ pc' = "idle" /\ last' = << >> /\ buf' = NoBuf /\ tm' = NoBuf
      /\ UNCHANGED <<ints, i, shown, loads, ticks0, setting>>
  BY DEF Convert
<1> DEFINE C(b) == IF mode.binary THEN b ELSE FromBCD(b)
           H(b) == IF mode.binary THEN b ELSE FromBCDHour(b)
<1>4. /\ century' = C(century)
      /\ result' = <<C(tm[1]), C(tm[2]), To24(H(tm[3])), C(tm[4]), C(tm[5]),
                     C(tm[6]) + century' * 100>>
  BY DEF Convert
<1>5. PICK r \in shown : (\A k \in 1 .. 6 : tm[k] = r[k]) /\ century = r[7]
  BY <1>1, <1>3 DEF ReadInv, DoneInv
<1>6. /\ mode \in Modes /\ mode.h24 /\ century \in Byte /\ r[3] \in 0 .. 127
      /\ tm \in [1 .. 6 -> -128 .. 255]
  BY <1>1 DEF ChipInv, CodeInv, ReadInv, ShownInv
<1>7. ASSUME NEW b \in -128 .. 255 PROVE C(b) = FromByte(mode, b) /\ C(b) \in Int
  <2>1. b % 16 \in Int /\ (b \div 16) * 10 \in Int
    OBVIOUS
  <2>2. (b % 16) + (b \div 16) * 10 = (b \div 16) * 10 + (b % 16)
    BY <2>1
  <2> QED
    BY <2>2 DEF FromByte, FromBCD
<1>8. To24(H(r[3])) = FromByte(mode, r[3])
  <2>1. PICK b \in 0 .. 127 : b = r[3]
    BY <1>6
  <2>2. b % 128 = b /\ b \div 128 = 0
    OBVIOUS
  <2>3. FromBCDHour(b) = (b % 16) + (b \div 16) * 10 + 0 * 128
    BY <2>2 DEF FromBCDHour
  <2>4. (b % 16) + (b \div 16) * 10 + 0 * 128 = (b \div 16) * 10 + (b % 16)
    OBVIOUS
  <2>5. H(b) = FromByte(mode, b)
    BY <2>3, <2>4 DEF FromByte
  <2>6. \A h : To24(h) = h
    BY <1>6 DEF To24
  <2> QED
    BY <2>1, <2>5, <2>6
<1>9. \A k \in 1 .. 6 : r[k] \in -128 .. 255 /\ tm[k] = r[k]
  BY <1>5, <1>6
<1>10. r[7] \in -128 .. 255
  BY <1>5, <1>6 DEF Byte
<1> HIDE DEF C, H
<1>11. /\ tm[1] = r[1] /\ tm[2] = r[2] /\ tm[3] = r[3] /\ tm[4] = r[4] /\ tm[5] = r[5]
       /\ tm[6] = r[6]
  BY <1>9
<1>12. /\ C(r[1]) = FromByte(mode, r[1]) /\ C(r[2]) = FromByte(mode, r[2])
       /\ C(r[4]) = FromByte(mode, r[4]) /\ C(r[5]) = FromByte(mode, r[5])
       /\ C(r[6]) = FromByte(mode, r[6]) /\ C(r[7]) = FromByte(mode, r[7])
       /\ C(r[6]) \in Int /\ C(r[7]) \in Int
  <2>1. \A b \in -128 .. 255 : C(b) = FromByte(mode, b) /\ C(b) \in Int
    BY <1>7
  <2>2. /\ r[1] \in -128 .. 255 /\ r[2] \in -128 .. 255 /\ r[4] \in -128 .. 255
        /\ r[5] \in -128 .. 255 /\ r[6] \in -128 .. 255 /\ r[7] \in -128 .. 255
    BY <1>9, <1>10
  <2> QED
    BY <2>1, <2>2, Zenon
<1>13. C(r[6]) + century' * 100 = FromByte(mode, r[6]) + 100 * FromByte(mode, r[7])
  <2>1. PICK p \in Int, q \in Int : p = C(r[6]) /\ q = C(r[7])
    BY <1>12
  <2>2. p + q * 100 = p + 100 * q
    OBVIOUS
  <2> QED
    BY <1>4, <1>5, <1>12, <2>1, <2>2
<1>14. result' = InstantOf(mode, r)
  <2>1. InstantOf(mode, r) =
          <<FromByte(mode, r[1]), FromByte(mode, r[2]), FromByte(mode, r[3]),
            FromByte(mode, r[4]), FromByte(mode, r[5]),
            FromByte(mode, r[6]) + 100 * FromByte(mode, r[7])>>
    BY <1>6, InstantLemma
  <2> QED
    BY <1>4, <1>8, <1>11, <1>12, <1>13, <2>1
<1>15. NoBuf \in [1 .. 6 -> Byte] /\ NoBuf \in [1 .. 6 -> -128 .. 255]
  BY DEF NoBuf, REGISTER_COUNT, Byte
<1>16. century' \in Byte
  BY <1>4, <1>6, FromBCDLemma DEF C
<1>17. CodeInv'
  <2>1. \A k \in 1 .. 5 : NoBuf[k] \in Byte
    BY <1>15
  <2>2. ints = TRUE /\ i = 1
    BY <1>1, <1>3 DEF CodeInv
  <2>3. ints' = (pc' \notin {"read", "write"})
    BY <1>3, <2>2
  <2> QED
    BY <1>1, <1>2, <1>3, <1>15, <1>16, <2>1, <2>2, <2>3 DEF CodeInv, Getting, Setting
<1>18. setting = << >>
  BY <1>1, <1>3 DEF CodeInv, Getting
<1>19. StoreInv' /\ UpdateInv' /\ FreshInv' /\ WholeInv' /\ AgreeInv'
  BY <1>3, <1>18 DEF StoreInv, UpdateInv, FreshInv, WholeInv, AgreeInv, Setting, Loading
<1>20. ShownInv'
  BY <1>1, <1>3 DEF ReadInv, ShownInv, Getting
<1>21. DoneInv'
  BY <1>2, <1>3, <1>5, <1>14 DEF DoneInv
<1> QED
  BY <1>2, <1>17, <1>19, <1>20, <1>21 DEF IInv, ReadInv

(* time_set stores a byte.                                                 *)
LEMMA WriteLemma ==
  ASSUME IInv, WriteRegister \/ WriteCentury
  PROVE  IInv'
<1>1. ChipInv /\ CodeInv /\ StoreInv /\ UpdateInv /\ ReadInv
  BY DEF IInv
<1>2. /\ pc \in {"write", "wcentury"} /\ i \in 1 .. 6 /\ setting \in Instant
      /\ UNCHANGED <<mode, upd, ticks, tm, century, last, histVars>>
  BY <1>1 DEF WriteRegister, WriteCentury, CodeInv, Setting
<1>3. PICK k \in Field :
        /\ set_RTC_register(k, RegistersOf(mode, setting)[k])
        /\ \/ /\ pc = "write" /\ k = i /\ k < 6
              /\ i' = k + 1 /\ UNCHANGED <<pc, ints, buf>>
           \/ /\ pc = "write" /\ k = i /\ k = 6
              /\ pc' = "wcentury" /\ i' = 1 /\ ints' = TRUE /\ buf' = NoBuf
           \/ /\ pc = "wcentury" /\ k = 7
              /\ pc' = "idle" /\ ints' = TRUE /\ UNCHANGED <<buf, i>>
  <2>1. CASE WriteRegister
    <3>1. /\ pc = "write" /\ set_RTC_register(i, buf[i])
          /\ \/ i < 6 /\ i' = i + 1 /\ UNCHANGED <<pc, ints, buf>>
             \/ i = 6 /\ pc' = "wcentury" /\ i' = 1 /\ ints' = TRUE /\ buf' = NoBuf
      BY <1>2, <2>1 DEF WriteRegister, REGISTER_COUNT
    <3>2. buf[i] = RegistersOf(mode, setting)[i]
      BY <1>1, <1>2, <3>1 DEF StoreInv
    <3>3. i \in Field
      BY <1>2 DEF Field
    <3>4. PICK k \in Field : k = i
      BY <3>3
    <3>5. set_RTC_register(k, RegistersOf(mode, setting)[k])
      BY <3>1, <3>2, <3>4 DEF set_RTC_register
    <3> QED
      BY <3>1, <3>4, <3>5
  <2>2. CASE WriteCentury
    <3>1. /\ pc = "wcentury" /\ set_RTC_register(7, century)
          /\ pc' = "idle" /\ ints' = TRUE /\ UNCHANGED <<buf, i>>
      BY <2>2 DEF WriteCentury, CENTURY
    <3>2. century = RegistersOf(mode, setting)[7]
      BY <1>1, <3>1 DEF StoreInv, Setting
    <3>3. 7 \in Field
      BY DEF Field
    <3>4. set_RTC_register(7, RegistersOf(mode, setting)[7])
      BY <3>1, <3>2
    <3> QED
      BY <3>1, <3>3, <3>4
  <2> QED
    BY <2>1, <2>2
<1>4. PICK t : t = setting
  OBVIOUS
<1>5. PICK b : b = RegistersOf(mode, t)
  OBVIOUS
<1>6. reg' = [reg EXCEPT ![k] = b[k]] /\ mode' = mode /\ upd' = upd /\ ticks' = ticks
  BY <1>2, <1>3, <1>4, <1>5 DEF set_RTC_register
<1>7. ChipInv'
  BY <1>1, <1>2, <1>3, ChipWriteLemma
<1>8. /\ UNCHANGED <<tm, century, last, result, shown, loads, ticks0, setting>>
      /\ Updating' = Updating /\ Finished' = Finished
  BY <1>2, <1>6 DEF histVars, Finished, Updating, get_update_in_progress_flag
<1>9. pc' \in {"write", "wcentury", "idle"}
  BY <1>2, <1>3
<1>10. CodeInv'
  <2>1. buf' \in [1 .. 6 -> Byte]
    <3>1. NoBuf \in [1 .. 6 -> Byte]
      BY DEF NoBuf, REGISTER_COUNT, Byte
    <3>2. buf \in [1 .. 6 -> Byte]
      BY <1>1 DEF CodeInv
    <3> QED
      BY <1>3, <3>1, <3>2
  <2>2. i' \in 1 .. 6 /\ (pc' \notin {"read", "write"} => i' = 1)
    BY <1>1, <1>2, <1>3 DEF CodeInv
  <2>3. ints = (pc \notin {"read", "write"})
    BY <1>1 DEF CodeInv
  <2>4. ints' = (pc' \notin {"read", "write"})
    <3>1. CASE pc' = pc /\ ints' = ints
      BY <2>3, <3>1
    <3>2. CASE pc' \in {"wcentury", "idle"} /\ ints' = TRUE
      <4>1. pc' \notin {"read", "write"}
        BY <3>2
      <4> QED
        BY <3>2, <4>1, Zenon
    <3> QED
      BY <1>3, <3>1, <3>2
  <2> QED
    BY <1>1, <1>2, <1>6, <1>8, <1>9, <2>1, <2>2, <2>4 DEF CodeInv, Getting, Setting
<1>11. StoreInv'
  <2>1. Setting' => century' = RegistersOf(mode', setting')[7]
    BY <1>1, <1>2, <1>6, <1>8 DEF StoreInv, Setting
  <2>2. pc' = "write" => \A j \in 1 .. 6 : buf'[j] = RegistersOf(mode', setting')[j]
    BY <1>1, <1>3, <1>6, <1>8 DEF StoreInv
  <2>3. ASSUME setting' # << >>, ticks' = ticks0'
        PROVE  /\ setting' \in Instant /\ ~Updating'
               /\ pc' = "write" => \A j \in 1 .. i' - 1 : reg'[j] = b[j]
               /\ pc' = "wcentury" => \A j \in 1 .. 6 : reg'[j] = b[j]
               /\ pc' = "idle" => \A j \in Field : reg'[j] = b[j]
    <3>1. setting # << >> /\ ticks = ticks0
      BY <1>6, <1>8, <2>3
    <3>2. /\ ~Updating
          /\ pc = "write" => \A j \in 1 .. i - 1 : reg[j] = b[j]
          /\ pc = "wcentury" => \A j \in 1 .. 6 : reg[j] = b[j]
      BY <1>1, <1>4, <1>5, <3>1 DEF StoreInv
    <3>3. \A j \in Field : reg'[j] = IF j = k THEN b[j] ELSE reg[j]
      BY <1>1, <1>6 DEF ChipInv
    <3>4. CASE pc = "write" /\ k = i /\ k < 6 /\ i' = k + 1 /\ pc' = pc
      BY <1>2, <1>8, <3>2, <3>3, <3>4 DEF Field
    <3>5. CASE pc = "write" /\ k = i /\ k = 6 /\ pc' = "wcentury"
      BY <1>2, <1>8, <3>2, <3>3, <3>5 DEF Field
    <3>6. CASE pc = "wcentury" /\ k = 7 /\ pc' = "idle"
      BY <1>2, <1>8, <3>2, <3>3, <3>6 DEF Field
    <3> QED
      BY <1>3, <3>4, <3>5, <3>6
  <2>4. RegistersOf(mode, setting)' = b
    BY <1>4, <1>5, <1>6, <1>8 DEF RegistersOf, HourByte, ToByte
  <2> QED
    BY <2>1, <2>2, <2>3, <2>4 DEF StoreInv
<1>12. UpdateInv' /\ FreshInv' /\ WholeInv' /\ AgreeInv'
  BY <1>9 DEF UpdateInv, FreshInv, WholeInv, AgreeInv, Loading
<1>13. ShownInv' /\ DoneInv'
  <2>1. result' = << >>
    BY <1>1, <1>2, <1>8 DEF CodeInv, Setting
  <2> QED
    BY <1>1, <1>8, <1>9, <2>1 DEF ReadInv, ShownInv, DoneInv, Getting
<1> QED
  BY <1>7, <1>10, <1>11, <1>12, <1>13 DEF IInv, ReadInv

(* The chip begins an update.                                              *)
LEMMA BeginLemma ==
  ASSUME IInv, ChipBegin
  PROVE  IInv'
<1>1. ChipInv /\ CodeInv /\ StoreInv /\ UpdateInv /\ ReadInv /\ UpdateBegin
  BY DEF IInv, ChipBegin
<1>2. /\ ~Updating /\ ticks < MaxTicks /\ upd' = UpdateOf(reg) /\ ticks' = ticks + 1
      /\ reg' = reg /\ mode' = mode
  BY <1>1 DEF UpdateBegin, Updating
<1>3. /\ UNCHANGED <<pc, ints, buf, i, tm, century, last>>
      /\ UNCHANGED <<result, shown, loads, ticks0, setting>>
  BY DEF ChipBegin, codeVars, histVars
<1>4. ChipInv' /\ Updating'
  BY <1>1, ChipBeginLemma
<1>5. 1 \in DOMAIN upd' /\ UpdateOf(reg)' = UpdateOf(reg) /\ Seconds' = Seconds
  BY <1>1, <1>2, UpdateLemma DEF UpdateOf, Seconds
<1>6. ticks \in Nat /\ Finished = ticks /\ MaxTicks \in Nat /\ MaxTicks < 60
  BY <1>1, <1>2, FinishedLemma, RtcAssumption, TimeAssumption
<1>7. 1 \notin DOMAIN upd
  BY <1>2 DEF Updating, get_update_in_progress_flag
<1>8. Moved' = Moved /\ Finished' = Finished /\ Moved = ticks
  BY <1>2, <1>4, <1>5, <1>6, <1>7 DEF Moved, Finished, Updating
<1>9. CodeInv'
  <2>1. ticks0 \in 0 .. ticks
    BY <1>1 DEF CodeInv
  <2>2. ticks0' \in 0 .. ticks' /\ ticks0' <= ticks'
    BY <1>2, <1>3, <1>6, <2>1
  <2>3. /\ Getting' = Getting /\ Setting' = Setting
    BY <1>3 DEF Getting, Setting
  <2> QED
    BY <1>1, <1>3, <1>8, <2>2, <2>3 DEF CodeInv
<1>10. StoreInv'
  <2>1. ticks' # ticks0'
    BY <1>1, <1>2, <1>3, <1>6 DEF CodeInv
  <2>2. RegistersOf(mode, setting)' = RegistersOf(mode, setting) /\ Setting' = Setting
    BY <1>2, <1>3 DEF Setting
  <2> QED
    BY <1>1, <1>3, <2>1, <2>2 DEF StoreInv
<1>11. UpdateInv'
  BY <1>2, <1>5 DEF UpdateInv
<1>12. ShownInv'
  BY <1>1, <1>3, <1>4 DEF ReadInv, ShownInv
<1>13. /\ Loading' = Loading /\ Loaded' = Loaded /\ Second' = Second /\ LoadFile' = LoadFile
       /\ \A k : Load(k)' = Load(k)
  BY <1>3 DEF Loading, Loaded, Second, LoadFile, Load
<1>14. \A v, m : Fresh(v, m)' = Fresh(v, m)
  BY <1>2, <1>5, <1>8 DEF Fresh, Ago
<1>15. FreshInv'
  <2>1. Loading /\ Loaded > 0 => Fresh(LoadFile, Loaded)'
    BY <1>1, <1>13, <1>14 DEF ReadInv, FreshInv
  <2>2. (pc = "wait" \/ Loading) /\ Second => Fresh(last, 7)'
    BY <1>1, <1>3, <1>14 DEF ReadInv, FreshInv
  <2> QED
    BY <1>3, <1>13, <2>1, <2>2 DEF FreshInv
<1>16. WholeInv'
  <2> SUFFICES ASSUME pc = "read" /\ i = 1 /\ Second
               PROVE  \E n \in 0 .. Moved : Whole(n)'
    BY <1>3, <1>8, <1>13 DEF WholeInv
  <2>1. PICK n \in 0 .. Moved : Whole(n)
    BY <1>1 DEF ReadInv, WholeInv
  <2>2. Whole(n)'
    BY <1>2, <1>3, <1>5, <2>1 DEF Whole, Ago
  <2> QED
    BY <2>2
<1>17. AgreeInv'
  <2> SUFFICES ASSUME Loading /\ Loaded > 0 /\ Second /\ buf[1] = last[1]
               PROVE  \E r \in shown : Agrees(r)'
    BY <1>3, <1>13 DEF AgreeInv
  <2>1. PICK r \in shown : Agrees(r)
    BY <1>1 DEF ReadInv, AgreeInv
  <2>2. ASSUME Steady(r) PROVE Steady(r)'
    <3>1. Seconds <= ticks /\ Seconds \in 0 .. 59
      BY <1>1, <1>8, <2>2, RangeLemma DEF Steady
    <3>2. Seconds # 59
      BY <1>2, <1>6, <3>1
    <3>3. DOMAIN upd' \subseteq {1}
      BY <1>1, <1>2, <3>2, UpdateLemma
    <3> QED
      BY <1>2, <1>5, <1>8, <2>2, <3>3 DEF Steady
  <2>3. Agrees(r)'
    BY <1>3, <1>13, <2>1, <2>2 DEF Agrees
  <2> QED
    BY <2>3
<1>18. DoneInv'
  BY <1>1, <1>2, <1>3 DEF ReadInv, DoneInv
<1> QED
  BY <1>4, <1>9, <1>10, <1>11, <1>12, <1>15, <1>16, <1>17, <1>18 DEF IInv, ReadInv

(* A store of the seconds: they have moved once more.                      *)
LEMMA MoveLemma ==
  ASSUME ChipInv, ChipInv', StoreOf(1), upd = UpdateOf(reg)
  PROVE  /\ Seconds' = (Seconds + 1) % 60 /\ Moved' = Moved + 1 /\ 1 \notin DOMAIN upd'
         /\ \A b, n : n \in 0 .. Moved /\ Ago(b, n) => n + 1 \in 0 .. Moved' /\ Ago(b, n + 1)'
         /\ Updating' => Seconds' = 0
         /\ \A r : Steady(r) => Steady(r)'
<1>1. /\ 1 \in DOMAIN upd /\ reg' = [reg EXCEPT ![1] = upd[1]] /\ mode' = mode /\ ticks' = ticks
      /\ upd' = [j \in DOMAIN upd \ {1} |-> upd[j]]
  BY DEF StoreOf
<1>2. /\ upd[1] = ToByte(mode, (Seconds + 1) % 60) /\ Seconds \in 0 .. 59
      /\ Seconds # 59 => DOMAIN upd \subseteq {1}
  BY UpdateLemma
<1>3. PICK sec \in 0 .. 59 : sec = Seconds
  BY <1>2
<1>4. (sec + 1) % 60 \in 0 .. 59
  OBVIOUS
<1>5. Seconds' = (sec + 1) % 60
  <2>1. reg'[1] = ToByte(mode, (sec + 1) % 60)
    BY <1>1, <1>2, <1>3 DEF ChipInv, Field
  <2>2. PICK u \in 0 .. 159 : u = (sec + 1) % 60
    BY <1>4
  <2>3. mode \in Modes
    BY DEF ChipInv
  <2>4. FromByte(mode, ToByte(mode, u)) = u
    BY <2>2, <2>3, ByteLemma
  <2> QED
    BY <1>1, <2>1, <2>2, <2>4 DEF Seconds
<1>6. ticks \in 0 .. 59 /\ ticks > 0 /\ Moved = ticks - 1 /\ Moved' = ticks /\ 1 \notin DOMAIN upd'
  BY <1>1, RangeLemma DEF Moved, ChipInv, Updating, get_update_in_progress_flag
<1>7. ASSUME NEW b, NEW n \in 0 .. Moved, Ago(b, n) PROVE n + 1 \in 0 .. Moved' /\ Ago(b, n + 1)'
  <2>1. n \in 0 .. 58
    BY <1>6
  <2>2. (((sec + 1) % 60) - (n + 1)) % 60 = (sec - n) % 60
    BY <2>1
  <2> QED
    BY <1>1, <1>3, <1>5, <1>6, <1>7, <2>1, <2>2 DEF Ago
<1>8. Updating' => Seconds' = 0
  <2> HAVE Updating'
  <2>1. PICK j : j \in DOMAIN upd' /\ j # 1
    BY <1>1 DEF Updating, get_update_in_progress_flag
  <2>2. sec = 59
    BY <1>1, <1>2, <1>3, <2>1
  <2> QED
    BY <1>5, <2>2
<1>9. ASSUME NEW r, Steady(r) PROVE Steady(r)'
  <2>1. sec <= ticks - 1
    BY <1>3, <1>6, <1>9 DEF Steady
  <2>2. (sec + 1) % 60 = sec + 1
    BY <1>6, <2>1
  <2>3. Seconds' <= Moved'
    BY <1>5, <1>6, <2>1, <2>2
  <2>4. \A k \in 2 .. 7 : reg'[k] = r[k]
    BY <1>1, <1>9 DEF Steady, ChipInv, Field
  <2>5. DOMAIN upd' \subseteq {1}
    BY <1>1, <1>9 DEF Steady
  <2> QED
    BY <2>3, <2>4, <2>5 DEF Steady
<1> QED
  BY <1>3, <1>5, <1>6, <1>7, <1>8, <1>9

(* The chip stores a register of its update.                               *)
LEMMA StoreLemma ==
  ASSUME IInv, ChipStore
  PROVE  IInv'
<1>1. ChipInv /\ CodeInv /\ StoreInv /\ UpdateInv /\ ReadInv
  BY DEF IInv
<1>2. PICK k : StoreOf(k)
  BY DEF ChipStore, UpdateStore, StoreOf
<1>3. /\ UNCHANGED <<pc, ints, buf, i, tm, century, last>>
      /\ UNCHANGED <<result, loads, ticks0, setting>>
      /\ shown' = IF ~Updating' /\ pc # "idle" /\ setting = << >> THEN shown \cup {reg'} ELSE shown
  BY DEF ChipStore, codeVars, Updating
<1>4. /\ k \in DOMAIN upd /\ k \in Field /\ reg' = [reg EXCEPT ![k] = upd[k]]
      /\ upd' = [j \in DOMAIN upd \ {k} |-> upd[j]]
      /\ mode' = mode /\ ticks' = ticks /\ Updating
      /\ \A j \in DOMAIN upd : k <= j
  BY <1>1, <1>2 DEF StoreOf, ChipInv, Updating, get_update_in_progress_flag
<1>5. ChipInv'
  BY <1>1, <1>2, ChipStoreLemma
<1>6. shown \subseteq shown'
  BY <1>3
<1>7. /\ Loading' = Loading /\ Loaded' = Loaded /\ Second' = Second /\ LoadFile' = LoadFile
      /\ Getting' = Getting /\ Setting' = Setting
      /\ \A j : Load(j)' = Load(j)
  BY <1>3 DEF Loading, Loaded, Second, LoadFile, Load, Getting, Setting
<1>8. Finished' >= Finished /\ Finished' \in Nat /\ Finished \in Nat
  <2>1. Finished = ticks - 1 /\ ticks \in Nat /\ Finished \in Nat
    BY <1>1, <1>4, FinishedLemma
  <2>2. Finished' = ticks - 1 \/ Finished' = ticks
    BY <1>4 DEF Finished
  <2> QED
    BY <2>1, <2>2
<1>9. CodeInv'
  <2>1. ticks0 \in 0 .. ticks
    BY <1>1 DEF CodeInv
  <2>2. ticks0 <= Finished => ticks0' <= Finished'
    BY <1>3, <1>8, <2>1
  <2> QED
    BY <1>1, <1>3, <1>4, <1>7, <2>1, <2>2 DEF CodeInv
<1>10. StoreInv'
  <2>1. ~(setting' # << >> /\ ticks' = ticks0')
    BY <1>1, <1>3, <1>4 DEF StoreInv
  <2>2. RegistersOf(mode, setting)' = RegistersOf(mode, setting)
    BY <1>3, <1>4
  <2> QED
    BY <1>1, <1>3, <1>7, <2>1, <2>2 DEF StoreInv
<1>11. ShownInv'
  <2>1. reg'[3] \in 0 .. 127
    <3>1. mode' \in Modes
      BY <1>5 DEF ChipInv
    <3>2. PICK v \in 0 .. 23 : reg'[3] = ToByte(mode', v)
      BY <1>5 DEF ChipInv, Coded, Value, Field
    <3> QED
      BY <3>1, <3>2, HourLemma
  <2>2. Getting => pc # "idle" /\ setting = << >>
    BY <1>1 DEF CodeInv, Getting
  <2> QED
    BY <1>1, <1>3, <1>7, <2>1, <2>2 DEF ReadInv, ShownInv
<1>12. DoneInv'
  BY <1>1, <1>3, <1>4, <1>6 DEF ReadInv, DoneInv
<1>13. (Loading \/ (pc = "wait" /\ Second)) =>
          \/ k = 1 /\ upd = UpdateOf(reg)
          \/ k # 1 /\ 1 \notin DOMAIN upd /\ Seconds = 0
  <2>1. 1 \in DOMAIN upd => k = 1
    BY <1>4 DEF Field
  <2> QED
    BY <1>1, <1>4, <2>1 DEF UpdateInv
<1>14. CASE ~(Loading \/ (pc = "wait" /\ Second))
  <2>1. UpdateInv' /\ FreshInv' /\ WholeInv' /\ AgreeInv'
    BY <1>3, <1>7, <1>14 DEF UpdateInv, FreshInv, WholeInv, AgreeInv, Loading
  <2> QED
    BY <1>5, <1>9, <1>10, <1>11, <1>12, <2>1 DEF IInv, ReadInv
<1>15. CASE k = 1 /\ upd = UpdateOf(reg) /\ (Loading \/ (pc = "wait" /\ Second))
  <2>1. /\ Moved' = Moved + 1 /\ 1 \notin DOMAIN upd' /\ Moved \in 0 .. 59
        /\ \A b, n : n \in 0 .. Moved /\ Ago(b, n) => n + 1 \in 0 .. Moved' /\ Ago(b, n + 1)'
        /\ Updating' => Seconds' = 0
        /\ \A r : Steady(r) => Steady(r)'
    BY <1>1, <1>2, <1>5, <1>15, MoveLemma, RangeLemma
  <2>2. UpdateInv'
    BY <2>1 DEF UpdateInv
  <2>3. ASSUME NEW v, NEW m, Fresh(v, m) PROVE Fresh(v, m)'
    <3>1. PICK n \in 0 .. Moved : Ago(v[1], n)
      BY <2>3 DEF Fresh
    <3>2. n + 1 \in 0 .. Moved' /\ Ago(v[1], n + 1)' /\ n + 1 # 0
      BY <2>1, <3>1
    <3> QED
      BY <3>2 DEF Fresh
  <2>4. FreshInv'
    <3>1. Loading /\ Loaded > 0 => Fresh(LoadFile, Loaded)'
      BY <1>1, <1>7, <2>3 DEF ReadInv, FreshInv
    <3>2. (pc = "wait" \/ Loading) /\ Second => Fresh(last, 7)'
      BY <1>1, <1>3, <2>3 DEF ReadInv, FreshInv
    <3> QED
      BY <1>3, <1>7, <3>1, <3>2 DEF FreshInv
  <2>5. WholeInv'
    <3> SUFFICES ASSUME pc = "read" /\ i = 1 /\ Second
                 PROVE  \E n \in 0 .. Moved' : Whole(n)'
      BY <1>3, <1>7 DEF WholeInv
    <3>1. PICK n \in 0 .. Moved : Ago(last[1], n)
      BY <1>1 DEF ReadInv, WholeInv, Whole
    <3>4. PICK b : b = last[1]
      OBVIOUS
    <3>5. n + 1 \in 0 .. Moved' /\ Ago(b, n + 1)' /\ n + 1 # 0
      BY <2>1, <3>1, <3>4
    <3>2. n + 1 \in 0 .. Moved' /\ Ago(last[1], n + 1)' /\ n + 1 # 0
      BY <1>3, <3>4, <3>5 DEF Ago
    <3>3. Whole(n + 1)'
      BY <1>3, <3>2 DEF Whole, Ago
    <3> QED
      BY <3>2, <3>3
  <2>6. AgreeInv'
    <3> SUFFICES ASSUME Loading /\ Loaded > 0 /\ Second /\ buf[1] = last[1]
                 PROVE  \E r \in shown : Agrees(r)'
      BY <1>3, <1>6, <1>7 DEF AgreeInv
    <3>1. PICK r \in shown : Agrees(r)
      BY <1>1 DEF ReadInv, AgreeInv
    <3>2. Agrees(r)'
      BY <1>3, <1>7, <2>1, <3>1 DEF Agrees
    <3> QED
      BY <3>2
  <2> QED
    BY <1>5, <1>9, <1>10, <1>11, <1>12, <2>2, <2>4, <2>5, <2>6 DEF IInv, ReadInv
<1>16. CASE k # 1 /\ 1 \notin DOMAIN upd /\ Seconds = 0 /\ (Loading \/ (pc = "wait" /\ Second))
  <2>1. reg'[1] = reg[1] /\ 1 \notin DOMAIN upd'
    BY <1>1, <1>4, <1>16 DEF ChipInv, Field
  <2>2. Seconds' = 0 /\ Moved' = Moved
    BY <1>4, <1>16, <2>1 DEF Seconds, Moved
  <2>3. UpdateInv'
    BY <2>1, <2>2 DEF UpdateInv
  <2>4. \A b, n : Ago(b, n)' = Ago(b, n)
    BY <1>4, <1>16, <2>2 DEF Ago
  <2>5. ASSUME NEW v, NEW m, Fresh(v, m) PROVE Fresh(v, m)'
    BY <1>4, <1>16, <2>2, <2>5 DEF Fresh, Ago
  <2>6. FreshInv'
    <3>1. Loading /\ Loaded > 0 => Fresh(LoadFile, Loaded)'
      BY <1>1, <1>7, <2>5 DEF ReadInv, FreshInv
    <3>2. (pc = "wait" \/ Loading) /\ Second => Fresh(last, 7)'
      BY <1>1, <1>3, <2>5 DEF ReadInv, FreshInv
    <3> QED
      BY <1>3, <1>7, <3>1, <3>2 DEF FreshInv
  <2>7. WholeInv'
    <3> SUFFICES ASSUME pc = "read" /\ i = 1 /\ Second
                 PROVE  \E n \in 0 .. Moved : Whole(n)'
      BY <1>3, <1>7, <2>2 DEF WholeInv
    <3>1. PICK n \in 0 .. Moved : Whole(n)
      BY <1>1 DEF ReadInv, WholeInv
    <3>2. n # 0 /\ Ago(last[1], n)
      BY <1>4, <1>16, <3>1 DEF Whole
    <3>3. Whole(n)'
      BY <1>3, <1>4, <1>16, <2>2, <3>2 DEF Whole, Ago
    <3> QED
      BY <3>3
  <2>8. AgreeInv'
    <3> SUFFICES ASSUME Loading /\ Loaded > 0 /\ Second /\ buf[1] = last[1]
                 PROVE  \E r \in shown : Agrees(r)'
      BY <1>3, <1>6, <1>7 DEF AgreeInv
    <3>1. PICK r \in shown : Agrees(r)
      BY <1>1 DEF ReadInv, AgreeInv
    <3>2. ~Steady(r)
      BY <1>4, <1>16 DEF Steady
    <3>3. Agrees(r)'
      BY <1>3, <3>1, <3>2 DEF Agrees
    <3> QED
      BY <3>3
  <2> QED
    BY <1>5, <1>9, <1>10, <1>11, <1>12, <2>3, <2>6, <2>7, <2>8 DEF IInv, ReadInv
<1> QED
  BY <1>13, <1>14, <1>15, <1>16

-----------------------------------------------------------------------------
(* The kernel finds the clock showing an instant, and calls nothing yet.   *)
THEOREM InitInv == Init => IInv
<1> SUFFICES ASSUME Init PROVE IInv
  OBVIOUS
<1>1. PICK b \in Boots : mode = b[1] /\ reg = RegistersOf(mode, b[2])
  BY DEF Init, RtcInit
<1>2. mode \in Modes /\ mode.h24 /\ b[2] \in Instant
  BY <1>1, RtcAssumption, TimeAssumption
<1>3. PICK t \in Instant : t = b[2]
  BY <1>2
<1>4. /\ DOMAIN upd = {} /\ ticks = 0 /\ pc = "idle" /\ ints = TRUE /\ buf = NoBuf /\ i = 1
      /\ tm = NoBuf /\ century = 0 /\ last = << >> /\ result = << >> /\ shown = {} /\ loads = 0
      /\ ticks0 = 0 /\ setting = << >>
  BY DEF Init, RtcInit
<1>5. MaxTicks \in Nat /\ LoadCap \in Nat
  BY RtcAssumption DEF LoadCap
<1>6. \A k \in Field : Coded(k, reg[k])
  BY <1>1, <1>2, <1>3, <1>4, SettingLemma DEF Coded
<1>7. reg \in [Field -> Byte]
  <2>1. reg = <<reg[1], reg[2], reg[3], reg[4], reg[5], reg[6], reg[7]>>
    BY <1>1 DEF RegistersOf
  <2>2. \A k \in Field : reg[k] \in Byte
    <3> SUFFICES ASSUME NEW k \in Field PROVE reg[k] \in Byte
      OBVIOUS
    <3>1. PICK v \in Value(k, 0) : reg[k] = ToByte(mode, v)
      BY <1>1, <1>2, <1>3, SettingLemma
    <3>2. v \in 0 .. 159
      BY DEF Value
    <3>3. ToByte(mode, v) \in 0 .. 255
      BY <1>2, <3>2, ByteLemma
    <3> QED
      BY <3>1, <3>3 DEF Byte
  <2>3. reg \in Seq(Byte) /\ Len(reg) = 7
    <3>1. /\ reg[1] \in Byte /\ reg[2] \in Byte /\ reg[3] \in Byte /\ reg[4] \in Byte
          /\ reg[5] \in Byte /\ reg[6] \in Byte /\ reg[7] \in Byte
      BY <2>2 DEF Field
    <3>2. PICK r1 \in Byte, r2 \in Byte, r3 \in Byte, r4 \in Byte, r5 \in Byte, r6 \in Byte,
               r7 \in Byte :
            /\ reg[1] = r1 /\ reg[2] = r2 /\ reg[3] = r3 /\ reg[4] = r4 /\ reg[5] = r5
            /\ reg[6] = r6 /\ reg[7] = r7
      BY <3>1
    <3>3. reg = <<r1, r2, r3, r4, r5, r6, r7>>
      BY <2>1, <3>2, Zenon
    <3>4. <<r1, r2, r3, r4, r5, r6, r7>> \in Seq(Byte) /\ Len(<<r1, r2, r3, r4, r5, r6, r7>>) = 7
      OBVIOUS
    <3> QED
      BY <3>3, <3>4, Zenon
  <2> QED
    BY <2>3, LenProperties DEF Field
<1>8. ChipInv
  BY <1>2, <1>4, <1>5, <1>6, <1>7 DEF ChipInv, Updating, get_update_in_progress_flag
<1>9. NoBuf \in [1 .. 6 -> Byte] /\ NoBuf \in [1 .. 6 -> -128 .. 255] /\ 0 \in Byte
  BY DEF NoBuf, REGISTER_COUNT, Byte
<1>10. CodeInv
  <2>1. \A k \in 1 .. 5 : NoBuf[k] \in Byte
    BY <1>9
  <2>2. ints = (pc \notin {"read", "write"})
    BY <1>4
  <2> QED
    BY <1>4, <1>5, <1>9, <2>1, <2>2
       DEF CodeInv, Getting, Setting, Updating, get_update_in_progress_flag
<1>11. StoreInv /\ UpdateInv /\ ShownInv /\ FreshInv /\ WholeInv /\ AgreeInv /\ DoneInv
  BY <1>4 DEF StoreInv, UpdateInv, ShownInv, FreshInv, WholeInv, AgreeInv, DoneInv,
              Setting, Getting, Loading
<1> QED
  BY <1>8, <1>10, <1>11 DEF IInv, ReadInv

(* Every step keeps the invariant.                                         *)
THEOREM NextInv == IInv /\ [Next]_vars => IInv'
<1> SUFFICES ASSUME IInv, [Next]_vars PROVE IInv'
  OBVIOUS
<1>1. CASE CallGet
  BY <1>1, CallGetLemma
<1>2. CASE \E t \in SetTimes : CallSet(t)
  <2>1. PICK t \in SetTimes : CallSet(t)
    BY <1>2
  <2>2. t \in Instant
    BY TimeAssumption
  <2> QED
    BY <2>1, <2>2, CallSetLemma
<1>3. CASE WaitUpdate
  BY <1>3, WaitLemma
<1>4. CASE ReadRegister
  BY <1>4, ReadLemma
<1>5. CASE ReadCentury
  BY <1>5, CenturyLemma
<1>6. CASE Compare
  BY <1>6, CompareLemma
<1>7. CASE Convert
  BY <1>7, ConvertLemma
<1>8. CASE WriteRegister \/ WriteCentury
  BY <1>8, WriteLemma
<1>9. CASE ChipBegin
  BY <1>9, BeginLemma
<1>10. CASE ChipStore
  BY <1>10, StoreLemma
<1>11. CASE UNCHANGED vars
  <2>1. /\ UNCHANGED rtcVars
        /\ UNCHANGED <<pc, ints, buf, i, tm, century, last>>
        /\ UNCHANGED <<result, shown, loads, ticks0, setting>>
    BY <1>11 DEF vars, codeVars, histVars
  <2>2. ChipInv /\ CodeInv /\ StoreInv /\ UpdateInv /\ ReadInv
    BY DEF IInv
  <2>3. /\ ChipInv' /\ Finished' = Finished /\ Updating' = Updating /\ Seconds' = Seconds
        /\ Moved' = Moved /\ UpdateOf(reg)' = UpdateOf(reg)
        /\ \A r : Steady(r)' = Steady(r)
        /\ reg' = reg /\ mode' = mode /\ upd' = upd /\ ticks' = ticks
    BY <2>1, <2>2, KeepLemma
  <2>4. /\ Loading' = Loading /\ Loaded' = Loaded /\ Second' = Second /\ LoadFile' = LoadFile
        /\ Getting' = Getting /\ Setting' = Setting
        /\ \A j : Load(j)' = Load(j)
    BY <2>1 DEF Loading, Loaded, Second, LoadFile, Load, Getting, Setting
  <2>5. CodeInv'
    BY <2>1, <2>2, <2>3, <2>4 DEF CodeInv
  <2>6. StoreInv'
    <3>1. RegistersOf(mode, setting)' = RegistersOf(mode, setting)
      BY <2>1, <2>3
    <3> QED
      BY <2>1, <2>2, <2>3, <2>4, <3>1 DEF StoreInv
  <2>7. UpdateInv'
    BY <2>1, <2>2, <2>3, <2>4 DEF UpdateInv
  <2>8. ShownInv' /\ DoneInv'
    BY <2>1, <2>2, <2>3, <2>4 DEF ReadInv, ShownInv, DoneInv
  <2>9. \A v, m : Fresh(v, m)' = Fresh(v, m)
    BY <2>3 DEF Fresh, Ago
  <2>10. FreshInv'
    <3>1. Loading /\ Loaded > 0 => Fresh(LoadFile, Loaded)'
      BY <2>2, <2>4, <2>9 DEF ReadInv, FreshInv
    <3>2. (pc = "wait" \/ Loading) /\ Second => Fresh(last, 7)'
      BY <2>1, <2>2, <2>9 DEF ReadInv, FreshInv
    <3> QED
      BY <2>1, <2>4, <3>1, <3>2 DEF FreshInv
  <2>11. WholeInv'
    BY <2>1, <2>2, <2>3, <2>4 DEF ReadInv, WholeInv, Whole, Ago
  <2>12. AgreeInv'
    BY <2>1, <2>2, <2>3, <2>4 DEF ReadInv, AgreeInv, Agrees
  <2> QED
    BY <2>3, <2>5, <2>6, <2>7, <2>8, <2>10, <2>11, <2>12 DEF IInv, ReadInv
<1> QED
  BY <1>1, <1>2, <1>3, <1>4, <1>5, <1>6, <1>7, <1>8, <1>9, <1>10, <1>11 DEF Next, InCall

(* The invariant holds of every behaviour.                                 *)
THEOREM Invariance == Spec => []IInv
BY InitInv, NextInv, PTL DEF Spec

(* What time_get returns the clock has shown since the call.               *)
THEOREM ReturnsShownTime == Spec => []GetReturnsShownTime
<1>1. IInv => GetReturnsShownTime
  BY DEF IInv, ReadInv, DoneInv, GetReturnsShownTime
<1> QED
  BY <1>1, Invariance, PTL

(* What time_set leaves in the registers is the instant it was given.      *)
THEOREM StoresTime == Spec => []SetStoresTime
<1>1. IInv => SetStoresTime
  <2> SUFFICES ASSUME IInv, pc = "idle", setting # << >>, ticks = ticks0
               PROVE  InstantOf(mode, reg) = setting
    BY DEF SetStoresTime
  <2>1. /\ setting \in Instant /\ mode \in Modes /\ mode.h24
        /\ \A k \in Field : reg[k] = RegistersOf(mode, setting)[k]
    BY DEF IInv, StoreInv, ChipInv
  <2>2. PICK r : r = RegistersOf(mode, setting)
    OBVIOUS
  <2>3. InstantOf(mode, r) = setting
    BY <2>1, <2>2, SettingLemma
  <2>4. /\ reg[1] = r[1] /\ reg[2] = r[2] /\ reg[3] = r[3] /\ reg[4] = r[4] /\ reg[5] = r[5]
        /\ reg[6] = r[6] /\ reg[7] = r[7]
    BY <2>1, <2>2 DEF Field
  <2>5. InstantOf(mode, reg) = InstantOf(mode, r)
    BY <2>4 DEF InstantOf, CENTURY
  <2> QED
    BY <2>3, <2>5
<1> QED
  BY <1>1, Invariance, PTL

-----------------------------------------------------------------------------
(* How many loads.                                                         *)

(* The byte of a year that can be read is a positive char, and stays one.  *)
LEMMA PositiveLemma ==
  ASSUME ChipInv, NEW b, Readable(b)
  PROVE  b \in 0 .. 127
<1>1. PICK v \in 0 .. 99 : b = ToByte(mode, v) /\ (mode.binary \/ v + MaxTicks - ticks < 80)
  BY DEF Readable
<1>2. ticks \in 0 .. MaxTicks /\ MaxTicks \in Nat /\ mode \in Modes
  BY RtcAssumption DEF ChipInv
<1>3. mode.binary \/ v < 80
  BY <1>1, <1>2
<1>4. ToByte(mode, v) < 128
  BY <1>2, <1>3, ReadableLemma
<1>5. ToByte(mode, v) \in 0 .. 255
  BY SMTT(30), <1>2, ByteLemma
<1> QED
  BY <1>1, <1>4, <1>5

LEMMA StaysReadableLemma ==
  ASSUME ChipInv, ticks' \in {ticks, ticks + 1}, mode' = mode, NEW b, Readable(b)
  PROVE  Readable(b)'
<1>1. PICK v \in 0 .. 99 : b = ToByte(mode, v) /\ (mode.binary \/ v + MaxTicks - ticks < 80)
  BY DEF Readable
<1>2. ticks \in Nat /\ MaxTicks \in Nat
  BY RtcAssumption DEF ChipInv
<1>3. CASE mode.binary
  BY <1>1, <1>3 DEF Readable
<1>4. CASE v + MaxTicks - ticks < 80
  <2>1. v + MaxTicks - ticks' < 80
    <3>1. PICK p \in Nat, q \in Nat, m \in Nat : p = ticks /\ q = ticks' /\ m = MaxTicks
      BY <1>2
    <3>2. q = p \/ q = p + 1
      BY <3>1
    <3>3. v + m - p < 80
      BY <1>4, <3>1
    <3>4. v + m - q < 80
      BY <3>2, <3>3
    <3> QED
      BY <3>1, <3>4
  <2> QED
    BY <1>1, <2>1 DEF Readable
<1> QED
  BY <1>1, <1>3, <1>4

(* No year that is read or written is beyond those.                        *)
LEMMA YearLemma ==
  ASSUME IInv, YearInv, [Next]_vars
  PROVE  YearInv'
<1>1. ChipInv /\ CodeInv /\ MaxTicks \in Nat /\ ticks \in 0 .. MaxTicks
  BY RtcAssumption DEF IInv, ChipInv
<1>2. NoBuf[6] = 0
  BY DEF NoBuf, REGISTER_COUNT
<1>3. buf \in [1 .. 6 -> Byte] /\ reg \in [Field -> Byte]
  BY <1>1 DEF CodeInv, ChipInv
<1>4. /\ mode.binary \/ \A t \in SetTimes : (t[6] % 100) + MaxTicks < 80
      /\ Readable(reg[6]) /\ (6 \in DOMAIN upd => Readable(upd[6]))
      /\ pc = "write" => Readable(buf[6])
      /\ buf[6] < 128
  BY DEF YearInv
<1>5. \A b : ticks' = ticks /\ mode' = mode => Readable(b)' = Readable(b)
  BY DEF Readable
<1>6. CASE UNCHANGED rtcVars /\ pc' # "write" /\ (buf' = buf \/ buf' = NoBuf)
  <2>1. /\ mode' = mode /\ reg' = reg /\ upd' = upd /\ ticks' = ticks
    BY <1>6 DEF rtcVars
  <2>2. buf'[6] < 128
    BY <1>2, <1>4, <1>6
  <2> QED
    BY <1>4, <1>5, <1>6, <2>1, <2>2 DEF YearInv
<1>7. CASE \E t \in SetTimes : CallSet(t)
  <2>1. PICK t \in SetTimes : CallSet(t)
    BY <1>7
  <2>2. t \in Instant
    BY TimeAssumption
  <2>3. /\ mode' = mode /\ reg' = reg /\ upd' = upd /\ ticks' = ticks
    BY <2>1 DEF CallSet, rtcVars
  <2>4. buf'[6] = RegistersOf(mode, t)[6]
    BY <2>1, <2>2, CallSetLemma
  <2>5. mode \in Modes /\ mode.h24
    BY <1>1 DEF ChipInv
  <2>6. RegistersOf(mode, t)[6] = ToByte(mode, t[6] % 100)
    BY <2>2, <2>5, SettingLemma
  <2>7. PICK v \in 0 .. 99 : v = t[6] % 100
    BY <2>2, DigitsLemma
  <2>8. mode.binary \/ v + MaxTicks - ticks < 80
    <3>1. mode.binary \/ v + MaxTicks < 80
      BY <1>4, <2>7
    <3> QED
      BY <1>1, <3>1
  <2>9. Readable(buf'[6])
    BY <2>4, <2>6, <2>7, <2>8 DEF Readable
  <2>10. buf'[6] < 128
    BY <1>1, <2>9, PositiveLemma
  <2>11. Readable(buf[6])'
    BY <2>3, <2>9 DEF Readable
  <2> QED
    BY <1>4, <1>5, <2>3, <2>10, <2>11 DEF YearInv
<1>8. CASE ReadRegister
  <2>1. /\ mode' = mode /\ reg' = reg /\ upd' = upd /\ ticks' = ticks
        /\ pc' # "write" /\ buf' = [buf EXCEPT ![i] = reg[i]]
    BY <1>8 DEF ReadRegister, rtcVars, get_RTC_register
  <2>2. reg[6] < 128
    BY <1>1, <1>4, PositiveLemma
  <2>3. buf'[6] < 128
    BY <1>3, <1>4, <2>1, <2>2
  <2> QED
    BY <1>4, <1>5, <2>1, <2>3 DEF YearInv
<1>9. CASE WriteRegister
  <2>1. /\ pc = "write" /\ reg' = [reg EXCEPT ![i] = buf[i]]
        /\ mode' = mode /\ upd' = upd /\ ticks' = ticks
        /\ (buf' = buf \/ (buf' = NoBuf /\ pc' # "write"))
    BY <1>9 DEF WriteRegister, set_RTC_register
  <2>2. reg'[6] = reg[6] \/ reg'[6] = buf[6]
    BY <1>3, <2>1 DEF Field
  <2>3. Readable(reg[6])'
    <3>1. PICK b : b = reg'[6] /\ Readable(b)
      BY <1>4, <2>1, <2>2
    <3>2. Readable(b)'
      BY <1>5, <2>1, <3>1
    <3> QED
      BY <2>1, <3>1, <3>2 DEF Readable
  <2>4. buf'[6] < 128
    BY <1>2, <1>4, <2>1
  <2> QED
    BY <1>4, <1>5, <2>1, <2>3, <2>4 DEF YearInv
<1>10. CASE WriteCentury
  <2>1. /\ pc' = "idle" /\ reg' = [reg EXCEPT ![7] = century]
        /\ mode' = mode /\ upd' = upd /\ ticks' = ticks /\ buf' = buf
    BY <1>10 DEF WriteCentury, set_RTC_register, CENTURY
  <2>2. reg'[6] = reg[6]
    BY <1>3, <2>1 DEF Field
  <2> QED
    BY <1>4, <1>5, <2>1, <2>2 DEF YearInv
<1>11. CASE ChipBegin
  <2>1. /\ UpdateBegin /\ mode' = mode /\ reg' = reg /\ upd' = UpdateOf(reg) /\ ticks' = ticks + 1
        /\ pc' = pc /\ buf' = buf
    BY <1>11 DEF ChipBegin, UpdateBegin, codeVars
  <2>2. \A b : Readable(b) => Readable(b)'
    BY <1>1, <2>1, StaysReadableLemma
  <2>3. 6 \in DOMAIN upd' => Readable(upd[6])'
    <3> HAVE 6 \in DOMAIN upd'
    <3>1. PICK v \in 0 .. 99 : upd'[6] = ToByte(mode, v) /\ v <= FromByte(mode, reg[6]) + 1
      BY <1>1, <2>1, UpdateLemma
    <3>2. PICK u \in 0 .. 99 : reg[6] = ToByte(mode, u) /\ (mode.binary \/ u + MaxTicks - ticks < 80)
      BY <1>4 DEF Readable
    <3>5. u \in 0 .. 159 /\ mode \in Modes
      BY <1>1 DEF ChipInv
    <3>3. FromByte(mode, reg[6]) = u
      BY <3>2, <3>5, ByteLemma
    <3>4. mode.binary \/ v + MaxTicks - (ticks + 1) < 80
      BY <1>1, <3>1, <3>2, <3>3
    <3> QED
      BY <2>1, <3>1, <3>4 DEF Readable
  <2> QED
    BY <1>4, <2>1, <2>2, <2>3 DEF YearInv
<1>12. CASE ChipStore
  <2>1. PICK k : StoreOf(k)
    BY <1>12 DEF ChipStore, UpdateStore, StoreOf
  <2>2. /\ k \in DOMAIN upd /\ reg' = [reg EXCEPT ![k] = upd[k]]
        /\ upd' = [j \in DOMAIN upd \ {k} |-> upd[j]]
        /\ mode' = mode /\ ticks' = ticks /\ pc' = pc /\ buf' = buf
    BY <1>12, <2>1 DEF StoreOf, ChipStore, codeVars
  <2>3. Readable(reg'[6])
    BY <1>3, <1>4, <2>2 DEF Field
  <2>4. Readable(reg[6])'
    BY <2>2, <2>3 DEF Readable
  <2>5. 6 \in DOMAIN upd' => Readable(upd'[6])
    BY <1>4, <2>2
  <2>6. 6 \in DOMAIN upd' => Readable(upd[6])'
    BY <2>2, <2>5 DEF Readable
  <2> QED
    BY <1>4, <1>5, <2>2, <2>4, <2>6 DEF YearInv
<1>13. CASE CallGet \/ WaitUpdate \/ ReadCentury \/ Compare \/ Convert
  <2>1. UNCHANGED rtcVars /\ pc' # "write" /\ (buf' = buf \/ buf' = NoBuf)
    BY <1>13 DEF CallGet, WaitUpdate, ReadCentury, Compare, Convert
  <2> QED
    BY <1>6, <2>1
<1>14. CASE UNCHANGED vars
  <2>1. mode' = mode /\ reg' = reg /\ upd' = upd /\ ticks' = ticks /\ pc' = pc /\ buf' = buf
    BY <1>14 DEF vars, rtcVars, codeVars
  <2> QED
    BY <1>4, <1>5, <2>1 DEF YearInv
<1> QED
  BY <1>7, <1>8, <1>9, <1>10, <1>11, <1>12, <1>13, <1>14 DEF Next, InCall

(* Two updates cost four loads more, and so on: each spoils one comparison *)
(* with the load before and one with the load after.                       *)
LEMMA CountLemma ==
  ASSUME IInv, YearInv, CountInv, [Next]_vars
  PROVE  CountInv'
<1>1. /\ ChipInv /\ CodeInv /\ ticks \in Nat /\ ticks0 \in 0 .. ticks /\ loads \in Nat
      /\ Updates \in Nat /\ reg \in [Field -> Byte] /\ buf \in [1 .. 6 -> Byte]
  BY RtcAssumption DEF IInv, ChipInv, CodeInv, LoadCap, Updates
<1>2. /\ pc = "wait" /\ ~Second => loads = 0
      /\ pc = "wait" /\ Second =>
           loads <= 2 * Updates \/ (Clean(last, 7) /\ loads <= 1 + 2 * Updates)
      /\ Loading =>
           \/ loads <= 2 * Updates
           \/ /\ Clean(LoadFile, Loaded)
              /\ \/ loads <= 1 + 2 * Updates
                 \/ Second /\ Clean(last, 7) /\ loads <= 2 + 2 * Updates
      /\ pc = "convert" => loads <= 2 + 2 * Updates
  BY DEF CountInv
<1>3. CASE CallGet
  BY <1>3 DEF CallGet, CountInv, Second, Loading
<1>4. CASE pc' \in {"idle", "write", "wcentury"}
  BY <1>4 DEF CountInv, Loading
<1>5. ASSUME UNCHANGED rtcVars, ticks0' = ticks0
      PROVE  /\ Updates' = Updates /\ Updating' = Updating /\ reg' = reg
             /\ \A v, m : Clean(v, m)' = Clean(v, m)
  BY <1>5 DEF rtcVars, Updates, Updating, get_update_in_progress_flag, Clean
<1>6. CASE WaitUpdate
  <2>1. /\ pc = "wait" /\ pc' = "read" /\ i' = 1 /\ ~Updating /\ UNCHANGED rtcVars
        /\ (loads' = loads + 1 \/ loads' = loads) /\ last' = last /\ ticks0' = ticks0
    BY <1>6 DEF WaitUpdate, SeesNoUpdate, Updating
  <2>2. /\ Updates' = Updates /\ Updating' = Updating /\ reg' = reg
        /\ \A v, m : Clean(v, m)' = Clean(v, m)
    BY <1>5, <2>1
  <2>3. Clean(LoadFile, Loaded)'
    BY <2>1, <2>2 DEF Clean, Loaded
  <2>4. Second' = Second
    BY <2>1 DEF Second
  <2>5. CASE loads = 0 \/ loads <= 2 * Updates
    <3>1. loads' <= 1 + 2 * Updates'
      BY <1>1, <2>1, <2>2, <2>5
    <3> QED
      BY <2>1, <2>3, <3>1 DEF CountInv
  <2>6. CASE Second /\ Clean(last, 7) /\ loads <= 1 + 2 * Updates
    <3>1. loads' <= 2 + 2 * Updates'
      BY <1>1, <2>1, <2>2, <2>6
    <3>2. Clean(last, 7)'
      BY <2>1, <2>2, <2>6 DEF Clean
    <3> QED
      BY <2>1, <2>3, <2>4, <2>6, <3>1, <3>2 DEF CountInv
  <2> QED
    BY <1>2, <2>1, <2>5, <2>6
<1>7. CASE ReadRegister \/ (ReadCentury /\ last # << >>)
  <2>1. /\ UNCHANGED rtcVars /\ UNCHANGED <<last, loads, ticks0>>
        /\ pc' \in {"read", "century", "compare"} /\ pc \in {"read", "century"}
    BY <1>7 DEF ReadRegister, ReadCentury, histVars
  <2>2. /\ Updates' = Updates /\ Updating' = Updating /\ reg' = reg
        /\ \A v, m : Clean(v, m)' = Clean(v, m)
    BY <1>5, <2>1
  <2>3. Clean(LoadFile, Loaded) => Clean(LoadFile, Loaded)'
    <3> HAVE Clean(LoadFile, Loaded)
    <3>1. PICK j \in 1 .. 7 : /\ Loaded = j - 1 /\ Loaded' = j
                              /\ \A k \in Field : LoadFile'[k] = IF k = j THEN reg[j] ELSE LoadFile[k]
      <4>1. CASE ReadRegister
        <5>1. PICK j \in 1 .. 6 : j = i
          BY <1>1 DEF CodeInv
        <5>2. /\ pc = "read" /\ buf' = [buf EXCEPT ![j] = reg[j]] /\ century' = century
              /\ (j < 6 /\ i' = j + 1 /\ pc' = pc) \/ (j = 6 /\ pc' = "century")
          BY <4>1, <5>1 DEF ReadRegister, get_RTC_register, REGISTER_COUNT
        <5>3. Loaded = j - 1 /\ Loaded' = j
          BY <5>1, <5>2 DEF Loaded
        <5>4. \A k \in Field : LoadFile'[k] = IF k = j THEN reg[j] ELSE LoadFile[k]
          BY <1>1, <5>2 DEF LoadFile, Load, Field
        <5>5. j \in 1 .. 7
          OBVIOUS
        <5> QED
          BY <5>3, <5>4, <5>5
      <4>2. CASE ReadCentury /\ last # << >>
        <5>1. pc = "century" /\ pc' = "compare" /\ century' = reg[7] /\ buf' = buf
          BY <4>2 DEF ReadCentury, get_RTC_register, CENTURY
        <5>2. Loaded = 6 /\ Loaded' = 7
          BY <5>1 DEF Loaded
        <5>3. \A k \in Field : LoadFile'[k] = IF k = 7 THEN reg[7] ELSE LoadFile[k]
          BY <5>1 DEF LoadFile, Load, Field
        <5> QED
          BY <5>2, <5>3
      <4> QED
        BY <1>7, <4>1, <4>2
    <3>2. \A k \in 1 .. j : LoadFile'[k] = reg[k]
      BY <3>1 DEF Clean, Field
    <3> QED
      BY <2>2, <3>1, <3>2 DEF Clean
  <2>4. Second => Clean(last, 7)' = Clean(last, 7)
    BY <2>1, <2>2 DEF Clean
  <2>5. Loading /\ Second' = Second
    BY <2>1 DEF Loading, Second
  <2> QED
    BY <1>2, <2>1, <2>2, <2>3, <2>4, <2>5 DEF CountInv
<1>8. CASE ReadCentury /\ last = << >>
  <2>1. /\ UNCHANGED rtcVars /\ UNCHANGED <<loads, ticks0>> /\ pc = "century" /\ pc' = "wait"
        /\ last' = Copies(reg[7])
    BY <1>8 DEF ReadCentury, get_RTC_register, CENTURY, histVars
  <2>2. /\ Updates' = Updates /\ Updating' = Updating /\ reg' = reg
        /\ \A v, m : Clean(v, m)' = Clean(v, m)
    BY <1>5, <2>1
  <2>3. reg[7] \in Byte /\ tm = [buf EXCEPT ![6] = SignExtend(@)]
    BY <1>1, <2>1 DEF CodeInv, Field
  <2>4. /\ last'[7] = reg[7] /\ last' # << >>
        /\ \A k \in 1 .. 6 : last'[k] = buf[k]
    BY <1>1, <2>1, <2>3, CopiesLemma
  <2>5. Clean(LoadFile, Loaded) => Clean(last, 7)'
    <3> HAVE Clean(LoadFile, Loaded)
    <3>1. ~Updating /\ \A k \in 1 .. 6 : buf[k] = reg[k]
      BY <2>1 DEF Clean, Loaded, LoadFile, Load, Field
    <3>2. \A k \in 1 .. 7 : last'[k] = reg[k]
      BY <2>4, <3>1
    <3> QED
      BY <2>2, <3>1, <3>2 DEF Clean
  <2>6. Loading /\ ~Second /\ Second'
    BY <1>8, <2>1, <2>4 DEF Loading, Second
  <2> QED
    BY <1>2, <2>1, <2>2, <2>5, <2>6 DEF CountInv, Loading
<1>9. CASE Compare
  <2>1. /\ UNCHANGED rtcVars /\ UNCHANGED <<loads, ticks0>> /\ pc = "compare"
        /\ \/ SameTwice /\ pc' = "convert"
           \/ ~SameTwice /\ pc' = "wait" /\ last' = Copies(century)
    BY <1>9 DEF Compare, histVars
  <2>2. /\ Updates' = Updates /\ Updating' = Updating /\ reg' = reg
        /\ \A v, m : Clean(v, m)' = Clean(v, m)
    BY <1>5, <2>1
  <2>3. Loading /\ Loaded = 7
    BY <2>1 DEF Loading, Loaded
  <2>4. CASE pc' = "convert"
    <3>1. loads <= 2 + 2 * Updates
      BY <1>1, <1>2, <2>3
    <3> QED
      BY <2>1, <2>2, <2>4, <3>1 DEF CountInv, Loading
  <2>5. CASE ~SameTwice /\ pc' = "wait" /\ last' = Copies(century)
    <3>1. century \in Byte /\ tm = [buf EXCEPT ![6] = SignExtend(@)] /\ last \in [Field -> Byte]
      BY <1>1, <2>1 DEF CodeInv
    <3>2. /\ last'[7] = century /\ last' # << >>
          /\ \A k \in 1 .. 6 : last'[k] = buf[k]
      BY <1>1, <2>5, <3>1, CopiesLemma
    <3>3. Clean(LoadFile, Loaded) => Clean(last, 7)'
      <4> HAVE Clean(LoadFile, Loaded)
      <4>1. /\ ~Updating /\ century = reg[7]
            /\ \A k \in 1 .. 6 : buf[k] = reg[k]
        BY <2>3 DEF Clean, LoadFile, Load, Field
      <4>2. \A k \in 1 .. 7 : last'[k] = reg[k]
        BY <3>2, <4>1
      <4> QED
        BY <2>2, <4>1, <4>2 DEF Clean
    <3>4. ~(Clean(LoadFile, Loaded) /\ Clean(last, 7))
      <4> SUFFICES ASSUME Clean(LoadFile, Loaded), Clean(last, 7) PROVE FALSE
        OBVIOUS
      <4>1. last[7] = century /\ \A k \in 1 .. 6 : last[k] = buf[k]
        BY <2>3 DEF Clean, LoadFile, Load, Field
      <4>2. tm = buf
        <5>1. buf[6] < 128
          BY DEF YearInv
        <5>2. SignExtend(buf[6]) = buf[6]
          BY <1>1, <5>1 DEF SignExtend, Byte
        <5> QED
          BY <1>1, <3>1, <5>2
      <4>3. /\ Append(buf, century) \in [Field -> Byte] /\ Append(buf, century)[7] = century
            /\ \A k \in 1 .. 6 : Append(buf, century)[k] = buf[k]
        BY SMTT(30), <1>1, <3>1, AppendLemma
      <4>4. PICK d : d = Append(buf, century)
        OBVIOUS
      <4>6. d \in [Field -> Byte] /\ \A k \in Field : last[k] = d[k]
        <5>1. d \in [Field -> Byte] /\ d[7] = century /\ \A k \in 1 .. 6 : d[k] = buf[k]
          BY <4>3, <4>4, Zenon
        <5>2. \A k \in Field : k = 7 \/ k \in 1 .. 6
          BY DEF Field
        <5> QED
          BY <4>1, <5>1, <5>2, Zenon
      <4>5. last = Append(buf, century)
        BY <3>1, <4>4, <4>6
      <4> QED
        BY <2>5, <4>2, <4>5 DEF SameTwice
    <3>5. loads <= 2 * Updates \/ (Clean(last, 7)' /\ loads <= 1 + 2 * Updates)
      BY <1>2, <2>3, <3>3, <3>4
    <3>6. Second'
      BY <3>2 DEF Second
    <3> QED
      BY <2>1, <2>2, <2>5, <3>5, <3>6 DEF CountInv, Loading
  <2> QED
    BY <2>1, <2>4, <2>5
<1>10. CASE ChipBegin
  <2>1. /\ ticks' = ticks + 1 /\ UNCHANGED <<pc, last, loads, ticks0>>
    BY <1>10 DEF ChipBegin, UpdateBegin, codeVars, histVars
  <2>2. Updates' = Updates + 1
    BY <1>1, <2>1 DEF Updates
  <2>3. pc \in {"wait", "convert"} \/ Loading => loads <= 2 + 2 * Updates
    BY <1>1, <1>2
  <2>4. pc \in {"wait", "convert"} \/ Loading => loads' <= 2 * Updates'
    BY <1>1, <2>1, <2>2, <2>3
  <2>5. 2 * Updates' <= 2 + 2 * Updates'
    BY <1>1, <2>2
  <2>6. Second' = Second /\ Loading' = Loading
    BY <2>1 DEF Second, Loading
  <2>7. pc = "convert" => loads' <= 2 + 2 * Updates'
    BY <1>1, <2>1, <2>2, <2>4
  <2> QED
    BY <1>2, <2>1, <2>4, <2>6, <2>7 DEF CountInv
<1>11. CASE ChipStore
  <2>1. /\ ticks' = ticks /\ UNCHANGED <<pc, last, loads, ticks0>> /\ Updating
    BY <1>11 DEF ChipStore, UpdateStore, codeVars, Updating, get_update_in_progress_flag
  <2>2. Updates' = Updates /\ Second' = Second /\ Loading' = Loading
    BY <2>1 DEF Updates, Second, Loading
  <2>3. (pc = "wait" /\ Second) \/ Loading => loads <= 2 * Updates
    BY <1>2, <2>1 DEF Clean
  <2> QED
    BY <1>2, <2>1, <2>2, <2>3 DEF CountInv
<1>12. CASE UNCHANGED vars
  <2>1. /\ UNCHANGED rtcVars /\ UNCHANGED <<pc, buf, i, century, last, loads, ticks0>>
    BY <1>12 DEF vars, codeVars, histVars
  <2>2. /\ Updates' = Updates /\ Updating' = Updating /\ reg' = reg
    BY <1>5, <2>1
  <2>3. /\ Second' = Second /\ Loading' = Loading /\ Loaded' = Loaded /\ LoadFile' = LoadFile
    BY <2>1 DEF Second, Loading, Loaded, LoadFile, Load
  <2>4. Clean(last, 7)' = Clean(last, 7) /\ Clean(LoadFile, Loaded)' = Clean(LoadFile, Loaded)
    BY <2>1, <2>2, <2>3 DEF Clean
  <2> QED
    BY <1>2, <2>1, <2>2, <2>3, <2>4 DEF CountInv
<1>13. CASE (\E t \in SetTimes : CallSet(t)) \/ Convert
  <2>1. pc' \in {"idle", "write"}
    BY <1>13 DEF CallSet, Convert
  <2> QED
    BY <1>4, <2>1
<1>14. CASE WriteRegister \/ WriteCentury
  <2>1. pc' \in {"idle", "write", "wcentury"}
    BY <1>14 DEF WriteRegister, WriteCentury
  <2> QED
    BY <1>4, <2>1
<1> QED
  BY <1>3, <1>6, <1>7, <1>8, <1>9, <1>10, <1>11, <1>12, <1>13, <1>14 DEF Next, InCall

(* The state is well typed. *)
LEMMA TypeLemma ==
  ASSUME IInv
  PROVE  TypeOK
<1>1. ChipInv /\ CodeInv /\ RtcAssumption
  BY RtcAssumption DEF IInv
<1>2. reg \in [1 .. 7 -> Byte] /\ mode \in Modes /\ ticks \in 0 .. MaxTicks
  BY <1>1 DEF ChipInv, Field
<1>3. DOMAIN upd \subseteq 1 .. 7 /\ \A k \in DOMAIN upd : upd[k] \in Byte
  <2>1. \A k \in DOMAIN upd : k \in Field /\ Coded(k, upd[k])
    BY <1>1 DEF ChipInv
  <2>2. \A k \in DOMAIN upd : upd[k] \in Byte
    BY <1>1, <2>1, CodedLemma
  <2> QED
    BY <2>1, <2>2 DEF Field
<1>4. ticks0 \in -1 .. MaxTicks
  <2>1. ticks \in 0 .. MaxTicks /\ ticks0 \in 0 .. ticks /\ MaxTicks \in Nat
    BY <1>1 DEF RtcAssumption, ChipInv, CodeInv
  <2> QED
    BY <2>1
<1>5. DOMAIN tm = 1 .. 6 /\ tm[6] \in -128 .. 255 /\ \A k \in 1 .. 5 : tm[k] \in Byte
  BY <1>1 DEF CodeInv
<1>6. Len(last) \in {0, 7}
  <2>1. CASE last = << >>
    BY <2>1
  <2>2. CASE last \in [Field -> Byte]
    <3>1. last \in [1 .. 7 -> Byte]
      BY <2>2 DEF Field
    <3>2. last \in Seq(Byte)
      BY <3>1, SeqDef
    <3>3. Len(last) \in Nat /\ DOMAIN last = 1 .. Len(last) /\ DOMAIN last = 1 .. 7
      BY <3>1, <3>2, LenProperties
    <3>4. PICK n \in Nat : n = Len(last) /\ 1 .. n = 1 .. 7
      BY <3>3
    <3>5. 7 \in 1 .. n /\ (n > 0 => n \in 1 .. 7)
      BY <3>4
    <3>6. n = 7
      BY <3>5
    <3> QED
      BY <3>4, <3>6
  <2> QED
    BY <1>1, <2>1, <2>2 DEF CodeInv
<1>7. /\ pc \in {"idle", "wait", "read", "century", "compare", "convert", "write", "wcentury"}
      /\ ints = (pc \notin {"read", "write"})
      /\ buf \in [1 .. 6 -> Byte] /\ i \in 1 .. 6 /\ century \in Byte /\ loads \in 0 .. LoadCap
  BY <1>1 DEF CodeInv
<1> QED
  BY <1>2, <1>3, <1>4, <1>5, <1>6, <1>7 DEF TypeOK, REGISTER_COUNT

(* Where the years can be read, a time_get that u updates meet makes no    *)
(* more than 2 + 2u loads.                                                 *)
THEOREM LoadsBounded == Spec => []FewLoads
<1>1. Init => YearInv /\ CountInv
  <2> SUFFICES ASSUME Init PROVE YearInv /\ CountInv
    OBVIOUS
  <2>1. PICK b \in Boots : mode = b[1] /\ reg = RegistersOf(mode, b[2])
    BY DEF Init, RtcInit
  <2>2. mode \in Modes /\ mode.h24 /\ b[2] \in Instant /\ MaxTicks \in Nat
    BY <2>1, RtcAssumption, TimeAssumption
  <2>3. mode.binary \/ \A t \in SetTimes \cup {b[2]} : (t[6] % 100) + MaxTicks < 80
    BY <2>1, YearsReadable
  <2>4. PICK t \in Instant : t = b[2]
    BY <2>2
  <2>5. PICK v \in 0 .. 99 : v = t[6] % 100
    BY DigitsLemma
  <2>6. RegistersOf(mode, t)[6] = ToByte(mode, t[6] % 100)
    BY <2>2, SettingLemma
  <2>7. DOMAIN upd = {} /\ ticks = 0 /\ pc = "idle" /\ buf = NoBuf
    BY DEF Init, RtcInit
  <2>8. Readable(reg[6])
    <3>1. reg[6] = ToByte(mode, v)
      BY <2>1, <2>4, <2>5, <2>6
    <3>2. mode.binary \/ v + MaxTicks < 80
      BY <2>3, <2>4, <2>5
    <3>3. mode.binary \/ v + MaxTicks - ticks < 80
      BY <2>2, <2>7, <3>2
    <3> QED
      BY <3>1, <3>3 DEF Readable
  <2>9. NoBuf[6] = 0
    BY DEF NoBuf, REGISTER_COUNT
  <2>10. mode.binary \/ \A sec \in SetTimes : (sec[6] % 100) + MaxTicks < 80
    BY <2>3
  <2> QED
    BY <2>7, <2>8, <2>9, <2>10 DEF YearInv, CountInv, Loading
<1>2. IInv /\ YearInv /\ CountInv /\ [Next]_vars => YearInv' /\ CountInv'
  BY YearLemma, CountLemma
<1>3. IInv /\ YearInv /\ CountInv => FewLoads
  <2> SUFFICES ASSUME IInv, CountInv PROVE FewLoads
    OBVIOUS
  <2>1. /\ ticks \in Nat /\ ticks0 \in 0 .. ticks /\ loads \in Nat /\ Finished \in Nat
        /\ Finished + 1 >= ticks /\ CodeInv
    BY RtcAssumption, FinishedLemma DEF IInv, ChipInv, CodeInv, LoadCap
  <2>2. CASE Getting
    <3>1. loads <= 2 + 2 * Updates
      BY <2>1, <2>2 DEF CountInv, Getting, Loading, Updates
    <3>2. 2 + 2 * Updates <= 2 + 2 * (Finished + 1 - ticks0)
      BY <2>1 DEF Updates
    <3>3. loads <= 2 + 2 * (Finished + 1 - ticks0)
      BY <2>1, <3>1, <3>2 DEF Updates
    <3> QED
      BY <3>3, TypeLemma DEF FewLoads
  <2>3. CASE Setting
    <3>1. loads = 0 /\ ticks0 <= Finished
      BY <2>1, <2>3 DEF CodeInv
    <3>2. loads <= 2 + 2 * (Finished + 1 - ticks0)
      BY <2>1, <3>1
    <3> QED
      BY <3>2, TypeLemma DEF FewLoads
  <2>4. CASE pc = "idle"
    BY <2>4, TypeLemma DEF FewLoads
  <2>5. Getting \/ Setting \/ pc = "idle"
    BY <2>1 DEF CodeInv, Getting, Setting
  <2> QED
    BY <2>2, <2>3, <2>4, <2>5
<1> QED
  BY <1>1, <1>2, <1>3, Invariance, PTL DEF Spec

-----------------------------------------------------------------------------
(* time_sleep.  get_seconds makes its sums modulo 2^32, with months of 30  *)
(* days; the proof counts the seconds in a pair of days and seconds of the *)
(* day, and shows that each second on the clock is one more in the count.  *)

(* Amounts of seconds as numbers. *)
Amount == { a \in Nat \X Nat : a[2] < 86400 }
Count(a) == a[1] * 86400 + a[2]
Two32 == 4294967296

(* The constants of the sums, in seconds.                                  *)
LEMMA DayLemma == DAY = 86400
BY SMT DEF DAY

(* A number of seconds in whole days.                                      *)
LEMMA DivLemma ==
  ASSUME NEW x \in Int
  PROVE  /\ x \div 86400 \in Int /\ x % 86400 \in Nat /\ x % 86400 < 86400
         /\ x = (x \div 86400) * 86400 + (x % 86400)
BY SMT

(* A pair of days and seconds that is normal counts them.                  *)
LEMMA PairLemma ==
  ASSUME NEW d \in Int, NEW x \in Int, d * 86400 + x >= 0
  PROVE  Pair(d, x) \in Amount /\ Count(Pair(d, x)) = d * 86400 + x
<1>1. PICK q, m : q = x \div 86400 /\ m = x % 86400
  OBVIOUS
<1>2. q \in Int /\ m \in Nat /\ m < 86400 /\ x = q * 86400 + m
  BY SMT, <1>1, DivLemma
<1>3. Pair(d, x) = <<d + q, m>>
  BY SMT, <1>1, DayLemma DEF Pair
<1>4. (d + q) * 86400 + m = d * 86400 + x
  BY SMT, <1>2
<1>5. d + q \in Nat
  BY SMT, <1>2, <1>4
<1> QED
  BY SMT, <1>2, <1>3, <1>4, <1>5 DEF Amount, Count

(* The order of amounts is that of their counts, which determine them.     *)
LEMMA LessLemma ==
  ASSUME NEW a \in Amount, NEW b \in Amount
  PROVE  /\ Count(a) \in Nat
         /\ Less(a, b) <=> Count(a) < Count(b)
<1>1. PICK a1 \in Nat, a2 \in Nat, b1 \in Nat, b2 \in Nat :
        a = <<a1, a2>> /\ b = <<b1, b2>> /\ a2 < 86400 /\ b2 < 86400
  BY SMT DEF Amount
<1>2. Count(a) = a1 * 86400 + a2 /\ Count(b) = b1 * 86400 + b2
  BY SMT, <1>1 DEF Count
<1>3. Less(a, b) <=> a1 < b1 \/ (a1 = b1 /\ a2 < b2)
  BY SMT, <1>1 DEF Less
<1>4. (a1 < b1 \/ (a1 = b1 /\ a2 < b2)) <=> a1 * 86400 + a2 < b1 * 86400 + b2
  BY SMT, <1>1
<1>5. a1 * 86400 + a2 \in Nat
  BY SMT
<1> QED
  BY SMT, <1>2, <1>3, <1>4, <1>5

(* Multiples of 2^32. *)
LEMMA TimesLemma ==
  ASSUME NEW k \in Nat
  PROVE  Times2To32(k) \in Amount /\ Count(Times2To32(k)) = k * Two32
<1>1. PICK d \in Int, x \in Int : d = 49710 * k /\ x = 23296 * k
  BY SMT
<1>2. d * 86400 + x = k * Two32 /\ d * 86400 + x >= 0
  BY SMT, <1>1 DEF Two32
<1>3. Times2To32(k) = Pair(d, x)
  BY SMT, <1>1 DEF Times2To32
<1> QED
  BY SMT, <1>2, <1>3, PairLemma

(* A sum in a u32 is the remainder of division by 2^32.                    *)
LEMMA WrapLemma ==
  ASSUME NEW a \in Amount
  PROVE  Wrap32(a) \in Amount /\ Count(Wrap32(a)) = Count(a) % Two32
<1> DEFINE P(n) == ~Less(a, Times2To32(n)) /\ Less(a, Times2To32(n + 1))
           K == 0 .. a[1] \div 49710
           k == CHOOSE n \in K : P(n)
<1>1. PICK a1 \in Nat, a2 \in Nat : a = <<a1, a2>> /\ a2 < 86400
  BY SMT DEF Amount
<1>2. PICK c \in Nat : c = Count(a) /\ c = a1 * 86400 + a2
  BY SMT, <1>1 DEF Count
<1>3. \A n \in Nat : P(n) <=> n * Two32 <= c /\ c < (n + 1) * Two32
  <2> SUFFICES ASSUME NEW n \in Nat
               PROVE  P(n) <=> n * Two32 <= c /\ c < (n + 1) * Two32
    OBVIOUS
  <2>1. PICK x \in Int, y \in Int : x = n * Two32 /\ y = (n + 1) * Two32
    BY SMT DEF Two32
  <2>2. PICK m \in Nat : m = n + 1
    BY SMT
  <2>3. PICK u, v : u = Times2To32(n) /\ v = Times2To32(m)
    OBVIOUS
  <2>4. u \in Amount /\ Count(u) = x /\ v \in Amount /\ Count(v) = y
    BY SMT, <2>1, <2>2, <2>3, TimesLemma
  <2>5. c = Count(a)
    BY <1>2
  <2>6. (Less(a, u) <=> c < x) /\ (Less(a, v) <=> c < y)
    BY SMT, <2>4, <2>5, LessLemma
  <2>7. P(n) <=> x <= c /\ c < y
    BY SMT, <2>1, <2>2, <2>3, <2>6
  <2> QED
    BY SMT, <2>1, <2>7
<1>4. PICK q \in Nat : q * Two32 <= c /\ c < (q + 1) * Two32 /\ c % Two32 = c - q * Two32
  <2>1. PICK q : q = c \div Two32
    OBVIOUS
  <2>2. q \in Nat /\ q * Two32 <= c /\ c < (q + 1) * Two32 /\ c % Two32 = c - q * Two32
    BY SMT, <2>1 DEF Two32
  <2> QED
    BY Zenon, <2>2
<1>5. q * 49710 <= a1
  BY SMT, <1>1, <1>2, <1>4 DEF Two32
<1>6. q \in 0 .. a1 \div 49710
  BY SMT, <1>5
<1>7. q \in K /\ P(q) /\ K \subseteq Nat
  BY SMT, <1>1, <1>3, <1>4, <1>6
<1> HIDE DEF P, K
<1>8. k \in K /\ P(k)
  BY Zenon, <1>7
<1> HIDE DEF k
<1>9. k \in Nat /\ k * Two32 <= c /\ c < (k + 1) * Two32
  BY Zenon, <1>3, <1>7, <1>8
<1>10. k = q
  BY SMT, <1>4, <1>9 DEF Two32
<1> DEFINE t == Times2To32(k)
<1>11. PICK t1 \in Nat, t2 \in Nat : t = <<t1, t2>> /\ t1 * 86400 + t2 = k * Two32
  <2>1. t \in Amount /\ Count(t) = k * Two32
    BY Zenon, <1>9, TimesLemma
  <2> HIDE DEF t
  <2> QED
    BY SMT, <2>1 DEF Amount, Count
<1>12. Wrap32(a) = Minus(a, t)
  BY SMT DEF Wrap32, t, k, K, P
<1> HIDE DEF t
<1>13. Minus(a, t) = Pair(a1 - t1, a2 - t2)
  BY SMT, <1>1, <1>11 DEF Minus
<1>14. PICK d \in Int, x \in Int : d = a1 - t1 /\ x = a2 - t2
  BY SMT
<1>15. d * 86400 + x = c - k * Two32
  BY SMT, <1>2, <1>9, <1>11, <1>14 DEF Two32
<1>16. d * 86400 + x >= 0
  BY SMT, <1>9, <1>15 DEF Two32
<1>17. Pair(d, x) \in Amount /\ Count(Pair(d, x)) = d * 86400 + x
  BY SMT, <1>16, PairLemma
<1>18. Wrap32(a) = Pair(d, x)
  BY SMT, <1>12, <1>13, <1>14
<1>19. Count(a) % Two32 = d * 86400 + x
  BY SMT, <1>2, <1>4, <1>10, <1>15 DEF Two32
<1> QED
  BY SMT, <1>17, <1>18, <1>19

-----------------------------------------------------------------------------
(* The days and the seconds of the day that get_seconds adds up.           *)
Days(t) == t[4] + t[5] * 30 + t[6] * 365
Raw(t)  == Days(t) * 86400 + SecondOfDay(t)

Years == 0 .. 9999

(* The fields of a date, and what NextSecond makes of them.                *)
LEMMA DateLemma ==
  ASSUME NEW t, IsDate(t)
  PROVE  /\ t[1] \in Nat /\ t[1] <= 59 /\ t[2] \in Nat /\ t[2] <= 59
         /\ t[3] \in Nat /\ t[3] <= 23 /\ t[4] \in Nat /\ t[4] >= 1 /\ t[4] <= 31
         /\ t[5] \in Nat /\ t[5] >= 1 /\ t[5] <= 12 /\ t[6] \in Nat
         /\ t[6] \in Years /\ t[4] <= DaysInMonth(t[5], t[6])
<1>1. t \in (0 .. 59) \X (0 .. 59) \X (0 .. 23) \X (1 .. 31) \X (1 .. 12) \X Years
  BY SMTT(20) DEF IsDate, Instant, Years
<1>2. Years \subseteq Nat
  BY SMT DEF Years
<1>3. t[4] <= DaysInMonth(t[5], t[6])
  BY Zenon DEF IsDate
<1>4. /\ t[1] \in 0 .. 59 /\ t[2] \in 0 .. 59 /\ t[3] \in 0 .. 23
      /\ t[4] \in 1 .. 31 /\ t[5] \in 1 .. 12 /\ t[6] \in Years
      /\ t = <<t[1], t[2], t[3], t[4], t[5], t[6]>>
  BY SMT, <1>1
<1>5. t[1] \in Nat /\ t[1] <= 59 /\ t[2] \in Nat /\ t[2] <= 59
  BY SMT, <1>4
<1>6. t[3] \in Nat /\ t[3] <= 23 /\ t[4] \in Nat /\ t[4] >= 1 /\ t[4] <= 31
  BY SMT, <1>4
<1>7. t[5] \in Nat /\ t[5] >= 1 /\ t[5] <= 12 /\ t[6] \in Nat
  BY SMT, <1>2, <1>4
<1> QED
  BY <1>3, <1>4, <1>5, <1>6, <1>7

(* What the fields of a date make.                                         *)
LEMMA MakeDateLemma ==
  ASSUME NEW a \in 0 .. 59, NEW b \in 0 .. 59, NEW c \in 0 .. 23, NEW d \in 1 .. 31,
         NEW m \in 1 .. 12, NEW y \in Years, d <= DaysInMonth(m, y)
  PROVE  IsDate(<<a, b, c, d, m, y>>)
<1> DEFINE t == <<a, b, c, d, m, y>>
<1>1. t \in (0 .. 59) \X (0 .. 59) \X (0 .. 23) \X (1 .. 31) \X (1 .. 12) \X Years
  BY SMT
<1>2. t[4] = d /\ t[5] = m /\ t[6] = y
  BY SMT
<1> HIDE DEF t
<1>3. t \in Instant
  BY SMTT(20), <1>1 DEF Instant, Years
<1>4. t[4] <= DaysInMonth(t[5], t[6])
  BY Zenon, <1>2
<1> QED
  BY Zenon, <1>3, <1>4 DEF IsDate, t

(* The months.                                                             *)
LEMMA MonthLemma ==
  ASSUME NEW m, NEW y
  PROVE  /\ DaysInMonth(m, y) \in 28 .. 31
         /\ DaysInMonth(m, y) = 30 => m \in {4, 6, 9, 11}
BY SMT DEF DaysInMonth

(* What get_seconds returns: the count of the date, modulo 2^32.           *)
LEMMA SecondsLemma ==
  ASSUME NEW t, IsDate(t)
  PROVE  /\ SecondOfDay(t) \in Nat /\ SecondOfDay(t) < 86400
         /\ Days(t) \in Nat /\ Raw(t) \in Nat
         /\ get_seconds(t) \in Amount
         /\ Count(get_seconds(t)) = Raw(t) % Two32
<1>1. SecondOfDay(t) \in Nat /\ SecondOfDay(t) < 86400
  BY SMT, DateLemma DEF SecondOfDay
<1>2. Days(t) \in Nat
  BY SMT, DateLemma DEF Days
<1>3. PICK d, x : d = Days(t) /\ x = SecondOfDay(t)
  OBVIOUS
<1>4. d \in Int /\ x \in Int /\ d * 86400 + x >= 0 /\ d * 86400 + x \in Nat
  BY SMT, <1>1, <1>2, <1>3
<1>5. PICK p : p = Pair(d, x)
  OBVIOUS
<1>6. p \in Amount /\ Count(p) = d * 86400 + x
  BY SMT, <1>4, <1>5, PairLemma
<1>7. Raw(t) = d * 86400 + x
  BY SMT, <1>3 DEF Raw
<1>8. get_seconds(t) = Wrap32(p)
  BY SMT, <1>3, <1>5 DEF get_seconds, Days, SecondOfDay
<1>9. Wrap32(p) \in Amount /\ Count(Wrap32(p)) = Count(p) % Two32
  BY SMT, <1>6, WrapLemma
<1> QED
  BY SMT, <1>1, <1>2, <1>4, <1>6, <1>7, <1>8, <1>9

(* The same, without the sums.                                             *)
LEMMA SleepCountLemma ==
  ASSUME NEW t, IsDate(t)
  PROVE  /\ Raw(t) \in Nat /\ get_seconds(t) \in Amount
         /\ Count(get_seconds(t)) = Raw(t) % Two32
BY SMT, SecondsLemma

(* What the next second of an ordinary call brings. *)
Goes(t, n, u) == IsDate(u) /\ Raw(u) = Raw(t) + 1 /\ Quiet(u, n - 1)

(* The call as numbers. *)
Clock(a, b, c) == a + b * 60 + c * 3600
Fields(t, a, b, c, d, m, y, z, n) ==
  /\ t[1] = a /\ t[2] = b /\ t[3] = c /\ t[4] = d /\ t[5] = m /\ t[6] = y
  /\ a \in Nat /\ a <= 59 /\ b \in Nat /\ b <= 59 /\ c \in Nat /\ c <= 23
  /\ d \in 1 .. 31 /\ m \in 1 .. 12 /\ y \in Years /\ y \in Nat
  /\ z = DaysInMonth(m, y) /\ z \in 28 .. 31 /\ d <= z /\ (z = 30 => m \in {4, 6, 9, 11})
  /\ n \in Nat /\ n >= 1
  /\ Clock(a, b, c) + n < 86400 \/ ((d < z \/ z = 30) /\ n <= 86400)

(* Another time of the same day. *)
LEMMA SameDayLemma ==
  ASSUME NEW t, NEW a, NEW b, NEW c, NEW d, NEW m, NEW y, NEW z, NEW n,
         Fields(t, a, b, c, d, m, y, z, n),
         NEW e \in 0 .. 59, NEW f \in 0 .. 59, NEW g \in 0 .. 23,
         Clock(e, f, g) = Clock(a, b, c) + 1
  PROVE  Goes(t, n, <<e, f, g, d, m, y>>)
<1> DEFINE u == <<e, f, g, d, m, y>>
<1>1. u[1] = e /\ u[2] = f /\ u[3] = g /\ u[4] = d /\ u[5] = m /\ u[6] = y
  BY SMT
<1>2. d \in 1 .. 31 /\ m \in 1 .. 12 /\ y \in Years
  BY SMT DEF Fields
<1>3. d <= DaysInMonth(m, y)
  BY SMT DEF Fields
<1>4. IsDate(u)
  BY Zenon, <1>2, <1>3, MakeDateLemma
<1> HIDE DEF u
<1>5. /\ a \in Nat /\ b \in Nat /\ c \in Nat /\ d \in Nat /\ m \in Nat /\ y \in Nat
      /\ e \in Nat /\ f \in Nat /\ g \in Nat /\ n \in Nat
      /\ t[1] = a /\ t[2] = b /\ t[3] = c /\ t[4] = d /\ t[5] = m /\ t[6] = y
  BY SMT DEF Fields
<1>6. PICK r \in Int : r = (d + m * 30 + y * 365) * 86400
  BY SMT, <1>5
<1>7. SecondOfDay(u) = Clock(e, f, g) /\ SecondOfDay(t) = Clock(a, b, c)
  BY SMT, <1>1, <1>5 DEF SecondOfDay, Clock
<1>8. /\ Raw(u) = r + Clock(e, f, g) /\ Raw(t) = r + Clock(a, b, c)
      /\ Clock(a, b, c) \in Nat
  <2>1. Days(u) * 86400 = r /\ Days(t) * 86400 = r
    BY SMT, <1>1, <1>5, <1>6 DEF Days
  <2>2. Clock(a, b, c) \in Nat
    BY SMT, <1>5 DEF Clock
  <2> QED
    BY SMT, <1>7, <2>1, <2>2 DEF Raw
<1>9. Raw(u) = Raw(t) + 1
  BY SMT, <1>6, <1>7, <1>8
<1>10. SecondOfDay(u) + (n - 1) < 86400 \/ ((d < z \/ z = 30) /\ n - 1 <= 86400)
  BY SMT, <1>5, <1>7, <1>8 DEF Fields
<1>11. Quiet(u, n - 1)
  BY SMT, <1>1, <1>10, DayLemma DEF Quiet, Regular, Fields
<1> QED
  BY SMT, <1>4, <1>9, <1>11 DEF Goes, u

(* Midnight. *)
LEMMA MidnightLemma ==
  ASSUME NEW t, NEW a, NEW b, NEW c, NEW d, NEW m, NEW y, NEW z, NEW n,
         Fields(t, a, b, c, d, m, y, z, n), a = 59, b = 59, c = 23,
         NEW e \in 1 .. 31, NEW l \in 1 .. 12,
         e + l * 30 = d + m * 30 + 1, e <= DaysInMonth(l, y)
  PROVE  Goes(t, n, <<0, 0, 0, e, l, y>>)
<1> DEFINE u == <<0, 0, 0, e, l, y>>
<1>1. u[1] = 0 /\ u[2] = 0 /\ u[3] = 0 /\ u[4] = e /\ u[5] = l /\ u[6] = y
  BY SMT
<1>2. y \in Years
  BY SMT DEF Fields
<1>3. 0 \in 0 .. 59 /\ 0 \in 0 .. 23
  BY SMT
<1>4. IsDate(u)
  BY Zenon, <1>2, <1>3, MakeDateLemma
<1> HIDE DEF u
<1>5. /\ a \in Nat /\ b \in Nat /\ c \in Nat /\ d \in Nat /\ m \in Nat /\ y \in Nat
      /\ e \in Nat /\ l \in Nat /\ n \in Nat
      /\ t[1] = a /\ t[2] = b /\ t[3] = c /\ t[4] = d /\ t[5] = m /\ t[6] = y
  BY SMT DEF Fields
<1>6. Clock(0, 0, 0) = 0 /\ Clock(a, b, c) = 86399
  BY SMT DEF Clock
<1>7. SecondOfDay(u) = Clock(0, 0, 0) /\ SecondOfDay(t) = Clock(a, b, c)
  BY SMT, <1>1, <1>5 DEF SecondOfDay, Clock
<1>8. Days(u) = Days(t) + 1 /\ Days(t) \in Nat
  BY SMT, <1>1, <1>5 DEF Days
<1>9. Raw(u) = Raw(t) + 1
  BY SMT, <1>6, <1>7, <1>8 DEF Raw
<1>10. Quiet(u, n - 1)
  BY SMT, <1>5, <1>6, <1>7, DayLemma DEF Quiet, Fields
<1> QED
  BY SMT, <1>4, <1>9, <1>10 DEF Goes, u

(* Over the rest of an ordinary call, one second more on the clock is one  *)
(* second more in the count.                                               *)
LEMMA NextLemma ==
  ASSUME NEW t, IsDate(t), NEW n \in Nat, n >= 1, Quiet(t, n)
  PROVE  Goes(t, n, NextSecond(t))
<1>1. PICK a, b, c, d, m, y :
        a = t[1] /\ b = t[2] /\ c = t[3] /\ d = t[4] /\ m = t[5] /\ y = t[6]
  OBVIOUS
<1>2. PICK z : z = DaysInMonth(m, y)
  OBVIOUS
<1>3. /\ a \in Nat /\ a <= 59 /\ b \in Nat /\ b <= 59 /\ c \in Nat /\ c <= 23
      /\ d \in 1 .. 31 /\ m \in 1 .. 12 /\ y \in Years /\ y \in Nat
      /\ d <= z
  BY SMT, <1>1, <1>2, DateLemma
<1>4. z \in 28 .. 31 /\ (z = 30 => m \in {4, 6, 9, 11})
  BY SMT, <1>2, MonthLemma
<1>5. SecondOfDay(t) = Clock(a, b, c)
  BY SMT, <1>1, <1>3 DEF SecondOfDay, Clock
<1>6. Clock(a, b, c) + n < 86400 \/ ((d < z \/ z = 30) /\ n <= 86400)
  BY SMT, <1>1, <1>2, <1>5, DayLemma DEF Quiet, Regular
<1>7. Fields(t, a, b, c, d, m, y, z, n)
  BY SMT, <1>1, <1>2, <1>3, <1>4, <1>6 DEF Fields
<1>9. CASE a < 59
  <2>1. NextSecond(t) = <<a + 1, b, c, d, m, y>>
    BY SMT, <1>1, <1>3, <1>9 DEF NextSecond
  <2>2. PICK e \in 0 .. 59 : e = a + 1
    BY SMT, <1>3, <1>9
  <2>3. b \in 0 .. 59 /\ c \in 0 .. 23 /\ Clock(e, b, c) = Clock(a, b, c) + 1
    BY SMT, <1>3, <2>2 DEF Clock
  <2> QED
    BY Zenon, <1>7, <2>1, <2>2, <2>3, SameDayLemma
<1>10. CASE a = 59 /\ b < 59
  <2>1. NextSecond(t) = <<0, b + 1, c, d, m, y>>
    BY SMT, <1>1, <1>3, <1>10 DEF NextSecond
  <2>2. PICK f \in 0 .. 59 : f = b + 1
    BY SMT, <1>3, <1>10
  <2>3. 0 \in 0 .. 59 /\ c \in 0 .. 23 /\ Clock(0, f, c) = Clock(a, b, c) + 1
    BY SMT, <1>3, <1>10, <2>2 DEF Clock
  <2> QED
    BY Zenon, <1>7, <2>1, <2>2, <2>3, SameDayLemma
<1>11. CASE a = 59 /\ b = 59 /\ c < 23
  <2>1. NextSecond(t) = <<0, 0, c + 1, d, m, y>>
    BY SMT, <1>1, <1>3, <1>11 DEF NextSecond
  <2>2. PICK g \in 0 .. 23 : g = c + 1
    BY SMT, <1>3, <1>11
  <2>3. 0 \in 0 .. 59 /\ Clock(0, 0, g) = Clock(a, b, c) + 1
    BY SMT, <1>3, <1>11, <2>2 DEF Clock
  <2> QED
    BY Zenon, <1>7, <2>1, <2>2, <2>3, SameDayLemma
<1>12. CASE a = 59 /\ b = 59 /\ c = 23
  <2>1. d < z \/ (d = 30 /\ z = 30)
    BY SMT, <1>3, <1>4, <1>6, <1>12 DEF Clock
  <2>2. CASE d < z
    <3>1. NextSecond(t) = <<0, 0, 0, d + 1, m, y>>
      BY SMT, <1>1, <1>2, <1>3, <1>4, <1>12, <2>2 DEF NextSecond
    <3>2. PICK e \in 1 .. 31 : e = d + 1
      BY SMT, <1>3, <1>4, <2>2
    <3>3. m \in 1 .. 12 /\ e + m * 30 = d + m * 30 + 1 /\ e <= DaysInMonth(m, y)
      BY SMT, <1>2, <1>3, <1>4, <2>2, <3>2
    <3> QED
      BY Zenon, <1>7, <1>12, <3>1, <3>2, <3>3, MidnightLemma
  <2>3. CASE d = 30 /\ z = 30
    <3>1. m < 12 /\ d >= z
      BY SMT, <1>4, <2>3
    <3>2. NextSecond(t) = <<0, 0, 0, 1, m + 1, y>>
      BY SMT, <1>1, <1>2, <1>3, <1>4, <1>12, <3>1 DEF NextSecond
    <3>3. PICK l \in 1 .. 12 : l = m + 1
      BY SMT, <1>3, <3>1
    <3>4. 1 \in 1 .. 31 /\ 1 + l * 30 = d + m * 30 + 1 /\ 1 <= DaysInMonth(l, y)
      BY SMT, <1>3, <2>3, <3>3, MonthLemma
    <3> QED
      BY Zenon, <1>7, <1>12, <3>2, <3>3, <3>4, MidnightLemma
  <2> QED
    BY SMT, <2>1, <2>2, <2>3
<1> QED
  BY SMT, <1>3, <1>9, <1>10, <1>11, <1>12

(* A count that does not reach 2^32 goes on by one.                        *)
LEMMA WrappedLemma ==
  ASSUME NEW x \in Nat, NEW n \in Nat, n >= 1, (x % Two32) + n < Two32
  PROVE  (x + 1) % Two32 = (x % Two32) + 1
BY SMT DEF Two32

-----------------------------------------------------------------------------
(* From the call to its end, the count of the clock and what is left of    *)
(* the sleep add up to the end that the call computed.                     *)
Left == s - elapsed
SleepInv ==
  /\ phase \in {"start", "polling", "ticked", "returned"}
  /\ s \in Nat /\ elapsed \in Nat /\ elapsed <= MaxElapsed /\ elapsed <= s
  /\ IsDate(now) /\ Quiet(now, Left) /\ seconds_end \in Amount
  /\ phase = "start" =>
       /\ elapsed = 0 /\ seconds_end = <<0, 0>>
       /\ Unwrapped(Pair(get_seconds(now)[1], get_seconds(now)[2] + s))
  /\ phase # "start" =>
       /\ Unwrapped(seconds_end)
       /\ Count(seconds_end) = Count(get_seconds(now)) + Left
  /\ phase = "ticked" => elapsed < s
  /\ phase = "returned" => elapsed = s

(* The end of the sleep, in 64 bits. *)
LEMMA EndLemma ==
  ASSUME NEW t, IsDate(t), NEW n \in Nat
  PROVE  LET e == Pair(get_seconds(t)[1], get_seconds(t)[2] + n) IN
         e \in Amount /\ Count(e) = Count(get_seconds(t)) + n
<1> DEFINE p == get_seconds(t)
           e == Pair(p[1], p[2] + n)
<1>1. p \in Amount
  BY SMT, SecondsLemma
<1> HIDE DEF p
<1>2. PICK d \in Nat, x \in Nat : d = p[1] /\ x = p[2] + n
  BY SMT, <1>1 DEF Amount
<1>3. Pair(d, x) \in Amount /\ Count(Pair(d, x)) = d * 86400 + x
  BY SMT, PairLemma
<1>4. Count(p) = p[1] * 86400 + p[2] /\ p[1] \in Nat /\ p[2] \in Nat
  BY SMT, <1>1 DEF Count, Amount
<1> HIDE DEF e
<1>5. d * 86400 + x = Count(p) + n
  BY SMT, <1>2, <1>4
<1>6. e = Pair(d, x)
  BY SMT, <1>2 DEF e
<1> QED
  BY SMT, <1>3, <1>5, <1>6 DEF e, p

(* Amounts below 2^32.                                                     *)
LEMMA UnwrappedLemma ==
  ASSUME NEW a \in Amount
  PROVE  Unwrapped(a) <=> Count(a) < Two32
<1>1. Times2To32(1) \in Amount /\ Count(Times2To32(1)) = 1 * Two32
  BY SMT, TimesLemma
<1>2. Less(a, Times2To32(1)) <=> Count(a) < Count(Times2To32(1))
  BY SMT, <1>1, LessLemma
<1>3. 1 * Two32 = Two32
  BY SMT DEF Two32
<1> QED
  BY SMT, <1>1, <1>2, <1>3 DEF Unwrapped

(* The steps of time_sleep.                                                *)
LEMMA InitSleep == SleepInit /\ OrdinaryCall(now, s) => SleepInv
<1> SUFFICES ASSUME SleepInit, OrdinaryCall(now, s) PROVE SleepInv
  OBVIOUS
<1>1. PICK c \in Sleeps : now = c[1] /\ s = c[2]
  BY Zenon DEF SleepInit
<1>2. phase = "start" /\ seconds_end = <<0, 0>> /\ elapsed = 0
  BY Zenon DEF SleepInit
<1>3. /\ IsDate(now) /\ Quiet(now, s) /\ s \in Nat /\ MaxElapsed \in Nat
      /\ Unwrapped(Pair(get_seconds(now)[1], get_seconds(now)[2] + s))
  BY Zenon, <1>1, SleepAssumption DEF OrdinaryCall
<1>4. seconds_end \in Amount
  BY SMT, <1>2 DEF Amount
<1>5. Left = s
  BY SMT, <1>2, <1>3 DEF Left
<1>6. 0 \in Nat /\ 0 <= MaxElapsed /\ 0 <= s
  BY SMT, <1>3
<1> QED
  BY Zenon, <1>2, <1>3, <1>4, <1>5, <1>6 DEF SleepInv

(* The first time_get.                                                     *)
LEMMA StartStep == SleepInv /\ Start => SleepInv'
<1> SUFFICES ASSUME SleepInv, Start PROVE SleepInv'
  OBVIOUS
<1> DEFINE e == Pair(get_seconds(now)[1], get_seconds(now)[2] + s)
<1>1. /\ phase' = "polling" /\ seconds_end' = e
      /\ now' = now /\ s' = s /\ elapsed' = elapsed
      /\ phase = "start" /\ elapsed = 0 /\ Unwrapped(e)
      /\ IsDate(now) /\ s \in Nat /\ Quiet(now, Left)
  BY Zenon DEF SleepInv, Start
<1>2. e \in Amount /\ Count(e) = Count(get_seconds(now)) + s
  BY Zenon, <1>1, EndLemma
<1> HIDE DEF e
<1>3. Left = s /\ Left' = Left
  BY SMT, <1>1 DEF Left
<1>4. IsDate(now') /\ Quiet(now', Left') /\ get_seconds(now') = get_seconds(now)
  BY Zenon, <1>1, <1>3
<1> QED
  BY Zenon, <1>1, <1>2, <1>3, <1>4 DEF SleepInv

(* A time_get of the loop.                                                 *)
LEMMA PollStep == SleepInv /\ Poll => SleepInv'
<1> SUFFICES ASSUME SleepInv, Poll PROVE SleepInv'
  OBVIOUS
<1>1. /\ phase' = IF Less(get_seconds(now), seconds_end) THEN "ticked" ELSE "returned"
      /\ now' = now /\ s' = s /\ seconds_end' = seconds_end /\ elapsed' = elapsed
      /\ phase = "polling"
  BY Zenon DEF Poll
<1>2. /\ IsDate(now) /\ seconds_end \in Amount /\ Unwrapped(seconds_end)
      /\ Count(seconds_end) = Count(get_seconds(now)) + Left
      /\ s \in Nat /\ elapsed \in Nat /\ elapsed <= s
  BY SMT, <1>1 DEF SleepInv
<1>3. get_seconds(now) \in Amount
  BY Zenon, <1>2, SleepCountLemma
<1>4. Count(get_seconds(now)) \in Nat
  BY Zenon, <1>3, LessLemma
<1>5. Less(get_seconds(now), seconds_end) <=> Count(get_seconds(now)) < Count(seconds_end)
  BY Zenon, <1>2, <1>3, LessLemma
<1>6. Less(get_seconds(now), seconds_end) <=> elapsed < s
  BY SMT, <1>2, <1>4, <1>5 DEF Left
<1>7. phase' \in {"ticked", "returned"}
  BY Zenon, <1>1
<1>8. (phase' = "ticked" => elapsed < s) /\ (phase' = "returned" => elapsed = s)
  BY SMT, <1>1, <1>2, <1>6
<1>9. phase' # "start" /\ Left' = Left
  BY SMT, <1>1, <1>7 DEF Left
<1>10. /\ Left' = Left /\ IsDate(now') /\ Quiet(now', Left') /\ get_seconds(now') = get_seconds(now)
       /\ elapsed' <= MaxElapsed /\ elapsed' <= s'
  BY Zenon, <1>1, <1>9 DEF SleepInv
<1> QED
  BY Zenon, <1>1, <1>2, <1>7, <1>8, <1>9, <1>10 DEF SleepInv

(* A second passes.                                                        *)
LEMMA TickStep == SleepInv /\ Tick => SleepInv'
<1> SUFFICES ASSUME SleepInv, Tick PROVE SleepInv'
  OBVIOUS
<1>1. /\ phase' = "polling" /\ now' = NextSecond(now) /\ elapsed' = elapsed + 1
      /\ s' = s /\ seconds_end' = seconds_end
      /\ phase = "ticked" /\ elapsed < MaxElapsed
  BY Zenon DEF Tick
<1>2. /\ IsDate(now) /\ Quiet(now, Left) /\ seconds_end \in Amount /\ Unwrapped(seconds_end)
      /\ Count(seconds_end) = Count(get_seconds(now)) + Left
      /\ s \in Nat /\ elapsed \in Nat /\ elapsed < s
  BY SMT, <1>1 DEF SleepInv
<1>3. PICK n \in Nat : n = Left /\ n >= 1 /\ Left' = n - 1
  BY SMT, <1>1, <1>2 DEF Left
<1>4. Goes(now, n, NextSecond(now))
  BY Zenon, <1>2, <1>3, NextLemma
<1>5. IsDate(now') /\ Raw(now') = Raw(now) + 1 /\ Quiet(now', n - 1)
  BY Zenon, <1>1, <1>4 DEF Goes
<1>6. PICK x \in Nat : x = Raw(now)
  BY Zenon, <1>2, SleepCountLemma
<1>7. /\ Count(get_seconds(now)) = x % Two32
      /\ Count(get_seconds(now')) = (x + 1) % Two32
  <2>1. Count(get_seconds(now)) = Raw(now) % Two32
    BY Zenon, <1>2, SleepCountLemma
  <2>2. Count(get_seconds(now')) = Raw(now') % Two32
    BY Zenon, <1>5, SleepCountLemma
  <2> QED
    BY Zenon, <1>5, <1>6, <2>1, <2>2
<1>8. (x % Two32) + n < Two32
  <2>1. Count(seconds_end) < Two32
    BY Zenon, <1>2, UnwrappedLemma
  <2> QED
    BY Zenon, <1>2, <1>3, <1>7, <2>1
<1>9. (x + 1) % Two32 = (x % Two32) + 1
  BY SMT, <1>3, <1>8, WrappedLemma
<1>10. Count(seconds_end) = Count(get_seconds(now')) + Left'
  <2>1. x % Two32 \in Nat
    BY SMT DEF Two32
  <2>2. (x % Two32) + n = ((x % Two32) + 1) + (n - 1)
    BY SMT, <2>1
  <2> QED
    BY Zenon, <1>2, <1>3, <1>7, <1>9, <2>2
<1>11. elapsed' \in Nat /\ elapsed' <= MaxElapsed /\ elapsed' <= s'
  BY SMT, <1>1, <1>2, SleepAssumption
<1> QED
  BY Zenon, <1>1, <1>2, <1>3, <1>5, <1>10, <1>11 DEF SleepInv

(* Every state of an ordinary call of time_sleep satisfies SleepInv.        *)
THEOREM SleepInvariant == SleepSpec /\ OrdinaryCall(now, s) => []SleepInv
<1>1. SleepInv /\ [SleepNext]_sleepVars => SleepInv'
  <2> SUFFICES ASSUME SleepInv, [SleepNext]_sleepVars PROVE SleepInv'
    OBVIOUS
  <2>1. CASE Start
    BY Zenon, <2>1, StartStep
  <2>2. CASE Poll
    BY Zenon, <2>2, PollStep
  <2>3. CASE Tick
    BY Zenon, <2>3, TickStep
  <2>4. CASE UNCHANGED sleepVars
    BY Zenon, <2>4 DEF SleepInv, Left, sleepVars
  <2> QED
    BY Zenon, <2>1, <2>2, <2>3, <2>4 DEF SleepNext
<1> QED
  BY <1>1, InitSleep, PTL DEF SleepSpec

(* What was checked follows from the invariant. *)
LEMMA Exactly == SleepInv => SleepsExactly
<1> SUFFICES ASSUME SleepInv PROVE SleepsExactly
  OBVIOUS
<1>1. /\ phase \in {"start", "polling", "ticked", "returned"}
      /\ s \in Nat /\ elapsed \in Nat /\ elapsed <= MaxElapsed /\ elapsed <= s
      /\ IsDate(now) /\ seconds_end \in Amount
      /\ phase = "ticked" => elapsed < s
      /\ phase = "returned" => elapsed = s
  BY Zenon DEF SleepInv
<1>2. now[4] \in 1 .. DaysInMonth(now[5], now[6]) /\ now[5] \in 1 .. 12
  <2>1. PICK d, m, z : d = now[4] /\ m = now[5] /\ z = DaysInMonth(now[5], now[6])
    OBVIOUS
  <2>2. z \in 28 .. 31
    BY Zenon, <2>1, MonthLemma
  <2>3. d \in Nat /\ d >= 1 /\ d <= z /\ m \in Nat /\ m >= 1 /\ m <= 12
    BY Zenon, <1>1, <2>1, DateLemma
  <2> QED
    BY SMT, <2>1, <2>2, <2>3
<1>3. seconds_end \in Nat \X (0 .. DAY - 1)
  <2>1. PICK d \in Nat, x \in Nat : seconds_end = <<d, x>> /\ x < 86400
    BY SMT, <1>1 DEF Amount
  <2>2. PICK n \in Nat : n = DAY /\ x < n
    BY SMT, <2>1, DayLemma
  <2>3. x \in 0 .. n - 1
    BY SMT, <2>2
  <2> QED
    BY SMT, <2>1, <2>2, <2>3
<1>4. Less(seconds_end, Pair(49710, 23296 + s))
  <2>1. PICK d \in Nat, x \in Nat : d = 49710 /\ x = 23296 + s
    BY SMT, <1>1
  <2>2. Pair(d, x) \in Amount /\ Count(Pair(d, x)) = d * 86400 + x
    BY SMT, PairLemma
  <2>3. PICK b : b = Pair(d, x)
    OBVIOUS
  <2>4. b \in Amount /\ Count(b) = Two32 + s
    BY SMT, <1>1, <2>1, <2>2, <2>3 DEF Two32
  <2>5. Count(seconds_end) \in Nat /\ (Less(seconds_end, b) <=> Count(seconds_end) < Count(b))
    BY Zenon, <1>1, <2>4, LessLemma
  <2>6. Count(seconds_end) < Two32
    <3>1. CASE phase = "start"
      BY SMT, <3>1 DEF SleepInv, Count, Two32
    <3>2. CASE phase # "start"
      BY Zenon, <1>1, <3>2, UnwrappedLemma DEF SleepInv
    <3> QED
      BY Zenon, <3>1, <3>2
  <2>7. Count(seconds_end) < Two32 + s
    BY SMT, <1>1, <2>5, <2>6 DEF Two32
  <2> QED
    BY SMT, <2>1, <2>3, <2>4, <2>5, <2>7
<1>5. elapsed \in 0 .. MaxElapsed
  BY SMT, <1>1, SleepAssumption
<1>6. SleepTypeOK
  BY SMT, <1>1, <1>2, <1>3, <1>4, <1>5 DEF SleepTypeOK
<1>7. (phase = "returned" => elapsed >= s) /\ (phase = "ticked" => elapsed < s)
  BY SMT, <1>1
<1> QED
  BY Zenon, <1>6, <1>7 DEF SleepsExactly

(* An ordinary call of time_sleep(s), whatever its argument and whenever   *)
(* it is made, is over exactly when s seconds have passed (time.c:126-135). *)
THEOREM ReturnsOnTime == SleepSpec /\ OrdinaryCall(now, s) => []SleepsExactly
BY SleepInvariant, Exactly, PTL
=============================================================================

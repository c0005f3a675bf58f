--------------------------- MODULE LibraryProofs ---------------------------
(***************************************************************************)
(* Proofs about the library's calls: password hashes, error pages and file *)
(* types, times, the lines of quoted-printable text, settings.  Hashes are *)
(* as good as the record of what Blowfish and Argon2 compute them from,    *)
(* for every password, engine, salt and length of a key.  Loops are        *)
(* recursive functions: a lemma shows that each exists, and SetInduction   *)
(* is the induction over them.                                             *)
(***************************************************************************)
EXTENDS Library, FiniteSetTheorems, SequenceTheorems, WellFoundedInduction, TLAPS

\* A setting as bcrypt_gensalt makes it
Setting(w, s) == [id |-> "$2a$", cost |-> w, salt |-> s]

\* A bcrypt setting makes a hash that verifies the passwords with the same key.
LEMMA SettingVerifies ==
    ASSUME NEW w \in 4 .. 31, NEW s, NEW p, NEW q, NEW h,
           h = bcrypt_hashpw(p, Setting(w, s))
    PROVE  getEngine(h) = "bcrypt" /\ (BcryptVerify(q, h) <=> Key(q) = Key(p))
<1>1. h = [id |-> "$2a$", cost |-> w, salt |-> s, key |-> Key(p)]
  BY DEF bcrypt_hashpw, Setting
<1>2. h.id = "$2a$" /\ h.cost = w /\ h.salt = s
  BY <1>1
<1>3. getEngine(h) = "bcrypt"
  BY <1>2 DEF getEngine
<1> DEFINE out == bcrypt_hashpw(q, h)
<1>4. out = [id |-> "$2a$", cost |-> w, salt |-> s, key |-> Key(q)]
  BY <1>2 DEF bcrypt_hashpw
<1>5. out.id # "none"
  BY <1>4
<1>6. out = h <=> Key(q) = Key(p)
  BY <1>1, <1>4
<1> HIDE DEF out
<1>7. bcrypt_checkpw(q, h) =
        IF out.id = "none" THEN "failed" ELSE IF out = h THEN "equal" ELSE "different"
  BY DEF bcrypt_checkpw, out
<1>8. BcryptVerify(q, h) <=> out = h
  BY <1>5, <1>7 DEF BcryptVerify
<1> QED BY <1>3, <1>6, <1>8

-----------------------------------------------------------------------------
(* Argon2 *)

\* The hash that an engine e makes of a password p with the salt s
ArgonHash(e, p, s) ==
    [id |-> "$argon2", algorithm |-> e.algorithm, version |-> 19,
     memoryCost |-> e.memoryCost, timeCost |-> e.timeCost,
     parallelism |-> e.parallelism, salt |-> s, hashLen |-> e.hashLen, key |-> p]

\* What the engine needs to make one
Fits(e, s) == ~Argon2Refuses(e, Len(s)) /\ EncodedLen(e, Len(s)) <= encodedHashCeil(e, Len(s))

\* A salt that the engine draws is one that Argon2 takes.
LEMMA DrawnSalt ==
    ASSUME NEW s
    PROVE  [i \in 1 .. 16 |-> s] # <<>> /\ ~(Len([i \in 1 .. 16 |-> s]) < MinSalt)
<1> DEFINE t == [i \in 1 .. 16 |-> s]
<1>1. t \in Seq({s})
  OBVIOUS
<1>2. Len(t) = 16
  BY <1>1
<1>3. t # <<>>
  BY <1>2
<1> QED BY <1>2, <1>3, HashAssumption

\* What Argon2Generate gives with a salt that it does not have to draw
LEMMA WithSalt ==
    ASSUME NEW e, NEW p, NEW m, e.salt # <<>>, ~(Len(e.salt) < MinSalt)
    PROVE  Argon2Generate(e, p, m) = {IF m /\ Fits(e, e.salt) THEN ArgonHash(e, p, e.salt) ELSE Failed}
BY DEF Argon2Generate, ArgonHash, Fits

\* A hash that comes out of Argon2Generate has a salt that Argon2 takes, and fits its buffer.
LEMMA Generated ==
    ASSUME NEW e, NEW p, NEW m, NEW h \in Argon2Generate(e, p, m), h # Failed
    PROVE  \E s : h = ArgonHash(e, p, s) /\ s # <<>> /\ ~(Len(s) < MinSalt) /\ Fits(e, s)
<1>1. CASE e.salt = <<>>
  <2>1. Argon2Generate(e, p, m) =
          {IF m /\ Fits(e, s) THEN ArgonHash(e, p, s) ELSE Failed : s \in {[i \in 1 .. 16 |-> r] : r \in Salts}}
    BY <1>1 DEF Argon2Generate, ArgonHash, Fits
  <2>2. PICK r \in Salts : h = IF m /\ Fits(e, [i \in 1 .. 16 |-> r]) THEN ArgonHash(e, p, [i \in 1 .. 16 |-> r]) ELSE Failed
    BY <2>1
  <2>3. Fits(e, [i \in 1 .. 16 |-> r]) /\ h = ArgonHash(e, p, [i \in 1 .. 16 |-> r])
    BY <2>2
  <2> QED BY <2>3, DrawnSalt
<1>2. CASE e.salt # <<>> /\ Len(e.salt) < MinSalt
  BY <1>2 DEF Argon2Generate
<1>3. CASE e.salt # <<>> /\ ~(Len(e.salt) < MinSalt)
  BY <1>3, WithSalt
<1> QED BY <1>1, <1>2, <1>3

\* The engine that an Argon2 hash describes makes the hash again of the same
\* password and of no other, if there is memory for it.
LEMMA DescribedVerifies ==
    ASSUME NEW e, NEW p, NEW q, NEW m, NEW n, NEW h \in Argon2Generate(e, p, m), h # Failed
    PROVE  getEngine(h) = "argon2" /\ (Argon2Verify(q, h, n) <=> n /\ q = p)
<1>1. PICK s : h = ArgonHash(e, p, s) /\ s # <<>> /\ ~(Len(s) < MinSalt) /\ Fits(e, s)
  BY Generated
<1> DEFINE engine1 == [algorithm |-> h.algorithm, timeCost |-> h.timeCost, memoryCost |-> h.memoryCost,
                       parallelism |-> h.parallelism, salt |-> h.salt, hashLen |-> h.hashLen]
<1>2. h.id = "$argon2" /\ h.version = 19
  BY <1>1 DEF ArgonHash
<1>3. /\ engine1.algorithm = e.algorithm /\ engine1.timeCost = e.timeCost
      /\ engine1.memoryCost = e.memoryCost /\ engine1.parallelism = e.parallelism
      /\ engine1.salt = s /\ engine1.hashLen = e.hashLen
  BY <1>1 DEF ArgonHash
<1>4. getEngine(h) = "argon2"
  BY <1>2 DEF getEngine
<1>5. Argon2Verify(q, h, n) <=> \E g \in Argon2Generate(engine1, q, n) : g = h
  BY <1>2 DEF Argon2Verify
<1> HIDE DEF engine1
<1>6. Fits(engine1, s)
  <2>1. Argon2Refuses(engine1, Len(s)) <=> Argon2Refuses(e, Len(s))
    BY <1>3, Zenon DEF Argon2Refuses
  <2>2. EncodedLen(engine1, Len(s)) = EncodedLen(e, Len(s))
    BY <1>3, Zenon DEF EncodedLen, CostDigits
  <2>3. encodedHashCeil(engine1, Len(s)) = encodedHashCeil(e, Len(s))
    BY <1>3, Zenon DEF encodedHashCeil
  <2> QED BY <1>1, <2>1, <2>2, <2>3, Zenon DEF Fits
<1>7. ArgonHash(engine1, q, s) = ArgonHash(e, q, s)
  BY <1>3 DEF ArgonHash
<1>8. Argon2Generate(engine1, q, n) = {IF n THEN ArgonHash(e, q, s) ELSE Failed}
  BY <1>1, <1>3, <1>6, <1>7, WithSalt
<1>9. ArgonHash(e, q, s) = h <=> q = p
  BY <1>1 DEF ArgonHash
<1> QED BY <1>4, <1>5, <1>8, <1>9

-----------------------------------------------------------------------------
(* passwordHash and passwordVerify *)

\* The settings that BcryptGenerate may use, and that crypt_rn takes
Usable == {Setting(w, s) : w \in 4 .. 31, s \in Salts}

\* A setting that bcrypt_gensalt makes can be used.
LEMMA DrawnSetting ==
    ASSUME NEW factor \in Int, NEW u
    PROVE  bcrypt_gensalt(factor, u) \subseteq Usable
<1>1. workf(factor) \in 4 .. 31
  BY DEF workf
<1>2. bcrypt_gensalt(factor, u) \subseteq {Setting(workf(factor), s) : s \in Salts}
  BY DEF bcrypt_gensalt, try_read, Setting
<1> QED BY <1>1, <1>2 DEF Usable

\* So can what the stack holds, or it is no setting at all.
LEMMA StackSetting ==
    {[id |-> "$2a$", cost |-> w, salt |-> s] : w \in {4, 12}, s \in Salts} \subseteq Usable
<1> SUFFICES ASSUME NEW w \in {4, 12}, NEW s \in Salts PROVE Setting(w, s) \in Usable
  BY DEF Setting
<1>1. w \in 4 .. 31
  OBVIOUS
<1> QED BY <1>1 DEF Usable

\* What BcryptGenerate gives is a failure or the hash of a setting that can be used.
LEMMA BcryptGenerated ==
    ASSUME NEW e, e.workFactor \in Int, NEW p, NEW u, NEW h \in BcryptGenerate(e, p, u), h # Failed
    PROVE  \E x \in Usable : h = bcrypt_hashpw(p, x)
<1>0. bcrypt_hashpw(p, Failed) = Failed
  BY DEF bcrypt_hashpw, Failed
<1> DEFINE stack == {[id |-> "$2a$", cost |-> w, salt |-> s] : w \in {4, 12}, s \in Salts}
           settings == IF e.salt = <<>> THEN bcrypt_gensalt(e.workFactor, u) ELSE {Failed} \cup stack
<1>1. BcryptGenerate(e, p, u) = IF settings = {} THEN {Failed} ELSE {bcrypt_hashpw(p, x) : x \in settings}
  BY DEF BcryptGenerate
<1>2. stack \subseteq Usable
  BY StackSetting
<1>3. bcrypt_gensalt(e.workFactor, u) \subseteq Usable
  BY DrawnSetting
<1> HIDE DEF stack
<1>4. settings \subseteq {Failed} \cup Usable
  BY <1>2, <1>3
<1> HIDE DEF settings
<1> QED BY <1>0, <1>1, <1>4

\* The passwords that passwordVerify accepts for a hash that passwordHash made
\* of p: p itself for Argon2, if there is memory; for bcrypt, every password
\* that makes the same key for Blowfish.  It holds for any engine, with a salt
\* of the user's or without, and whatever the stack holds where bcrypt takes
\* such a salt from; where there is no hash there was an exception.
THEOREM VerifiesExactly ==
    ASSUME NEW p, NEW q, NEW u, NEW m, NEW e, e.kind = "bcrypt" => e.workFactor \in Int,
           NEW h \in passwordHash(p, e, u), h # Failed
    PROVE  passwordVerify(q, h, m) <=> IF e.kind = "bcrypt" THEN Key(q) = Key(p) ELSE m /\ q = p
<1>1. CASE e.kind = "bcrypt"
  <2>1. h \in BcryptGenerate(e, p, u)
    BY <1>1 DEF passwordHash
  <2>2. PICK x \in Usable : h = bcrypt_hashpw(p, x)
    BY <1>1, <2>1, BcryptGenerated
  <2>3. PICK w \in 4 .. 31, s \in Salts : x = Setting(w, s)
    BY <2>2 DEF Usable
  <2>4. getEngine(h) = "bcrypt" /\ (BcryptVerify(q, h) <=> Key(q) = Key(p))
    BY <2>2, <2>3, SettingVerifies
  <2> QED BY <1>1, <2>4 DEF passwordVerify
<1>2. CASE e.kind # "bcrypt"
  <2>1. h \in Argon2Generate(e, p, u)
    BY <1>2 DEF passwordHash
  <2>2. getEngine(h) = "argon2" /\ (Argon2Verify(q, h, m) <=> m /\ q = p)
    BY <2>1, DescribedVerifies
  <2> QED BY <1>2, <2>2 DEF passwordVerify
<1> QED BY <1>1, <1>2

-----------------------------------------------------------------------------
(* The bytes of a password that count *)

\* A set of numbers has a smallest one.
LEMMA Smallest ==
    ASSUME NEW T, T \subseteq Nat, T # {}
    PROVE  \E x \in T : \A y \in T : x <= y
<1>1. \E x \in T : \A y \in T : ~(<<y, x>> \in OpToRel(<, Nat))
  BY WFMin, NatLessThanWellFounded, Zenon
<1>2. PICK x \in T : \A y \in T : ~(<<y, x>> \in OpToRel(<, Nat))
  BY <1>1
<1>3. ASSUME NEW y \in T PROVE x <= y
  <2>1. x \in Nat /\ y \in Nat
    OBVIOUS
  <2>2. y < x => <<y, x>> \in OpToRel(<, Nat)
    BY <2>1 DEF OpToRel
  <2>3. ~(y < x)
    BY <1>2, <2>2, Zenon
  <2> QED BY <2>1, <2>3
<1> QED BY <1>3

\* A C string has no '\0' in it.
LEMMA CString ==
    ASSUME NEW s \in Seq(Nat)
    PROVE  c_str(s) \in Seq(Nat) /\ \A i \in 1 .. Len(c_str(s)) : c_str(s)[i] # 0
<1> DEFINE I == {i \in 1 .. Len(s) : s[i] = 0}
           nul == SelectInSeq(s, LAMBDA c : c = 0)
<1>1. CASE I = {}
  <2>1. nul = 0
    BY <1>1 DEF SelectInSeq
  <2> QED BY <1>1, <2>1 DEF c_str
<1>2. CASE I # {}
  <2>1. nul \in I /\ \A j \in I : nul <= j
    <3>1. nul = Min(I)
      BY <1>2 DEF SelectInSeq
    <3>2. I \subseteq Nat
      OBVIOUS
    <3> HIDE DEF I, nul
    <3>3. \E x \in I : \A y \in I : x <= y
      BY <1>2, <3>2, Smallest, Zenon
    <3> QED BY <3>1, <3>3, Zenon DEF Min
  <2>2. c_str(s) = SubSeq(s, 1, nul - 1)
    BY <2>1 DEF c_str
  <2> HIDE DEF nul
  <2> QED BY <2>1, <2>2
<1> QED BY <1>1, <1>2

\* The bytes of the key, as far as the string and its '\0' go
LEMMA KeyBytes ==
    ASSUME NEW s \in Seq(Nat), NEW i \in 1 .. MaxKey
    PROVE  /\ i <= Len(c_str(s)) => Key(s)[i] = c_str(s)[i]
           /\ i = Len(c_str(s)) + 1 => Key(s)[i] = 0
<1> DEFINE c == c_str(s)
           k == Append(c, 0)
<1>1. c \in Seq(Nat) /\ Len(c) \in Nat /\ i \in Nat /\ i >= 1
  BY CString, HashAssumption
<1>2. Key(s)[i] = k[((i - 1) % Len(k)) + 1]
  BY DEF Key
<1> HIDE DEF c
<1>3. /\ Len(k) = Len(c) + 1 /\ k[Len(c) + 1] = 0
      /\ \A j \in 1 .. Len(c) : k[j] = c[j]
  BY <1>1
<1> DEFINE n == Len(c)
<1>4. ASSUME i <= n + 1 PROVE ((i - 1) % (n + 1)) + 1 = i
  <2>1. n \in Nat /\ i - 1 \in 0 .. n
    BY <1>1, <1>4
  <2> HIDE DEF n
  <2> QED BY <2>1
<1>5. i <= n + 1 => Key(s)[i] = k[i]
  BY <1>2, <1>3, <1>4
<1>6. i <= Len(c) => Key(s)[i] = c[i]
  BY <1>1, <1>3, <1>5
<1>7. i = Len(c) + 1 => Key(s)[i] = 0
  BY <1>1, <1>3, <1>5
<1> QED BY <1>6, <1>7 DEF c

\* A password whose string ends before that of another makes another key,
\* unless the key is full before.
LEMMA ShorterDiffers ==
    ASSUME NEW p \in Seq(Nat), NEW q \in Seq(Nat), Key(p) = Key(q), Len(c_str(p)) < MaxKey
    PROVE  ~(Len(c_str(p)) < Len(c_str(q)))
<1> SUFFICES ASSUME Len(c_str(p)) < Len(c_str(q)) PROVE FALSE
  OBVIOUS
<1> DEFINE i == Len(c_str(p)) + 1
<1>1. i \in 1 .. MaxKey /\ i \in 1 .. Len(c_str(q))
  BY CString, HashAssumption
<1>2. Key(p)[i] = 0
  BY <1>1, KeyBytes
<1>3. Key(q)[i] = c_str(q)[i]
  BY <1>1, KeyBytes
<1>4. c_str(q)[i] # 0
  BY <1>1, CString
<1> QED BY <1>2, <1>3, <1>4

\* Blowfish's key is the same for two passwords exactly if the bytes that
\* count are: repeating the string and its '\0' makes no others alike.
THEOREM KeyIsCut ==
    ASSUME NEW p \in Seq(Nat), NEW q \in Seq(Nat)
    PROVE  Key(p) = Key(q) <=> Cut(p) = Cut(q)
<1> DEFINE a == c_str(p)
           b == c_str(q)
<1>1. a \in Seq(Nat) /\ b \in Seq(Nat) /\ Len(a) \in Nat /\ Len(b) \in Nat /\ MaxKey \in Nat
  BY CString, HashAssumption
<1>2. ASSUME NEW s \in Seq(Nat) PROVE
        LET n == IF Len(s) < MaxKey THEN Len(s) ELSE MaxKey
            t == SubSeq(s, 1, n)
        IN t \in Seq(Nat) /\ Len(t) = n /\ \A i \in 1 .. n : t[i] = s[i]
  BY <1>1
<1>3. ASSUME Key(p) = Key(q) PROVE Cut(p) = Cut(q)
  <2>1. Len(a) < MaxKey => ~(Len(a) < Len(b))
    BY <1>3, ShorterDiffers
  <2>2. Len(b) < MaxKey => ~(Len(b) < Len(a))
    BY <1>3, ShorterDiffers
  <2>3. /\ Len(a) < MaxKey <=> Len(b) < MaxKey
        /\ Len(a) < MaxKey => Len(a) = Len(b)
    BY <1>1, <2>1, <2>2
  <2>4. ASSUME NEW i \in 1 .. MaxKey, i <= Len(a), i <= Len(b) PROVE a[i] = b[i]
    BY <1>3, <2>4, KeyBytes
  <2> DEFINE n == IF Len(a) < MaxKey THEN Len(a) ELSE MaxKey
  <2>5. Cut(p) = SubSeq(a, 1, n) /\ Cut(q) = SubSeq(b, 1, n)
    BY <2>3 DEF Cut
  <2> HIDE DEF a, b
  <2>6. n \in Nat /\ n <= MaxKey /\ n <= Len(a) /\ n <= Len(b)
    BY <1>1, <2>3
  <2>7. \A i \in 1 .. n : a[i] = b[i]
    BY <1>1, <2>4, <2>6
  <2> HIDE DEF n
  <2> QED BY <1>1, <2>5, <2>6, <2>7
<1>4. ASSUME Cut(p) = Cut(q) PROVE Key(p) = Key(q)
  <2>0. /\ Cut(p) = SubSeq(a, 1, IF Len(a) < MaxKey THEN Len(a) ELSE MaxKey)
        /\ Cut(q) = SubSeq(b, 1, IF Len(b) < MaxKey THEN Len(b) ELSE MaxKey)
    BY DEF Cut
  <2>k. /\ Key(p) = [i \in 1 .. MaxKey |-> Append(a, 0)[((i - 1) % Len(Append(a, 0))) + 1]]
        /\ Key(q) = [i \in 1 .. MaxKey |-> Append(b, 0)[((i - 1) % Len(Append(b, 0))) + 1]]
    BY DEF Key
  <2>f. Key(p) = [i \in 1 .. MaxKey |-> Key(p)[i]] /\ Key(q) = [i \in 1 .. MaxKey |-> Key(q)[i]]
    BY DEF Key
  <2>b. \A i \in 1 .. MaxKey : /\ i <= Len(a) => Key(p)[i] = a[i]
                               /\ i <= Len(b) => Key(q)[i] = b[i]
    BY KeyBytes
  <2> HIDE DEF a, b
  <2>1. /\ Len(Cut(p)) = IF Len(a) < MaxKey THEN Len(a) ELSE MaxKey
        /\ Len(Cut(q)) = IF Len(b) < MaxKey THEN Len(b) ELSE MaxKey
        /\ \A i \in 1 .. Len(Cut(p)) : Cut(p)[i] = a[i]
        /\ \A i \in 1 .. Len(Cut(q)) : Cut(q)[i] = b[i]
    BY <1>1, <1>2, <2>0
  <2>2. CASE Len(a) < MaxKey
    <3>1. Len(b) = Len(a) /\ Len(Cut(p)) = Len(a)
      BY <1>1, <1>4, <2>1, <2>2
    <3>2. \A i \in 1 .. Len(a) : a[i] = b[i]
      BY <1>4, <2>1, <3>1
    <3>3. a = b
      BY <1>1, <3>1, <3>2, SeqEqual, Zenon
    <3> QED BY <3>3, <2>k
  <2>3. CASE ~(Len(a) < MaxKey)
    <3>1. Len(Cut(p)) = MaxKey /\ Len(Cut(q)) = MaxKey /\ Len(b) >= MaxKey /\ Len(a) >= MaxKey
      BY <1>1, <1>4, <2>1, <2>3
    <3>2. ASSUME NEW i \in 1 .. MaxKey PROVE Key(p)[i] = Key(q)[i]
      <4>1. i <= Len(a) /\ i <= Len(b)
        BY <1>1, <3>1
      <4>2. Cut(p)[i] = a[i] /\ Cut(q)[i] = b[i]
        BY <2>1, <3>1
      <4>3. Key(p)[i] = a[i] /\ Key(q)[i] = b[i]
        BY <2>b, <4>1
      <4> QED BY <1>4, <4>2, <4>3
    <3> QED BY <3>2, <2>f
  <2> QED BY <2>2, <2>3
<1> QED BY <1>3, <1>4

-----------------------------------------------------------------------------
(* The calls *)

\* A number has at least one digit.
LEMMA WidthType == \A n : Width(n) \in Nat
<1> SUFFICES ASSUME NEW n PROVE Cardinality({k \in 1 .. 9 : 10^k <= n}) \in Nat
  BY DEF Width
<1>1. IsFiniteSet(1 .. 9)
  <2>1. 1 \in Int /\ 9 \in Int
    OBVIOUS
  <2> QED BY <2>1, FS_Interval, Zenon
<1>2. IsFiniteSet({k \in 1 .. 9 : 10^k <= n})
  BY <1>1, FS_Subset
<1> QED BY <1>2, FS_CardinalityType

\* The estimate of the length has room for 22 digits.
LEMMA EstimateSuffices ==
    ASSUME NEW e, NEW n \in Nat, e.hashLen \in Nat, ~(CostDigits(e) > 22)
    PROVE  EncodedLen(e, n) <= encodedHashCeil(e, n)
<1>1. CostDigits(e) \in Nat
  BY WidthType DEF CostDigits
<1> DEFINE d == CostDigits(e)
           l == e.hashLen
           f == IF e.algorithm = "id" THEN 26 ELSE 25
<1>2. EncodedLen(e, n) = f + d + (4 * n + 2) \div 3 + (4 * l + 2) \div 3
  BY DEF EncodedLen
<1>3. encodedHashCeil(e, n) = 50 + (4 * n) \div 3 + (4 * l) \div 3
  BY DEF encodedHashCeil
<1>4. d \in Nat /\ d <= 22 /\ l \in Nat /\ f \in 25 .. 26
  BY <1>1
<1> HIDE DEF d, l, f
<1>5. ASSUME NEW x \in Nat PROVE (4 * x + 2) \div 3 <= (4 * x) \div 3 + 1 /\ (4 * x) \div 3 \in Nat /\ (4 * x + 2) \div 3 \in Nat
  OBVIOUS
<1>6. f + d + (4 * n + 2) \div 3 + (4 * l + 2) \div 3 <= 50 + (4 * n) \div 3 + (4 * l) \div 3
  BY <1>4, <1>5
<1> QED BY <1>2, <1>3, <1>6

\* Each call leaves its own kind of record.
LEMMA Kinds ==
    /\ Encode => call'.op = "encode"
    /\ WriteTime => call'.op = "time"
    /\ Compose => call'.op = "mail"
    /\ Submit => call'.op = "form"
    /\ SubmitQuery => call'.op = "query"
    /\ Configure => call'.op = "settings"
    /\ Receive => call'.op = "request"
    /\ Answer => call'.op = "page"
    /\ Hash => call'.op = "hash"
    /\ Return => call'.op = "idle"
<1>1. ASSUME Encode PROVE call'.op = "encode"
  BY <1>1 DEF Encode, Coded
<1>2. ASSUME WriteTime PROVE call'.op = "time"
  BY <1>2 DEF WriteTime
<1>3. ASSUME Compose PROVE call'.op = "mail"
  BY <1>3 DEF Compose
<1>4. ASSUME Submit PROVE call'.op = "form"
  BY <1>4 DEF Submit
<1>5. ASSUME SubmitQuery PROVE call'.op = "query"
  BY <1>5 DEF SubmitQuery
<1>6. ASSUME Configure PROVE call'.op = "settings"
  BY <1>6 DEF Configure
<1>7. ASSUME Receive PROVE call'.op = "request"
  BY <1>7 DEF Receive
<1>8. ASSUME Answer PROVE call'.op = "page"
  BY <1>8 DEF Answer
<1>9. ASSUME Hash PROVE call'.op = "hash"
  BY <1>9 DEF Hash
<1>10. ASSUME Return PROVE call'.op = "idle"
  BY <1>10 DEF Return, Idle
<1> QED BY <1>1, <1>2, <1>3, <1>4, <1>5, <1>6, <1>7, <1>8, <1>9, <1>10

\* When bcrypt fails it was given a salt or had no randomness.
LEMMA BcryptFails ==
    ASSUME NEW e, e.workFactor \in Int, NEW p, NEW u \in BOOLEAN, Failed \in BcryptGenerate(e, p, u)
    PROVE  e.salt # <<>> \/ ~u
<1> SUFFICES ASSUME e.salt = <<>>, u PROVE FALSE
  OBVIOUS
<1> DEFINE settings == bcrypt_gensalt(e.workFactor, u)
<1>1. BcryptGenerate(e, p, u) = IF settings = {} THEN {Failed} ELSE {bcrypt_hashpw(p, x) : x \in settings}
  BY DEF BcryptGenerate
<1>2. settings # {}
  BY HashAssumption DEF bcrypt_gensalt, try_read
<1>3. settings \subseteq Usable
  BY DrawnSetting
<1> HIDE DEF settings
<1>4. PICK x \in Usable : Failed = bcrypt_hashpw(p, x)
  BY <1>1, <1>2, <1>3
<1>5. PICK w \in 4 .. 31, s \in Salts : x = Setting(w, s)
  BY DEF Usable
<1>6. bcrypt_hashpw(p, Setting(w, s)) = [id |-> "$2a$", cost |-> w, salt |-> s, key |-> Key(p)]
  BY DEF bcrypt_hashpw, Setting
<1> QED BY <1>4, <1>5, <1>6 DEF Failed

\* Parameters that Argon2 takes with one salt it takes with any that is long enough.
LEMMA RefusesAny ==
    ASSUME NEW e, NEW n \in Nat, ~(n < MinSalt), Argon2Refuses(e, n)
    PROVE  Argon2Refuses(e, MinSalt)
BY Zenon DEF Argon2Refuses

\* Argon2 fails without memory, if it refuses its parameters, if the salt is
\* too short or if the costs have too many digits.
LEMMA Argon2Fails ==
    ASSUME NEW e, Len(e.salt) \in Nat, e.hashLen \in Nat, NEW p, NEW m \in BOOLEAN,
           Failed \in Argon2Generate(e, p, m)
    PROVE  ~m \/ (e.salt # <<>> /\ Len(e.salt) < MinSalt) \/ Argon2Refuses(e, MinSalt) \/ CostDigits(e) > 22
<1> SUFFICES ASSUME m, ~(CostDigits(e) > 22), ~(e.salt # <<>> /\ Len(e.salt) < MinSalt), ~Argon2Refuses(e, MinSalt)
             PROVE  FALSE
  OBVIOUS
<1>1. ASSUME NEW s PROVE ArgonHash(e, p, s) # Failed
  BY DEF ArgonHash, Failed
<1>2. ASSUME NEW s, Len(s) \in Nat, ~(Len(s) < MinSalt) PROVE Fits(e, s)
  BY <1>2, EstimateSuffices, RefusesAny DEF Fits
<1>3. CASE e.salt = <<>>
  <2>1. Argon2Generate(e, p, m) =
          {IF m /\ Fits(e, s) THEN ArgonHash(e, p, s) ELSE Failed : s \in {[i \in 1 .. 16 |-> r] : r \in Salts}}
    BY <1>3 DEF Argon2Generate, ArgonHash, Fits
  <2>2. PICK r \in Salts : Failed = IF m /\ Fits(e, [i \in 1 .. 16 |-> r]) THEN ArgonHash(e, p, [i \in 1 .. 16 |-> r]) ELSE Failed
    BY <2>1
  <2>3. Len([i \in 1 .. 16 |-> r]) \in Nat
    <3>1. [i \in 1 .. 16 |-> r] \in Seq({r})
      OBVIOUS
    <3> QED BY <3>1
  <2> QED BY <1>1, <1>2, <2>2, <2>3, DrawnSalt
<1>4. CASE e.salt # <<>> /\ ~(Len(e.salt) < MinSalt)
  BY <1>1, <1>2, <1>4, WithSalt
<1> QED BY <1>3, <1>4

\* What Hash leaves is as PasswordsVerify says.
LEMMA HashVerifies == Hash => PasswordsVerify'
<1> SUFFICES ASSUME Hash PROVE PasswordsVerify'
  OBVIOUS
<1>1. PICK e \in Engines, p \in Passwords, u, m \in BOOLEAN : \E h \in passwordHash(p, e, u) :
        call' = [op |-> "hash", engine |-> e, in |-> p, supplied |-> u, out |-> h,
                 memory |-> m, matches |-> {q \in Passwords : passwordVerify(q, h, m)}]
  BY DEF Hash
<1>2. PICK h \in passwordHash(p, e, u) :
        call' = [op |-> "hash", engine |-> e, in |-> p, supplied |-> u, out |-> h,
                 memory |-> m, matches |-> {q \in Passwords : passwordVerify(q, h, m)}]
  BY <1>1
<1>3. /\ call'.engine = e /\ call'.in = p /\ call'.out = h
      /\ call'.matches = {q \in Passwords : passwordVerify(q, h, m)}
  BY <1>2
<1>b. (call'.supplied <=> u) /\ (call'.memory <=> m)
  BY <1>2, Zenon
<1>4. IF e.kind = "bcrypt" THEN e.workFactor \in Int ELSE Len(e.salt) \in Nat /\ e.hashLen \in Nat
  BY CallAssumption
<1>5. CASE h = Failed
  <2>1. CASE e.kind = "bcrypt"
    <3>1. e.salt # <<>> \/ ~u
      BY <1>4, <1>5, <2>1, BcryptFails DEF passwordHash
    <3> QED BY <1>3, <1>b, <1>5, <2>1, <3>1, Zenon DEF PasswordsVerify
  <2>2. CASE e.kind # "bcrypt"
    <3>1. ~u \/ (e.salt # <<>> /\ Len(e.salt) < MinSalt) \/ Argon2Refuses(e, MinSalt) \/ CostDigits(e) > 22
      BY <1>4, <1>5, <2>2, Argon2Fails DEF passwordHash
    <3> QED BY <1>3, <1>b, <1>5, <2>2, <3>1, Zenon DEF PasswordsVerify
  <2> QED BY <2>1, <2>2
<1>6. CASE h # Failed
  <2>1. \A q : passwordVerify(q, h, m) <=> IF e.kind = "bcrypt" THEN Key(q) = Key(p) ELSE m /\ q = p
    BY <1>4, <1>6, VerifiesExactly
  <2>2. CASE e.kind = "bcrypt"
    <3>1. \A q \in Passwords : passwordVerify(q, h, m) <=> Cut(q) = Cut(p)
      BY <2>1, <2>2, KeyIsCut, CallAssumption
    <3>2. call'.matches = {q \in Passwords : Cut(q) = Cut(p)}
      BY <1>3, <3>1
    <3> QED BY <1>3, <1>6, <2>2, <3>2, Zenon DEF PasswordsVerify
  <2>3. CASE e.kind # "bcrypt"
    <3>1. call'.matches = IF m THEN {p} ELSE {}
      BY <1>3, <2>1, <2>3
    <3> QED BY <1>3, <1>b, <1>6, <2>3, <3>1, Zenon DEF PasswordsVerify
  <2> QED BY <2>2, <2>3
<1> QED BY <1>5, <1>6

\* PasswordsVerify holds of every call: whatever engine, password and
\* randomness passwordHash is called with, passwordVerify accepts what it
\* returns for that password alone, up to what Blowfish cuts off and where
\* there is memory, and it throws only for the reasons named.
THEOREM PasswordsVerifyAlways == Spec => []PasswordsVerify
<1>1. Init => PasswordsVerify
  BY DEF Init, Idle, PasswordsVerify
<1>2. PasswordsVerify /\ [Next]_call => PasswordsVerify'
  <2> SUFFICES ASSUME PasswordsVerify, [Next]_call PROVE PasswordsVerify'
    OBVIOUS
  <2>1. CASE Hash
    BY <2>1, HashVerifies
  <2>2. CASE call'.op # "hash"
    BY <2>2 DEF PasswordsVerify
  <2>3. CASE UNCHANGED call
    BY <2>3 DEF PasswordsVerify
  <2> QED BY <2>1, <2>2, <2>3, Kinds DEF Next
<1> QED BY <1>1, <1>2, PTL DEF Spec

-----------------------------------------------------------------------------
(* Error pages and file types *)

\* The map of reasons has one for a status.
LEMMA OneReason == \A p, q \in httpStatusCodes : p[1] = q[1] => p = q
BY DEF httpStatusCodes

\* The headings are in it, but for one.
LEMMA HeadingsAreReasons ==
    ASSUME NEW p \in Headings, p[1] # 406
    PROVE  p \in httpStatusCodes
BY DEF Headings, httpStatusCodes

\* The page of a status has its reason as heading.
LEMMA HeadingIsReason ==
    ASSUME NEW status, status # 406, errorStr(status) # "UnknownError"
    PROVE  errorStr(status) = Entry(httpStatusCodes, status, "")
<1> DEFINE p == CHOOSE r \in Headings : r[1] = status
           q == CHOOSE r \in httpStatusCodes : r[1] = status
<1>1. (\E r \in Headings : r[1] = status) /\ errorStr(status) = p[2]
  BY DEF errorStr, Entry
<1>2. p \in Headings /\ p[1] = status
  BY <1>1
<1>3. p \in httpStatusCodes
  BY <1>2, HeadingsAreReasons
<1>4. q \in httpStatusCodes /\ q[1] = status
  BY <1>2, <1>3
<1>5. Entry(httpStatusCodes, status, "") = q[2]
  BY <1>2, <1>3 DEF Entry
<1> HIDE DEF p, q
<1>6. p = q
  BY <1>2, <1>3, <1>4, OneReason
<1> QED BY <1>1, <1>5, <1>6

\* A letter's case does not make it a dot.
LEMMA LowercaseDots ==
    ASSUME NEW s \in Seq(Nat)
    PROVE  /\ toLowercase(s) \in Seq(Nat) /\ Len(toLowercase(s)) = Len(s)
           /\ \A i \in 1 .. Len(s) : toLowercase(s)[i] = Dot <=> s[i] = Dot
<1> DEFINE t == toLowercase(s)
<1>1. t = [i \in 1 .. Len(s) |-> IF s[i] \in 65 .. 90 THEN s[i] + 32 ELSE s[i]]
  BY DEF toLowercase
<1>2. \A i \in 1 .. Len(s) : s[i] \in Nat
  OBVIOUS
<1> HIDE DEF t
<1>3. DOMAIN t = 1 .. Len(s) /\ Len(s) \in Nat
  BY <1>1
<1>4. \A i \in 1 .. Len(s) : t[i] = IF s[i] \in 65 .. 90 THEN s[i] + 32 ELSE s[i]
  BY <1>1
<1>5. \A i \in 1 .. Len(s) : t[i] \in Nat /\ (t[i] = 46 <=> s[i] = 46)
  <2> TAKE i \in 1 .. Len(s)
  <2> DEFINE c == s[i]
             d == t[i]
  <2>1. c \in Nat
    BY <1>2
  <2>2. d = IF c \in 65 .. 90 THEN c + 32 ELSE c
    BY <1>4
  <2> HIDE DEF c, d
  <2>3. d \in Nat /\ (d = 46 <=> c = 46)
    BY <2>1, <2>2
  <2> QED BY <2>3 DEF c, d
<1>6. t \in [1 .. Len(s) -> Nat]
  BY <1>1, <1>3, <1>5
<1>7. t \in Seq(Nat) /\ Len(t) = Len(s)
  BY <1>3, <1>6
<1> QED BY <1>5, <1>7 DEF Dot, t

\* What a suffix is, position by position
LEMMA SuffixElements ==
    ASSUME NEW s \in Seq(Nat), NEW t \in Seq(Nat), IsSuffix(s, t)
    PROVE  Len(s) <= Len(t) /\ \A i \in 1 .. Len(s) : s[i] = t[Len(t) - Len(s) + i]
<1> DEFINE r == Reverse(s)
           u == Reverse(t)
<1>1. r = [i \in 1 .. Len(s) |-> s[(Len(s) - i) + 1]] /\ u = [i \in 1 .. Len(t) |-> t[(Len(t) - i) + 1]]
  BY DEF Reverse
<1>2. r \in Seq(Nat) /\ Len(r) = Len(s) /\ u \in Seq(Nat) /\ Len(u) = Len(t)
  BY <1>1
<1>3. Len(r) <= Len(u) /\ SubSeq(r, 1, Len(r)) = SubSeq(u, 1, Len(r))
  BY DEF IsSuffix, IsPrefix
<1>4. \A i \in 1 .. Len(s) : r[i] = u[i]
  BY <1>2, <1>3
<1>5. ASSUME NEW i \in 1 .. Len(s) PROVE s[i] = t[Len(t) - Len(s) + i]
  <2> DEFINE j == Len(s) - i + 1
  <2>1. j \in 1 .. Len(s) /\ j \in 1 .. Len(t)
    BY <1>2, <1>3
  <2>2. r[j] = s[i]
    BY <1>1, <2>1
  <2>3. u[j] = t[Len(t) - Len(s) + i]
    BY <1>1, <2>1
  <2> QED BY <1>4, <2>1, <2>2, <2>3
<1> QED BY <1>2, <1>3, <1>5

\* The letters after the last dot of a file's name are an extension of the
\* table if they are one in small letters.
LEMMA ExtensionOfSuffix ==
    ASSUME NEW f \in Seq(Nat), NEW e \in DOMAIN contentTypeMap,
           IsSuffix(<<Dot>> \o e, toLowercase(f))
    PROVE  toLowercase(getFileExtension(f)) = e
<1> DEFINE s == <<Dot>> \o e
           t == toLowercase(f)
           n == Len(f) - Len(e)
<1>1. e \in Seq(Nat) /\ \A i \in 1 .. Len(e) : e[i] # Dot
  BY ExtensionAssumption DEF Dot
<1>2. s \in Seq(Nat) /\ Len(s) = Len(e) + 1 /\ s[1] = Dot /\ \A i \in 1 .. Len(e) : s[i + 1] = e[i]
  BY <1>1 DEF Dot
<1>3. t \in Seq(Nat) /\ Len(t) = Len(f) /\ \A i \in 1 .. Len(f) : t[i] = Dot <=> f[i] = Dot
  BY LowercaseDots
<1>4. Len(s) <= Len(t) /\ \A i \in 1 .. Len(s) : s[i] = t[Len(t) - Len(s) + i]
  BY <1>2, <1>3, SuffixElements
<1> HIDE DEF s, t
<1>5. n \in 1 .. Len(f) /\ Len(f) \in Nat /\ Len(e) \in Nat
  BY <1>1, <1>2, <1>3, <1>4
<1>6. t[n] = Dot /\ f[n] = Dot
  <2>1. 1 \in 1 .. Len(s) /\ Len(t) - Len(s) + 1 = n
    BY <1>2, <1>3, <1>5
  <2> QED BY <1>2, <1>3, <1>4, <1>5, <2>1
<1>7. \A i \in 1 .. Len(e) : t[n + i] = e[i]
  <2> TAKE i \in 1 .. Len(e)
  <2>1. i + 1 \in 1 .. Len(s) /\ Len(t) - Len(s) + (i + 1) = n + i
    BY <1>2, <1>3, <1>5
  <2> QED BY <1>2, <1>4, <2>1
<1>8. \A i \in (n + 1) .. Len(f) : f[i] # Dot
  <2> TAKE i \in (n + 1) .. Len(f)
  <2>1. i - n \in 1 .. Len(e) /\ n + (i - n) = i /\ i \in 1 .. Len(f)
    BY <1>5
  <2>2. t[i] = e[i - n]
    BY <1>7, <2>1
  <2> QED BY <1>1, <1>3, <2>1, <2>2
<1>9. SelectLastInSeq(f, LAMBDA c : c = Dot) = n
  <2> DEFINE I == {i \in 1 .. Len(f) : f[i] = Dot}
  <2>1. n \in I /\ \A i \in I : n >= i
    BY <1>5, <1>6, <1>8
  <2>2. SelectLastInSeq(f, LAMBDA c : c = Dot) = IF I # {} THEN Max(I) ELSE 0
    BY DEF SelectLastInSeq
  <2>3. I \subseteq Int
    BY <1>5
  <2> HIDE DEF I, n
  <2>4. Max(I) = n
    <3>1. Max(I) \in I /\ \A i \in I : Max(I) >= i
      BY <2>1 DEF Max
    <3> DEFINE m == Max(I)
    <3>2. m \in Int /\ n \in Int /\ m >= n /\ n >= m
      BY <2>1, <2>3, <3>1
    <3> HIDE DEF m
    <3>3. m = n
      BY <3>2
    <3> QED BY <3>3 DEF m
  <2> QED BY <2>1, <2>2, <2>4
<1>10. getFileExtension(f) = SubSeq(f, n + 1, Len(f))
  BY <1>9 DEF getFileExtension, From
<1> DEFINE x == SubSeq(f, n + 1, Len(f))
<1>11. x \in Seq(Nat) /\ Len(x) = Len(e) /\ \A i \in 1 .. Len(e) : x[i] = f[n + i]
  BY <1>5
<1> HIDE DEF x, n
<1>12. toLowercase(x) \in Seq(Nat) /\ Len(toLowercase(x)) = Len(e)
  BY <1>11, LowercaseDots
<1>13. \A i \in 1 .. Len(e) : toLowercase(x)[i] = e[i]
  <2> TAKE i \in 1 .. Len(e)
  <2>1. toLowercase(x)[i] = IF x[i] \in 65 .. 90 THEN x[i] + 32 ELSE x[i]
    BY <1>11 DEF toLowercase
  <2>2. n + i \in 1 .. Len(f)
    BY <1>5 DEF n
  <2>3. t[n + i] = IF f[n + i] \in 65 .. 90 THEN f[n + i] + 32 ELSE f[n + i]
    BY <2>2 DEF toLowercase, t
  <2> QED BY <1>7, <1>11, <2>1, <2>3
<1>14. toLowercase(x) = e
  <2> DEFINE y == toLowercase(x)
  <2> HIDE DEF y
  <2>1. y \in Seq(Nat) /\ Len(y) = Len(e) /\ \A i \in 1 .. Len(e) : y[i] = e[i]
    BY <1>12, <1>13 DEF y
  <2>2. y = e
    BY <1>1, <2>1
  <2> QED BY <2>2 DEF y
<1> QED BY <1>10, <1>14 DEF x

\* What Answer leaves is as PagesMatch says.
LEMMA AnswerMatches == Answer => PagesMatch'
<1> SUFFICES ASSUME Answer PROVE PagesMatch'
  OBVIOUS
<1>1. PICK status \in 400 .. 503, f \in FileNames :
        call' = [op |-> "page", status |-> status, out |-> generateErrorPage(status),
                 file |-> f, type |-> contentTypeByExtension(getFileExtension(f))]
  BY DEF Answer
<1>2. /\ call'.status = status /\ call'.file = f
      /\ call'.out.title = <<status, errorStr(status)>> /\ call'.out.heading = errorStr(status)
      /\ call'.type = contentTypeByExtension(getFileExtension(f))
  BY <1>1 DEF generateErrorPage
<1>3. status # 406 /\ errorStr(status) # "UnknownError" => errorStr(status) = Entry(httpStatusCodes, status, "")
  BY HeadingIsReason
<1>4. ASSUME NEW e \in DOMAIN contentTypeMap, IsSuffix(<<Dot>> \o e, toLowercase(f))
      PROVE  contentTypeByExtension(getFileExtension(f)) = contentTypeMap[e]
  <2>1. f \in Seq(Nat)
    BY CallAssumption
  <2>2. toLowercase(getFileExtension(f)) = e
    BY <1>4, <2>1, ExtensionOfSuffix
  <2> QED BY <2>2 DEF contentTypeByExtension
<1> QED BY <1>2, <1>3, <1>4 DEF PagesMatch

\* PagesMatch holds of every call: the error page of a status is headed by the
\* reason of its status line, and contentTypeByExtension gives a file the type
\* that the table has for the letters after its last dot, whatever the name.
THEOREM PagesMatchAlways == Spec => []PagesMatch
<1>1. Init => PagesMatch
  <2>1. Init => call.op # "page"
    BY DEF Init, Idle
  <2> QED BY <2>1 DEF PagesMatch
<1>2. PagesMatch /\ [Next]_call => PagesMatch'
  <2> SUFFICES ASSUME PagesMatch, [Next]_call PROVE PagesMatch'
    OBVIOUS
  <2>1. CASE Answer
    BY <2>1, AnswerMatches
  <2>2. CASE call'.op # "page"
    BY <2>2 DEF PagesMatch
  <2>3. CASE UNCHANGED call
    BY <2>3 DEF PagesMatch
  <2> QED BY <2>1, <2>2, <2>3, Kinds DEF Next
<1> QED BY <1>1, <1>2, PTL DEF Spec

-----------------------------------------------------------------------------
(* Times *)

\* x lies between the two, written without the set of all between
Between(x, low, high) == x \in Int /\ low <= x /\ x <= high

\* The year of an era and the day of that year, counted from March, as Civil
\* finds them
YearOfEra(doe) == (doe - doe \div 1460 + doe \div 36524 - doe \div 146096) \div 365
DayOfYear(doe) == doe - (365 * YearOfEra(doe) + YearOfEra(doe) \div 4 - YearOfEra(doe) \div 100)

\* Both are in range on every day of the 400 years.
LEMMA EraRange ==
    ASSUME NEW doe \in Int, 0 <= doe, doe <= 146096
    PROVE  Between(YearOfEra(doe), 0, 399) /\ Between(DayOfYear(doe), 0, 365)
BY SMT DEF YearOfEra, DayOfYear, Between

\* The month and the day of it, both from 0 on
MonthOf(doy) == (5 * doy + 2) \div 153
DayOfMonth(doy) == doy - (153 * MonthOf(doy) + 2) \div 5

\* Both are in range on every day of such a year, and the last two months begin the
\* year that follows.
LEMMA YearRange ==
    ASSUME NEW doy \in Int, 0 <= doy, doy <= 365
    PROVE  /\ Between(MonthOf(doy), 0, 11) /\ Between(DayOfMonth(doy), 0, 30)
           /\ MonthOf(doy) >= 10 <=> doy >= 306
BY SMT DEF MonthOf, DayOfMonth, Between

\* The day that a date is
DayOf(tm) ==
    LET mp == (tm.mon + 10) % 12
        y == tm.year - IF tm.mon < 2 THEN 1 ELSE 0
        yoe == y % 400
    IN (y \div 400) * 146097 + 365 * yoe + yoe \div 4 - yoe \div 100 + (153 * mp + 2) \div 5 + tm.mday - 1 - 719468

\* Where the year of a date begins, as timegm counts
NewYear(year) ==
    365 * (year - 1970) + (year - 1) \div 4 - (year - 1) \div 100 + (year - 1) \div 400 - 477

\* The years before year count as many leap days as the eras and the years of this
\* one hold.
LEMMA LeapDays ==
    ASSUME NEW era \in Int, NEW n \in Int, 0 <= n, n <= 399
    PROVE  /\ (n + era * 400) \div 4 = n \div 4 + 100 * era
           /\ (n + era * 400) \div 100 = n \div 100 + 4 * era
           /\ (n + era * 400) \div 400 = era
           /\ (n + era * 400) % 400 = n
BY SMT

\* The day at a place of an era, and the year that it is in
DayAt(era, yoe, doy) == 146097 * era + 365 * yoe + yoe \div 4 - yoe \div 100 + doy - 719468
YearAt(era, yoe, doy) == yoe + era * 400 + IF doy >= 306 THEN 1 ELSE 0

\* A day lies in the year that Civil finds, though that one began in January.
LEMMA NewYearBounds ==
    ASSUME NEW era \in Int, NEW yoe \in Int, 0 <= yoe, yoe <= 399,
           NEW doy \in Int, 0 <= doy, doy <= 365
    PROVE  /\ NewYear(YearAt(era, yoe, doy)) <= DayAt(era, yoe, doy)
           /\ DayAt(era, yoe, doy) <= NewYear(YearAt(era, yoe, doy)) + 365
<1> DEFINE year == YearAt(era, yoe, doy)
<1>1. CASE doy >= 306
  <2>1. year - 1 = yoe + era * 400
    BY <1>1, SMT DEF YearAt
  <2>2. NewYear(year) = 365 * (yoe + era * 400 - 1969) + yoe \div 4 - yoe \div 100 + 97 * era - 477
    BY <2>1, LeapDays, SMT DEF NewYear, YearAt
  <2> QED BY <1>1, <2>2, SMT DEF DayAt
<1>2. CASE ~(doy >= 306) /\ yoe = 0
  BY <1>2, SMT DEF NewYear, DayAt, YearAt
<1>3. CASE ~(doy >= 306) /\ yoe >= 1
  <2>1. year - 1 = (yoe - 1) + era * 400
    BY <1>3, SMT DEF YearAt
  <2>2. NewYear(year) = 365 * (yoe + era * 400 - 1970) + (yoe - 1) \div 4 - (yoe - 1) \div 100 + 97 * era - 477
    BY <1>3, <2>1, LeapDays, SMT DEF NewYear, YearAt
  <2> QED BY <1>3, <2>2, SMT DEF DayAt
<1> QED BY <1>1, <1>2, <1>3, SMT

\* Civil finds a date from which the day can be told, in a year that has the day.
LEMMA CivilIsRight ==
    ASSUME NEW day \in Int
    PROVE  /\ Civil(day) \in [mday : 1 .. 31, mon : 0 .. 11, year : Int]
           /\ DayOf(Civil(day)) = day
           /\ NewYear(Civil(day).year) <= day
           /\ day <= NewYear(Civil(day).year) + 365
<1> DEFINE z == day + 719468
           era == z \div 146097
           doe == z % 146097
           yoe == YearOfEra(doe)
           doy == DayOfYear(doe)
           mp == MonthOf(doy)
           mon == (mp + 2) % 12
           year == yoe + era * 400 + IF mon < 2 THEN 1 ELSE 0
           mday == DayOfMonth(doy) + 1
<1>1. Civil(day) = [mday |-> mday, mon |-> mon, year |-> year]
  BY SMT DEF Civil, YearOfEra, DayOfYear, MonthOf, DayOfMonth
<1>2. /\ era \in Int /\ doe \in Int /\ 0 <= doe /\ doe <= 146096
      /\ day = 146097 * era + doe - 719468
  BY SMT
<1> HIDE DEF z, era, doe
<1>3. yoe \in Int /\ 0 <= yoe /\ yoe <= 399 /\ doy \in Int /\ 0 <= doy /\ doy <= 365
  BY <1>2, EraRange, SMT DEF Between
<1>4. doe = 365 * yoe + yoe \div 4 - yoe \div 100 + doy
  <2>1. yoe \div 4 \in Int /\ yoe \div 100 \in Int
    BY <1>3, SMT
  <2>2. doy = doe - (365 * yoe + yoe \div 4 - yoe \div 100)
    BY DEF DayOfYear
  <2> HIDE DEF yoe, doy
  <2> QED BY <1>2, <1>3, <2>1, <2>2, SMT
<1> HIDE DEF yoe, doy
<1>5. /\ mp \in Int /\ 0 <= mp /\ mp <= 11 /\ mday \in Int /\ 1 <= mday /\ mday <= 31
      /\ mp >= 10 <=> doy >= 306
  BY <1>3, YearRange, SMT DEF Between
<1>6. doy = (153 * mp + 2) \div 5 + mday - 1
  BY <1>3, SMT DEF DayOfMonth, MonthOf
<1> HIDE DEF mp, mday
<1>7. mon \in Int /\ 0 <= mon /\ mon <= 11 /\ (mon < 2 <=> mp >= 10) /\ mp = (mon + 10) % 12
  BY <1>5, SMT
<1> HIDE DEF mon
<1>8. year \in Int
  BY <1>2, <1>3, SMT
<1>9. (year - IF mon < 2 THEN 1 ELSE 0) \div 400 = era /\ (year - IF mon < 2 THEN 1 ELSE 0) % 400 = yoe
  BY <1>2, <1>3, SMT
<1>10. NewYear(year) <= day /\ day <= NewYear(year) + 365
  <2>1. year = YearAt(era, yoe, doy)
    BY <1>5, <1>7 DEF YearAt
  <2> HIDE DEF year
  <2>2. day = DayAt(era, yoe, doy)
    BY <1>2, <1>3, <1>4, SMT DEF DayAt
  <2> QED BY <1>2, <1>3, <2>1, <2>2, NewYearBounds
<1> HIDE DEF year
<1>11. Civil(day).mday = mday /\ Civil(day).mon = mon /\ Civil(day).year = year
  BY <1>1, SMT
<1>12. DayOf(Civil(day)) = day
  <2>1. DayOf(Civil(day)) = era * 146097 + 365 * yoe + yoe \div 4 - yoe \div 100 + (153 * mp + 2) \div 5 + mday - 1 - 719468
    BY <1>7, <1>9, <1>11, SMT DEF DayOf
  <2> QED BY <1>2, <1>3, <1>4, <1>5, <1>6, <2>1, SMT
<1>13. Civil(day) \in [mday : 1 .. 31, mon : 0 .. 11, year : Int]
  BY <1>1, <1>5, <1>7, <1>8, SMT
<1> QED BY <1>10, <1>11, <1>12, <1>13, SMT

\* timegm undoes gmtime_r, at whatever time.
LEMMA TimegmInverts ==
    ASSUME NEW t \in Int, NEW tm,
           tm.mday = gmtime_r(t).mday, tm.mon = gmtime_r(t).mon,
           tm.year = gmtime_r(t).year, tm.second = gmtime_r(t).second
    PROVE  timegm(tm) = t
<1> DEFINE day == t \div Daily
           date == Civil(day)
           from == NewYear(tm.year)
           found == CHOOSE d \in from .. (from + 365) : Civil(d) = [mday |-> tm.mday, mon |-> tm.mon, year |-> tm.year]
<1>1. day \in Int /\ t % Daily \in Int /\ (day * Daily) + (t % Daily) = t
  BY DEF Daily
<1> HIDE DEF day
<1>2. /\ date \in [mday : 1 .. 31, mon : 0 .. 11, year : Int]
      /\ day \in NewYear(date.year) .. (NewYear(date.year) + 365)
  BY <1>1, CivilIsRight
<1>3. tm.mday = date.mday /\ tm.mon = date.mon /\ tm.year = date.year /\ tm.second = t % Daily
  BY DEF gmtime_r, day
<1>4. [mday |-> tm.mday, mon |-> tm.mon, year |-> tm.year] = date
  BY <1>2, <1>3
<1>5. from \in Int
  BY <1>2, <1>3 DEF NewYear
<1>6. found \in from .. (from + 365) /\ Civil(found) = date
  BY <1>2, <1>3, <1>4
<1>7. found = day
  <2> HIDE DEF found
  <2>1. found \in Int
    BY <1>5, <1>6
  <2>2. DayOf(Civil(found)) = found
    BY <2>1, CivilIsRight
  <2>3. DayOf(date) = day
    BY <1>1, CivilIsRight
  <2> QED BY <1>6, <2>2, <2>3
<1>8. timegm(tm) = found * Daily + tm.second
  BY DEF timegm, NewYear
<1> QED BY <1>1, <1>3, <1>7, <1>8

\* The months have different names.
LEMMA MonthNames == \A i, j \in 1 .. 12 : Months[i] = Months[j] => i = j
BY SMT DEF Months

\* Two digits are read as the number that they write.
LEMMA TwoReads ==
    ASSUME NEW n \in Nat
    PROVE  Number(Two(n)) = n /\ Two(n) \in Seq(Int) /\ Len(Two(n)) = 2
<1>1. (10 * (n \div 10)) + (n % 10) = n /\ n \div 10 \in Int /\ n % 10 \in Int
  BY SMT
<1> QED BY <1>1 DEF Number, Two

\* Two such pairs after each other
LEMMA PairsJoined ==
    ASSUME NEW u \in Seq(Int), NEW v \in Seq(Int), Len(u) = 2, Len(v) = 2
    PROVE  /\ Len(u \o v) = 4
           /\ Number(SubSeq(u \o v, 1, 2)) = Number(u) /\ Number(SubSeq(u \o v, 3, 4)) = Number(v)
<1> DEFINE w == u \o v
<1>1. /\ w \in Seq(Int)
      /\ Len(w) = Len(u) + Len(v)
      /\ \A i \in 1 .. Len(u) + Len(v) : w[i] = IF i <= Len(u) THEN u[i] ELSE v[i - Len(u)]
  BY ConcatProperties, Zenon
<1> HIDE DEF w
<1>2. \A i \in 1 .. 4 : w[i] = IF i <= 2 THEN u[i] ELSE v[i - 2]
  BY <1>1
<1>3. w[1] = u[1] /\ w[2] = u[2] /\ w[3] = v[1] /\ w[4] = v[2] /\ Len(w) = 4
  BY <1>1, <1>2
<1>4. /\ SubSeq(w, 1, 2)[1] = w[1] /\ SubSeq(w, 1, 2)[2] = w[2]
      /\ SubSeq(w, 3, 4)[1] = w[3] /\ SubSeq(w, 3, 4)[2] = w[4]
  BY <1>1, <1>3
<1>5. Number(SubSeq(w, 1, 2)) = Number(u) /\ Number(SubSeq(w, 3, 4)) = Number(v)
  BY <1>3, <1>4 DEF Number
<1> QED BY <1>3, <1>5 DEF w

\* read as the two numbers they write
LEMMA FourReads ==
    ASSUME NEW a \in Nat, NEW b \in Nat
    PROVE  /\ Len(Two(a) \o Two(b)) = 4
           /\ Number(SubSeq(Two(a) \o Two(b), 1, 2)) = a /\ Number(SubSeq(Two(a) \o Two(b), 3, 4)) = b
<1>1. /\ Two(a) \in Seq(Int) /\ Two(b) \in Seq(Int) /\ Len(Two(a)) = 2 /\ Len(Two(b)) = 2
      /\ Number(Two(a)) = a /\ Number(Two(b)) = b
  BY TwoReads
<1> QED BY <1>1, PairsJoined, Zenon

\* A year of four digits is read as it was written.
LEMMA YearReads ==
    ASSUME NEW y \in Int, 1000 <= y, y <= 9999
    PROVE  /\ Len(YearText(y)) = 4
           /\ 100 * Number(SubSeq(YearText(y), 1, 2)) + Number(SubSeq(YearText(y), 3, 4)) = y
<1> DEFINE a == y \div 100
           b == y % 100
           w == YearText(y)
<1>1. a \in Nat /\ b \in Nat /\ 100 * a + b = y
  BY SMT
<1>2. w = Two(a) \o Two(b)
  BY DEF YearText
<1> HIDE DEF a, b, w
<1>3. Len(w) = 4 /\ Number(SubSeq(w, 1, 2)) = a /\ Number(SubSeq(w, 3, 4)) = b
  BY <1>1, <1>2, FourReads
<1>4. 100 * Number(SubSeq(w, 1, 2)) + Number(SubSeq(w, 3, 4)) = y
  BY <1>1, <1>3
<1> QED BY <1>3, <1>4 DEF w

\* Hours, minutes and seconds make up the second of the day.
LEMMA ClockReads ==
    ASSUME NEW n \in Nat
    PROVE  /\ n \div 3600 \in Nat /\ (n % 3600) \div 60 \in Nat /\ n % 60 \in Nat
           /\ 3600 * (n \div 3600) + 60 * ((n % 3600) \div 60) + (n % 60) = n
BY SMT

\* Reading a stamp gives the date back.
LEMMA StampReads ==
    ASSUME NEW tm, tm.mday \in 1 .. 31, tm.mon \in 0 .. 11, tm.second \in Nat,
           tm.year \in Int, 1000 <= tm.year, tm.year <= 9999
    PROVE  /\ ReadStamp(Stamp(tm)).mday = tm.mday /\ ReadStamp(Stamp(tm)).mon = tm.mon
           /\ ReadStamp(Stamp(tm)).year = tm.year /\ ReadStamp(Stamp(tm)).second = tm.second
           /\ Len(Stamp(tm).year) = 4
<1> DEFINE i == CHOOSE k \in 1 .. 12 : Months[k] = Months[tm.mon + 1]
<1>1. tm.mon + 1 \in 1 .. 12
  OBVIOUS
<1>2. i \in 1 .. 12 /\ Months[i] = Months[tm.mon + 1]
  BY <1>1
<1> HIDE DEF i
<1>3. i - 1 = tm.mon
  BY <1>1, <1>2, MonthNames
<1> DEFINE n == tm.second
<1>4. /\ Stamp(tm).mday = Two(tm.mday) /\ Stamp(tm).mon = Months[tm.mon + 1]
      /\ Stamp(tm).year = YearText(tm.year) /\ Stamp(tm).hour = Two(n \div 3600)
      /\ Stamp(tm).min = Two((n % 3600) \div 60) /\ Stamp(tm).sec = Two(n % 60)
  BY DEF Stamp, getMonth
<1>5. tm.mday \in Nat /\ n \in Nat
  OBVIOUS
<1>6. Number(Two(tm.mday)) = tm.mday
  BY <1>5, TwoReads
<1>7. /\ n \div 3600 \in Nat /\ (n % 3600) \div 60 \in Nat /\ n % 60 \in Nat
      /\ 3600 * (n \div 3600) + 60 * ((n % 3600) \div 60) + (n % 60) = n
  <2> HIDE DEF n
  <2> QED BY <1>5, ClockReads
<1>8. 3600 * Number(Two(n \div 3600)) + 60 * Number(Two((n % 3600) \div 60)) + Number(Two(n % 60)) = n
  <2> HIDE DEF n
  <2>1. /\ Number(Two(n \div 3600)) = n \div 3600
        /\ Number(Two((n % 3600) \div 60)) = (n % 3600) \div 60
        /\ Number(Two(n % 60)) = n % 60
    BY <1>7, TwoReads
  <2> QED BY <1>7, <2>1
<1>9. /\ Len(YearText(tm.year)) = 4
      /\ 100 * Number(SubSeq(YearText(tm.year), 1, 2)) + Number(SubSeq(YearText(tm.year), 3, 4)) = tm.year
  BY YearReads
<1>10. /\ ReadStamp(Stamp(tm)).mday = Number(Stamp(tm).mday)
       /\ ReadStamp(Stamp(tm)).mon = i - 1
       /\ ReadStamp(Stamp(tm)).year = 100 * Number(SubSeq(Stamp(tm).year, 1, 2)) + Number(SubSeq(Stamp(tm).year, 3, 4))
       /\ ReadStamp(Stamp(tm)).second
            = 3600 * Number(Stamp(tm).hour) + 60 * Number(Stamp(tm).min) + Number(Stamp(tm).sec)
  BY <1>4 DEF ReadStamp, i
<1> QED BY <1>3, <1>4, <1>6, <1>8, <1>9, <1>10

\* gmtime_r gives a date that Stamp can write.
LEMMA GmtimeRange ==
    ASSUME NEW t \in Int
    PROVE  /\ gmtime_r(t).mday \in 1 .. 31 /\ gmtime_r(t).mon \in 0 .. 11
           /\ gmtime_r(t).year \in Int /\ gmtime_r(t).second \in Nat
<1>1. t \div Daily \in Int /\ t % Daily \in Nat
  BY DEF Daily
<1>2. Civil(t \div Daily) \in [mday : 1 .. 31, mon : 0 .. 11, year : Int]
  BY <1>1, CivilIsRight
<1> QED BY <1>1, <1>2 DEF gmtime_r

\* A stamp is read as the time that it was made of.
LEMMA StampTime ==
    ASSUME NEW t \in Int, Writable(t)
    PROVE  ReadTime(Stamp(gmtime_r(t))) = Checked(t)
<1> DEFINE s == Stamp(gmtime_r(t))
           tm == ReadStamp(s)
<1>1. /\ tm.mday = gmtime_r(t).mday /\ tm.mon = gmtime_r(t).mon
      /\ tm.year = gmtime_r(t).year /\ tm.second = gmtime_r(t).second
      /\ Len(s.year) = 4
  BY GmtimeRange, StampReads DEF Writable
<1> HIDE DEF tm
<1>2. timegm(tm) = t
  BY <1>1, TimegmInverts
<1> HIDE DEF s
<1> QED BY <1>1, <1>2 DEF ReadTime, tm, s

\* The blank before a one-digit day becomes a zero again.
LEMMA BlankReads ==
    ASSUME NEW tm, tm.mday \in 1 .. 31, NEW s, s = Stamp(tm),
           NEW b, b = IF s.mday[1] = 0 THEN [s EXCEPT !.mday[1] = Blank] ELSE s
    PROVE  (IF b.mday[1] = Blank THEN [b EXCEPT !.mday[1] = 0] ELSE b) = s
<1> DEFINE m == tm.mday
           tens == m \div 10
           ones == m % 10
           with(d) == [wday |-> getDayOfWeek(tm.wday), mday |-> <<d, ones>>, mon |-> getMonth(tm.mon),
                       year |-> YearText(tm.year), hour |-> Two(tm.second \div 3600),
                       min |-> Two((tm.second % 3600) \div 60), sec |-> Two(tm.second % 60)]
<1>1. tens \in 0 .. 3
  <2>1. m \in 1 .. 31
    OBVIOUS
  <2> HIDE DEF m
  <2> QED BY <2>1
<1>2. s = with(tens)
  <2>1. Two(tm.mday) = <<tens, ones>>
    BY DEF Two
  <2> DEFINE on(p) == [wday |-> getDayOfWeek(tm.wday), mday |-> p, mon |-> getMonth(tm.mon),
                       year |-> YearText(tm.year), hour |-> Two(tm.second \div 3600),
                       min |-> Two((tm.second % 3600) \div 60), sec |-> Two(tm.second % 60)]
  <2>2. s = on(Two(tm.mday))
    BY Zenon DEF Stamp
  <2>3. with(tens) = on(<<tens, ones>>)
    BY Zenon
  <2> HIDE DEF on, with, tens, ones
  <2> QED BY <2>1, <2>2, <2>3, Zenon
<1> HIDE DEF m, tens, ones
<1>3. \A d, e : with(d).mday[1] = d /\ [with(d) EXCEPT !.mday[1] = e] = with(e)
  OBVIOUS
<1>4. Blank # 0 /\ Blank # tens
  BY <1>1 DEF Blank
<1> HIDE DEF with
<1>5. CASE tens = 0
  <2>1. s = with(0)
    BY <1>2, <1>5
  <2>2. b = with(Blank)
    BY <1>3, <2>1
  <2> QED BY <1>3, <2>1, <2>2
<1>6. CASE tens # 0
  BY <1>2, <1>3, <1>4, <1>6
<1> QED BY <1>5, <1>6

\* The zone's hours and minutes make up its size.
LEMMA ZoneReads ==
    ASSUME NEW offset \in Int, offset % 60 = 0, NEW size, size = IF offset < 0 THEN -offset ELSE offset
    PROVE  size \in Nat /\ Number(Two(size \div 3600)) * 3600 + Number(Two((size % 3600) \div 60)) * 60 = size
<1>1. /\ size \in Nat /\ size \div 3600 \in Nat /\ (size % 3600) \div 60 \in Nat
      /\ (size \div 3600) * 3600 + ((size % 3600) \div 60) * 60 = size
  BY SMT
<1>2. Number(Two(size \div 3600)) = size \div 3600 /\ Number(Two((size % 3600) \div 60)) = (size % 3600) \div 60
  BY <1>1, TwoReads
<1> QED BY <1>1, <1>2

\* The sign of the zone
LEMMA ZoneSign ==
    ASSUME NEW t \in Int, NEW offset \in Int
    PROVE  makeSmtpTime(t, offset).minus <=> offset < 0
BY DEF makeSmtpTime

\* A time written for SMTP is read back, whatever the zone, but for the second
\* before 1970 as the clock of that zone shows it.
LEMMA SmtpTimeReads ==
    ASSUME NEW t \in Int, NEW offset \in Int, offset % 60 = 0, Writable(t + offset)
    PROVE  readSmtpTime(makeSmtpTime(t, offset)) = IF t + offset = -1 THEN <<>> ELSE <<t>>
<1> DEFINE size == IF offset < 0 THEN -offset ELSE offset
           s == Stamp(gmtime_r(t + offset))
           b == IF s.mday[1] = 0 THEN [s EXCEPT !.mday[1] = Blank] ELSE s
           out == makeSmtpTime(t, offset)
<1>1. /\ out.stamp = b /\ out.minus = (offset < 0)
      /\ out.tzH = Two(size \div 3600) /\ out.tzM = Two((size % 3600) \div 60)
  BY DEF makeSmtpTime
<1>2. (IF b.mday[1] = Blank THEN [b EXCEPT !.mday[1] = 0] ELSE b) = s
  BY GmtimeRange, BlankReads
<1>3. ReadTime(s) = Checked(t + offset)
  BY StampTime
<1> HIDE DEF b, s
<1>4. ReadSmtpStamp(b) = Checked(t + offset)
  BY <1>2, <1>3 DEF ReadSmtpStamp
<1> DEFINE k == Number(out.tzH) * 3600 + Number(out.tzM) * 60
<1>5. k = size /\ size \in Nat
  BY <1>1, ZoneReads
<1>6. /\ offset < 0 => t + offset + k = t
      /\ ~(offset < 0) => t + offset - k = t
  BY <1>5
<1>7. k \in Int
  BY <1>5
<1> HIDE DEF out, k
<1>8. CASE t + offset = -1
  BY <1>1, <1>4, <1>8 DEF readSmtpTime, Checked, out
<1>9. CASE t + offset # -1
  <2> DEFINE x == t + offset
             local == ReadSmtpStamp(out.stamp)
  <2>1. local = <<x>> /\ x \in Int
    BY <1>1, <1>4, <1>9 DEF Checked
  <2> HIDE DEF x
  <2>2. local # <<>> /\ local[1] = x
    BY <2>1
  <2> HIDE DEF local
  <2> DEFINE tzAdjust == IF out.minus THEN 1 ELSE -1
             sign == IF offset < 0 THEN 1 ELSE -1
  <2>3. readSmtpTime(out) = <<local[1] + tzAdjust * k>>
    BY <2>2, Zenon DEF readSmtpTime, local, k
  <2>4. x + sign * k = t
    BY <1>6, <1>7, SMT DEF x
  <2>5. tzAdjust = sign
    <3>1. CASE offset < 0
      <4>1. out.minus = TRUE
        BY <1>1, <3>1, Zenon
      <4>2. tzAdjust = 1
        BY <4>1, Zenon
      <4>3. sign = 1
        BY <3>1, Zenon
      <4> QED BY <4>2, <4>3
    <3>2. CASE ~(offset < 0)
      <4>1. ~out.minus
        BY <3>2, ZoneSign DEF out
      <4>2. tzAdjust = -1
        BY <4>1, Zenon
      <4>3. sign = -1
        BY <3>2, Zenon
      <4> QED BY <4>2, <4>3
    <3> QED BY <3>1, <3>2
  <2> HIDE DEF tzAdjust, sign
  <2>6. readSmtpTime(out) = <<t>>
    BY <2>2, <2>3, <2>4, <2>5
  <2> QED BY <1>9, <2>6 DEF out
<1> QED BY <1>8, <1>9

\* What WriteTime leaves is as TimesReadBack says.
LEMMA WriteTimeReads == WriteTime => TimesReadBack'
<1> SUFFICES ASSUME WriteTime PROVE TimesReadBack'
  OBVIOUS
<1>1. PICK t \in Times, z \in Offsets :
        call' = [op |-> "time", in |-> t, zone |-> z, http |-> readHttpTime(makeHttpTime(t)),
                 smtp |-> readSmtpTime(makeSmtpTime(t, z))]
  BY DEF WriteTime
<1>2. t \in Int /\ z \in Int /\ z % 60 = 0
  BY CallAssumption
<1>3. Writable(t) => readHttpTime(makeHttpTime(t)) = IF t = -1 THEN <<>> ELSE <<t>>
  BY <1>2, StampTime DEF readHttpTime, makeHttpTime, Checked
<1>4. Writable(t + z) => readSmtpTime(makeSmtpTime(t, z)) = IF t + z = -1 THEN <<>> ELSE <<t>>
  BY <1>2, SmtpTimeReads
<1>5. call'.in = t /\ call'.zone = z /\ call'.http = readHttpTime(makeHttpTime(t)) /\ call'.smtp = readSmtpTime(makeSmtpTime(t, z))
  BY <1>1
<1> QED BY <1>3, <1>4, <1>5 DEF TimesReadBack

\* TimesReadBack, a part of DecodesBack, holds of every call: the dates that
\* makeHttpTime and makeSmtpTime write are read back as the same second by
\* readHttpTime and readSmtpTime, at any time of the years from 1000 to 9999 and
\* in any zone of whole minutes, but for the one that timegm's result -1 stands
\* for.
THEOREM TimesReadBackAlways == Spec => []TimesReadBack
<1>1. Init => TimesReadBack
  <2>1. Init => call.op # "time"
    BY DEF Init, Idle
  <2> QED BY <2>1 DEF TimesReadBack
<1>2. TimesReadBack /\ [Next]_call => TimesReadBack'
  <2> SUFFICES ASSUME TimesReadBack, [Next]_call PROVE TimesReadBack'
    OBVIOUS
  <2>1. CASE WriteTime
    BY <2>1, WriteTimeReads
  <2>2. CASE call'.op # "time"
    BY <2>2 DEF TimesReadBack
  <2>3. CASE UNCHANGED call
    BY <2>3 DEF TimesReadBack
  <2> QED BY <2>1, <2>2, <2>3, Kinds DEF Next
<1> QED BY <1>1, <1>2, PTL DEF Spec

-----------------------------------------------------------------------------
(* Loops over a text *)

\* Induction, for what holds of the members of a set.
LEMMA SetInduction ==
    ASSUME NEW S, 0 \in S, \A n \in Nat : n \in S => n + 1 \in S
    PROVE  \A n \in Nat : n \in S
<1> SUFFICES ASSUME NEW m \in Nat, m \notin S PROVE FALSE
  OBVIOUS
<1> DEFINE T == {n \in Nat : n \notin S}
<1>1. T \subseteq Nat /\ T # {}
  OBVIOUS
<1>2. PICK x \in T : \A y \in T : x <= y
  BY <1>1, Smallest
<1>3. x # 0 /\ x \in Nat
  BY <1>2
<1>4. x - 1 \in Nat /\ x - 1 < x /\ (x - 1) + 1 = x
  BY <1>3
<1>5. x - 1 \in T
  BY <1>2, <1>4
<1> QED BY <1>2, <1>4, <1>5

\* A longer function: another value at the end
Longer(g, n, x) == [i \in 0 .. (n + 1) |-> IF i = n + 1 THEN x ELSE g[i]]

\* f has what the first 1, 2, ..., n of the sequences are together.
Flattening(seqs, n, f) == f = [i \in 1 .. n |-> IF i = 1 THEN seqs[i] ELSE f[i - 1] \o seqs[i]]

\* The function exists, for every number of sequences.
LEMMA FlatteningExists == ASSUME NEW seqs PROVE \A n \in Nat : \E f : Flattening(seqs, n, f)
<1> DEFINE S == {n \in Nat : \E f : Flattening(seqs, n, f)}
           val(h, i) == IF i = 1 THEN seqs[i] ELSE h[i - 1] \o seqs[i]
<1>1. 0 \in S
  <2> DEFINE f == [i \in 1 .. 0 |-> seqs[i]]
  <2>1. f = [i \in 1 .. 0 |-> val(f, i)]
    OBVIOUS
  <2>2. Flattening(seqs, 0, f)
    BY <2>1, Zenon DEF Flattening
  <2> QED BY <2>2
<1>2. ASSUME NEW n \in Nat, n \in S PROVE n + 1 \in S
  <2>1. PICK g : Flattening(seqs, n, g)
    BY <1>2
  <2> DEFINE next == val(g, n + 1)
             f == [i \in 1 .. (n + 1) |-> IF i = n + 1 THEN next ELSE g[i]]
  <2>2. \A i \in 1 .. n : g[i] = val(g, i)
    BY <2>1, Zenon DEF Flattening
  <2>3. \A i \in 1 .. (n + 1) : f[i] = IF i = n + 1 THEN next ELSE g[i]
    OBVIOUS
  <2>4. ASSUME NEW i \in 1 .. (n + 1) PROVE f[i] = val(f, i)
    <3>1. CASE i = n + 1 /\ n = 0
      BY <2>3, <3>1
    <3>2. CASE i = n + 1 /\ n # 0
      <4>1. n \in 1 .. (n + 1) /\ n # n + 1 /\ i - 1 = n /\ i # 1
        BY <3>2
      <4>2. f[n] = g[n] /\ f[i] = next
        BY <2>3, <3>2, <4>1
      <4> HIDE DEF f
      <4> QED BY <3>2, <4>1, <4>2
    <3>3. CASE i = 1 /\ i # n + 1
      <4>1. i \in 1 .. n
        BY <3>3
      <4> HIDE DEF f, next
      <4> QED BY <2>2, <2>3, <3>3, <4>1
    <3>4. CASE i # 1 /\ i # n + 1
      <4>1. i \in 1 .. n /\ i - 1 \in 1 .. (n + 1) /\ i - 1 # n + 1
        BY <3>4
      <4>2. f[i - 1] = g[i - 1] /\ f[i] = g[i]
        BY <2>3, <3>4, <4>1
      <4> HIDE DEF f
      <4> QED BY <2>2, <3>4, <4>1, <4>2
    <3> QED BY <3>1, <3>2, <3>3, <3>4
  <2>5. f = [i \in 1 .. (n + 1) |-> val(f, i)]
    <3>1. f = [i \in 1 .. (n + 1) |-> f[i]]
      OBVIOUS
    <3> HIDE DEF f, val
    <3> QED BY <2>4, <3>1
  <2>6. Flattening(seqs, n + 1, f)
    BY <2>5, Zenon DEF Flattening
  <2> QED BY <2>6
<1> HIDE DEF S
<1>3. \A n \in Nat : n \in S
  BY <1>1, <1>2, SetInduction
<1> QED BY <1>3 DEF S

\* Together they are a sequence again.
LEMMA FlattenType ==
    ASSUME NEW X, NEW seqs \in Seq(Seq(X))
    PROVE  FlattenSeq(seqs) \in Seq(X)
<1> DEFINE N == Len(seqs)
           f == CHOOSE g : Flattening(seqs, N, g)
<1>1. CASE N = 0
  BY <1>1 DEF FlattenSeq
<1>2. CASE N # 0
  <2>1. N \in Nat /\ N >= 1
    BY <1>2
  <2>2. Flattening(seqs, N, f)
    BY <2>1, FlatteningExists
  <2>3. FlattenSeq(seqs) = f[N]
    BY <1>2, Zenon DEF FlattenSeq, Flattening
  <2> HIDE DEF f
  <2>4. \A i \in 1 .. N : f[i] = IF i = 1 THEN seqs[i] ELSE f[i - 1] \o seqs[i]
    BY <2>2, Zenon DEF Flattening
  <2>5. \A i \in 1 .. N : seqs[i] \in Seq(X)
    OBVIOUS
  <2> HIDE DEF N
  <2> DEFINE S == {n \in Nat : n + 1 <= N => f[n + 1] \in Seq(X)}
  <2>6. 0 \in S
    <3>1. 1 \in 1 .. N
      BY <2>1
    <3> QED BY <2>4, <2>5, <3>1
  <2>7. ASSUME NEW n \in Nat, n \in S PROVE n + 1 \in S
    <3> SUFFICES ASSUME (n + 1) + 1 <= N PROVE f[(n + 1) + 1] \in Seq(X)
      OBVIOUS
    <3> DEFINE i == (n + 1) + 1
    <3>1. i \in 1 .. N /\ i - 1 = n + 1 /\ i # 1 /\ n + 1 <= N
      BY <2>1
    <3> HIDE DEF i
    <3>2. f[i - 1] \in Seq(X) /\ seqs[i] \in Seq(X)
      BY <2>5, <2>7, <3>1
    <3>3. f[i] = f[i - 1] \o seqs[i]
      BY <2>4, <3>1
    <3> QED BY <3>2, <3>3 DEF i
  <2> HIDE DEF S
  <2>8. \A n \in Nat : n \in S
    BY <2>6, <2>7, SetInduction
  <2>9. N - 1 \in Nat /\ (N - 1) + 1 = N
    BY <2>1
  <2>10. f[N] \in Seq(X)
    <3>1. (N - 1) + 1 <= N => f[(N - 1) + 1] \in Seq(X)
      BY <2>8, <2>9 DEF S
    <3> QED BY <2>1, <2>9, <3>1
  <2> QED BY <2>3, <2>10
<1> QED BY <1>1, <1>2

-----------------------------------------------------------------------------
(* Quoted-printable text *)

\* The last line has at most c characters.
EndFits(s, c) == \A i \in 0 .. Len(s) : (\A k \in (i + 1) .. Len(s) : s[k] \notin {CR, LF}) => Len(s) - i <= c

\* One character more: a line goes on by it, or ends.
LEMMA AppendFits ==
    ASSUME NEW s \in Seq(Int), NEW x \in Int, NEW m \in Nat, NEW c \in Nat,
           LinesFit(s, m), EndFits(s, c), x \in {CR, LF} \/ c + 1 <= m
    PROVE  /\ LinesFit(Append(s, x), m)
           /\ EndFits(Append(s, x), IF x \in {CR, LF} THEN 0 ELSE c + 1)
<1> DEFINE t == Append(s, x)
           n == Len(s)
<1>1. t \in Seq(Int) /\ n \in Nat /\ Len(t) = n + 1 /\ t[n + 1] = x /\ \A k \in 1 .. n : t[k] = s[k]
  OBVIOUS
<1> HIDE DEF t
<1>2. ASSUME NEW i \in 0 .. n, \A k \in (i + 1) .. n : t[k] \notin {CR, LF} PROVE n - i <= c
  <2>1. \A k \in (i + 1) .. n : s[k] \notin {CR, LF}
    BY <1>1, <1>2
  <2> QED BY <2>1 DEF EndFits
<1>3. ASSUME NEW i \in 0 .. Len(t), NEW j \in 0 .. Len(t), i < j, \A k \in (i + 1) .. j : t[k] \notin {CR, LF}
      PROVE  j - i <= m
  <2>1. CASE j <= n
    <3>1. i \in 0 .. n /\ j \in 0 .. n
      BY <1>1, <1>3, <2>1
    <3>2. ASSUME NEW k \in (i + 1) .. j PROVE s[k] \notin {CR, LF}
      <4>1. k \in 1 .. n
        BY <3>1
      <4> QED BY <1>1, <1>3, <4>1
    <3> QED BY <1>3, <3>1, <3>2 DEF LinesFit
  <2>2. CASE j = n + 1
    <3>1. i \in 0 .. n /\ \A k \in (i + 1) .. n : t[k] \notin {CR, LF}
      BY <1>1, <1>3, <2>2
    <3>2. n - i <= c
      BY <1>2, <3>1
    <3>3. n + 1 \in (i + 1) .. j
      BY <1>1, <2>2, <3>1
    <3>4. c + 1 <= m
      BY <1>1, <1>3, <3>3
    <3> QED BY <1>1, <2>2, <3>1, <3>2, <3>4
  <2> QED BY <1>1, <2>1, <2>2
<1>4. ASSUME NEW i \in 0 .. Len(t), \A k \in (i + 1) .. Len(t) : t[k] \notin {CR, LF}
      PROVE  Len(t) - i <= IF x \in {CR, LF} THEN 0 ELSE c + 1
  <2>1. CASE i = n + 1
    BY <1>1, <2>1
  <2>2. CASE i \in 0 .. n
    <3>1. x \notin {CR, LF}
      BY <1>1, <1>4, <2>2
    <3>2. n - i <= c
      BY <1>1, <1>2, <1>4, <2>2
    <3> QED BY <1>1, <2>2, <3>1, <3>2
  <2> QED BY <1>1, <2>1, <2>2
<1> QED BY <1>3, <1>4 DEF LinesFit, EndFits, t

\* The two hexadecimal digits of a byte
LEMMA CodeDigits ==
    ASSUME NEW c \in 0 .. 255
    PROVE  Code(c) \in Seq(Int) /\ Len(Code(c)) = 2 /\ \A i \in 1 .. 2 : Code(c)[i] \notin {CR, LF}
<1> DEFINE hi == c \div 16
           lo == c % 16
           pair == <<HexDigit(hi), HexDigit(lo)>>
           seqs == [i \in 1 .. Len(<<c>>) |-> <<HexDigit(<<c>>[i] \div 16), HexDigit(<<c>>[i] % 16)>>]
           f == CHOOSE g : Flattening(seqs, Len(seqs), g)
<1>1. hi \in Int /\ lo \in Int /\ 0 <= hi /\ hi <= 15 /\ 0 <= lo /\ lo <= 15
  OBVIOUS
<1>2. Len(seqs) = 1 /\ seqs[1] = pair
  OBVIOUS
<1> HIDE DEF hi, lo, seqs
<1>3. Flattening(seqs, Len(seqs), f)
  BY <1>2, FlatteningExists
<1>4. FlattenSeq(seqs) = f[Len(seqs)]
  <2>1. Len(seqs) # 0
    BY <1>2
  <2> QED BY <2>1, Zenon DEF FlattenSeq, Flattening
<1> HIDE DEF f
<1>5. f[1] = pair
  BY <1>2, <1>3 DEF Flattening
<1>6. hexDump(<<c>>) = pair
  BY <1>2, <1>4, <1>5 DEF hexDump, seqs
<1>7. HexDigit(hi) \in (48 .. 57) \cup (97 .. 102) /\ HexDigit(lo) \in (48 .. 57) \cup (97 .. 102)
  BY <1>1 DEF HexDigit
<1>8. Code(c) = [i \in 1 .. 2 |-> IF pair[i] \in 97 .. 122 THEN pair[i] - 32 ELSE pair[i]]
  BY <1>6 DEF Code, toUppercase
<1> QED BY <1>7, <1>8 DEF CR, LF

\* A state of the encoder: its lines fit, and lineCount counts the last one.
Lined(st) ==
    /\ st.out \in Seq(Int) /\ st.lineCount \in Nat /\ st.lineCount < MaxQuotedLine
    /\ LinesFit(st.out, MaxQuotedLine) /\ EndFits(st.out, st.lineCount)

\* The same for the encoder, by characters that go on with the line and by ends of it
LEMMA AppendLined ==
    ASSUME NEW s \in Seq(Int), NEW x \in Int, NEW c \in Nat, c <= MaxQuotedLine,
           LinesFit(s, MaxQuotedLine), EndFits(s, c)
    PROVE  /\ Append(s, x) \in Seq(Int)
           /\ x \in {CR, LF} => LinesFit(Append(s, x), MaxQuotedLine) /\ EndFits(Append(s, x), 0)
           /\ x \notin {CR, LF} /\ c < MaxQuotedLine =>
                 LinesFit(Append(s, x), MaxQuotedLine) /\ EndFits(Append(s, x), c + 1)
<1>1. MaxQuotedLine \in Nat /\ (c < MaxQuotedLine => c + 1 <= MaxQuotedLine)
  BY QuotedAssumption
<1> QED BY <1>1, AppendFits

\* A state of that kind, written out
Made(s, c) == [out |-> s, lineCount |-> c]

\* It is one of the states that Lined describes if its text and count are.
LEMMA MadeLined ==
    ASSUME NEW s \in Seq(Int), NEW c \in Nat, c < MaxQuotedLine, LinesFit(s, MaxQuotedLine), EndFits(s, c)
    PROVE  Lined(Made(s, c)) /\ Made(s, c).lineCount = c /\ Made(s, c).out = s
BY DEF Lined, Made

\* What one text after another is
LEMMA Associative == \A x, y, z \in Seq(Int) : (x \o y) \o z = x \o (y \o z)
BY ConcatAssociative

\* What \o returns, for sequences of characters
LEMMA Concat ==
    \A x, y \in Seq(Int) :
        /\ x \o y \in Seq(Int) /\ Len(x \o y) = Len(x) + Len(y)
        /\ \A i \in 1 .. (Len(x) + Len(y)) : (x \o y)[i] = IF i <= Len(x) THEN x[i] ELSE y[i - Len(x)]
BY ConcatProperties, Zenon

\* Three characters more
LEMMA AppendThree ==
    ASSUME NEW s \in Seq(Int), NEW a \in Int, NEW t \in Seq(Int), Len(t) = 2
    PROVE  /\ s \o <<a>> \o t = Append(Append(Append(s, a), t[1]), t[2])
           /\ s \o (<<a>> \o t) = s \o <<a>> \o t
<1>2. t[1] \in Int /\ t[2] \in Int
  <2>1. 1 \in 1 .. Len(t) /\ 2 \in 1 .. Len(t)
    OBVIOUS
  <2> QED BY <2>1, ElementOfSeq
<1> DEFINE u == s \o <<a>>
           l == u \o t
           v == Append(s, a)
           w == Append(v, t[1])
           r == Append(w, t[2])
<1>1. v = u /\ v \in Seq(Int) /\ Len(v) = Len(s) + 1 /\ Len(s) \in Nat
  OBVIOUS
<1> HIDE DEF u, v
<1>6. w \in Seq(Int) /\ Len(w) = Len(v) + 1 /\ w[Len(v) + 1] = t[1] /\ \A i \in 1 .. Len(v) : w[i] = v[i]
  BY <1>1, <1>2
<1> HIDE DEF w
<1>7. r \in Seq(Int) /\ Len(r) = Len(w) + 1 /\ r[Len(w) + 1] = t[2] /\ \A i \in 1 .. Len(w) : r[i] = w[i]
  BY <1>2, <1>6
<1>8. /\ l \in Seq(Int) /\ Len(l) = Len(u) + 2
      /\ \A i \in 1 .. (Len(u) + 2) : l[i] = IF i <= Len(u) THEN u[i] ELSE t[i - Len(u)]
  <2>1. u \in Seq(Int)
    BY <1>1
  <2>2. Len(u) + Len(t) = Len(u) + 2
    OBVIOUS
  <2> HIDE DEF r
  <2> QED BY <2>1, <2>2, Concat, Zenon
<1> HIDE DEF l, r
<1>9. ASSUME NEW i \in 1 .. Len(l) PROVE l[i] = r[i]
  <2>1. CASE i <= Len(v)
    <3>1. i \in 1 .. Len(v) /\ i \in 1 .. Len(w)
      BY <1>1, <1>6, <2>1
    <3> QED BY <1>1, <1>6, <1>7, <1>8, <2>1, <3>1
  <2>2. CASE i = Len(v) + 1
    <3>1. i \in 1 .. Len(w) /\ i - Len(v) = 1 /\ ~(i <= Len(v))
      BY <1>1, <1>6, <2>2
    <3> QED BY <1>1, <1>6, <1>7, <1>8, <2>2, <3>1
  <2>3. CASE i = Len(v) + 2
    <3>1. i = Len(w) + 1 /\ i - Len(v) = 2 /\ ~(i <= Len(v))
      BY <1>1, <1>6, <2>3
    <3> QED BY <1>1, <1>6, <1>7, <1>8, <2>3, <3>1
  <2>4. i \in 1 .. (Len(v) + 2) /\ Len(v) \in Nat
    BY <1>1, <1>8
  <2> QED BY <2>1, <2>2, <2>3, <2>4
<1>3. l = r
  <2>1. Len(l) = Len(r)
    BY <1>1, <1>6, <1>7, <1>8
  <2> QED BY <1>7, <1>8, <1>9, <2>1, SeqEqual
<1>4. <<a>> \in Seq(Int)
  OBVIOUS
<1>5. s \o (<<a>> \o t) = l
  <2>1. s \o (<<a>> \o t) = (s \o <<a>>) \o t
    BY <1>4, Associative
  <2> QED BY <2>1 DEF l, u
<1> QED BY <1>3, <1>5 DEF l, u, r, w, v

\* The encoder breaks a line softly where it has limit characters.
LEMMA SoftBreakLined ==
    ASSUME NEW st, Lined(st), NEW limit \in Nat, limit >= 1
    PROVE  Lined(SoftBreak(st, limit, CRLF, FALSE)) /\ SoftBreak(st, limit, CRLF, FALSE).lineCount < limit
<1> DEFINE s0 == st.out
           s1 == Append(s0, Equals)
           s2 == Append(s1, CR)
           s3 == Append(s2, LF)
           n == st.lineCount
<1>1. /\ s0 \in Seq(Int) /\ LinesFit(s0, MaxQuotedLine) /\ EndFits(s0, n)
      /\ n \in Nat /\ n < MaxQuotedLine /\ MaxQuotedLine \in Nat
  BY QuotedAssumption DEF Lined
<1>2. CASE n >= limit
  <2>1. /\ Equals \in Int /\ Equals \notin {CR, LF} /\ CR \in {CR, LF} /\ LF \in {CR, LF} /\ CR \in Int /\ LF \in Int
        /\ 0 \in Nat /\ 0 < MaxQuotedLine /\ 0 <= MaxQuotedLine /\ n <= MaxQuotedLine
        /\ n + 1 \in Nat /\ n + 1 <= MaxQuotedLine
    BY <1>1, QuotedAssumption DEF Equals, CR, LF
  <2>2. s0 \o <<Equals>> \o CRLF = s3
    <3>1. CRLF \in Seq(Int) /\ Len(CRLF) = 2 /\ CRLF[1] = CR /\ CRLF[2] = LF
      BY <2>1 DEF CRLF
    <3> HIDE DEF s0
    <3> QED BY <1>1, <2>1, <3>1, AppendThree
  <2> HIDE DEF s0, n
  <2>3. s1 \in Seq(Int) /\ LinesFit(s1, MaxQuotedLine) /\ EndFits(s1, n + 1)
    BY <1>1, <2>1, AppendLined
  <2> HIDE DEF s1
  <2>4. s2 \in Seq(Int) /\ LinesFit(s2, MaxQuotedLine) /\ EndFits(s2, 0)
    BY <2>1, <2>3, AppendLined
  <2> HIDE DEF s2
  <2>5. s3 \in Seq(Int) /\ LinesFit(s3, MaxQuotedLine) /\ EndFits(s3, 0)
    BY <2>1, <2>4, AppendLined
  <2> HIDE DEF s3
  <2>6. SoftBreak(st, limit, CRLF, FALSE) = Made(s3, 0)
    BY <1>2, <2>2 DEF SoftBreak, Made, n, s0
  <2>7. Lined(Made(s3, 0)) /\ Made(s3, 0).lineCount = 0
    BY <2>1, <2>5, MadeLined
  <2>8. 0 < limit
    OBVIOUS
  <2> QED BY <2>6, <2>7, <2>8, Zenon
<1>3. CASE ~(n >= limit)
  <2>1. SoftBreak(st, limit, CRLF, FALSE) = st
    BY <1>3 DEF SoftBreak
  <2>2. n < limit
    BY <1>1, <1>3
  <2> QED BY <2>1, <2>2
<1> QED BY <1>2, <1>3

\* One character of the text keeps the lines short.
LEMMA QuotedNextLined ==
    ASSUME NEW st, Lined(st), NEW c \in 0 .. 255
    PROVE  Lined(QuotedNext(st, c, CRLF, FALSE, FALSE))
<1> DEFINE next == QuotedNext(st, c, CRLF, FALSE, FALSE)
           a == SoftBreak(st, MaxQuotedLine - 1, CRLF, FALSE)
           b == SoftBreak(st, MaxQuotedLine - 3, CRLF, FALSE)
           code == <<Equals>> \o Code(c)
<1>1. /\ MaxQuotedLine - 1 \in Nat /\ MaxQuotedLine - 1 >= 1 /\ MaxQuotedLine - 3 \in Nat /\ MaxQuotedLine - 3 >= 1
      /\ MaxQuotedLine \in Nat /\ MaxQuotedLine >= 4
  BY QuotedAssumption
<1>2. Lined(a) /\ a.lineCount < MaxQuotedLine - 1 /\ Lined(b) /\ b.lineCount < MaxQuotedLine - 3
  BY <1>1, SoftBreakLined, Zenon
<1>6. Printable(c, FALSE) => next = Made(a.out \o <<c>>, a.lineCount + Len(<<c>>))
  <2> DEFINE put(s, t) == [out |-> s.out \o t, lineCount |-> s.lineCount + Len(t)]
  <2>1. c \in (32 .. 126) => ~(c \in {LF, CR})
    BY DEF LF, CR
  <2>2. Printable(c, FALSE) => c \notin {LF, CR}
    BY <2>1 DEF Printable
  <2>3. Printable(c, FALSE) => next = put(a, <<c>>)
    BY <2>2, Zenon DEF QuotedNext
  <2> QED BY <2>3, Zenon DEF Made
<1>7. ~Printable(c, FALSE) /\ c \in {LF, CR} => next = Made(Append(st.out, c), 0)
  BY Zenon DEF QuotedNext, Made
<1>8. ~Printable(c, FALSE) /\ c \notin {LF, CR} => next = Made(b.out \o code, b.lineCount + Len(code))
  BY Zenon DEF QuotedNext, Made
<1> HIDE DEF next, a, b, code
<1>3. CASE Printable(c, FALSE)
  <2> DEFINE s == a.out
             n == a.lineCount
  <2>0. s \in Seq(Int) /\ n \in Nat /\ n < MaxQuotedLine - 1 /\ LinesFit(s, MaxQuotedLine) /\ EndFits(s, n)
    BY <1>2, Zenon DEF Lined
  <2> HIDE DEF s, n
  <2>1. /\ n <= MaxQuotedLine /\ n < MaxQuotedLine /\ n + 1 < MaxQuotedLine /\ n + 1 \in Nat
    BY <1>1, <2>0
  <2>2. c \notin {CR, LF} /\ c \in Int
    BY <1>3 DEF Printable, CR, LF
  <2>3. s \o <<c>> = Append(s, c) /\ Len(<<c>>) = 1
    BY <2>0, <2>2
  <2>4. Append(s, c) \in Seq(Int) /\ LinesFit(Append(s, c), MaxQuotedLine) /\ EndFits(Append(s, c), n + 1)
    BY <2>0, <2>1, <2>2, AppendLined
  <2>5. next = Made(Append(s, c), n + 1)
    BY <1>3, <1>6, <2>3 DEF s, n
  <2>6. Lined(Made(Append(s, c), n + 1))
    BY <2>0, <2>1, <2>4, MadeLined
  <2> QED BY <2>5, <2>6 DEF next
<1>4. CASE ~Printable(c, FALSE) /\ c \in {LF, CR}
  <2> DEFINE s == st.out
             n == st.lineCount
  <2>1. /\ s \in Seq(Int) /\ n \in Nat /\ n <= MaxQuotedLine /\ 0 \in Nat /\ 0 < MaxQuotedLine
        /\ LinesFit(s, MaxQuotedLine) /\ EndFits(s, n) /\ c \in Int /\ c \in {CR, LF}
    BY <1>1, <1>4 DEF Lined
  <2> HIDE DEF s, n
  <2>2. Append(s, c) \in Seq(Int) /\ LinesFit(Append(s, c), MaxQuotedLine) /\ EndFits(Append(s, c), 0)
    BY <2>1, AppendLined
  <2>3. Lined(Made(Append(s, c), 0))
    BY <2>1, <2>2, MadeLined
  <2>4. next = Made(Append(s, c), 0)
    BY <1>4, <1>7 DEF s
  <2> QED BY <2>3, <2>4 DEF next
<1>5. CASE ~Printable(c, FALSE) /\ c \notin {LF, CR}
  <2> DEFINE s0 == b.out
             n == b.lineCount
             t == Code(c)
             s1 == Append(s0, Equals)
             s2 == Append(s1, t[1])
             s3 == Append(s2, t[2])
  <2>0. s0 \in Seq(Int) /\ n \in Nat /\ n < MaxQuotedLine - 3 /\ LinesFit(s0, MaxQuotedLine) /\ EndFits(s0, n)
    BY <1>2, Zenon DEF Lined
  <2>2. t \in Seq(Int) /\ Len(t) = 2 /\ t[1] \notin {CR, LF} /\ t[2] \notin {CR, LF} /\ t[1] \in Int /\ t[2] \in Int
    <3>1. t \in Seq(Int) /\ Len(t) = 2 /\ \A i \in 1 .. 2 : t[i] \notin {CR, LF}
      BY CodeDigits
    <3> HIDE DEF t
    <3> QED BY <3>1
  <2> HIDE DEF s0, n, t
  <2>1. /\ n <= MaxQuotedLine /\ n < MaxQuotedLine
        /\ n + 1 \in Nat /\ n + 1 <= MaxQuotedLine /\ n + 1 < MaxQuotedLine
        /\ n + 2 \in Nat /\ n + 2 <= MaxQuotedLine /\ n + 2 < MaxQuotedLine
        /\ n + 3 \in Nat /\ n + 3 < MaxQuotedLine /\ (n + 1) + 1 = n + 2 /\ (n + 2) + 1 = n + 3
    BY <1>1, <2>0
  <2>3. Equals \in Int /\ Equals \notin {CR, LF}
    BY DEF Equals, CR, LF
  <2>4. s0 \o (<<Equals>> \o t) = s3 /\ Len(<<Equals>> \o t) = 3
    <3>1. s0 \o (<<Equals>> \o t) = s3
      <4> HIDE DEF s1, s2, s3
      <4>1. s3 = Append(Append(Append(s0, Equals), t[1]), t[2])
        BY DEF s1, s2, s3
      <4>2. s0 \o (<<Equals>> \o t) = s0 \o <<Equals>> \o t
        BY <2>0, <2>2, <2>3, AppendThree
      <4>3. s0 \o <<Equals>> \o t = Append(Append(Append(s0, Equals), t[1]), t[2])
        BY <2>0, <2>2, <2>3, AppendThree
      <4> QED BY <4>1, <4>2, <4>3
    <3>2. Len(<<Equals>> \o t) = 3
      <4>1. <<Equals>> \in Seq(Int) /\ Len(<<Equals>>) = 1
        BY <2>3
      <4>2. Len(<<Equals>> \o t) = Len(<<Equals>>) + Len(t)
        BY <2>2, <4>1, Concat
      <4> HIDE DEF s1, s2, s3
      <4> QED BY <2>2, <4>1, <4>2
    <3> QED BY <3>1, <3>2
  <2>5. s1 \in Seq(Int) /\ LinesFit(s1, MaxQuotedLine) /\ EndFits(s1, n + 1)
    BY <2>0, <2>1, <2>3, AppendLined
  <2> HIDE DEF s1
  <2>6. s2 \in Seq(Int) /\ LinesFit(s2, MaxQuotedLine) /\ EndFits(s2, n + 2)
    BY <2>1, <2>2, <2>5, AppendLined
  <2> HIDE DEF s2
  <2>7. s3 \in Seq(Int) /\ LinesFit(s3, MaxQuotedLine) /\ EndFits(s3, n + 3)
    BY <2>1, <2>2, <2>6, AppendLined
  <2> HIDE DEF s3
  <2>8. next = Made(s3, n + 3)
    BY <1>5, <1>8, <2>4 DEF code, s0, n, t
  <2>9. Lined(Made(s3, n + 3))
    BY <2>1, <2>7, MadeLined
  <2> QED BY <2>8, <2>9 DEF next
<1> QED BY <1>3, <1>4, <1>5

\* f has the encoder's states after the first n characters of s.
Quoting(s, n, f) ==
    f = [i \in 0 .. n |-> IF i = 0 THEN Made(<<>>, 0) ELSE QuotedNext(f[i - 1], s[i], CRLF, FALSE, FALSE)]

\* There are such states, for a text of any length.
LEMMA QuotingExists == ASSUME NEW s PROVE \A n \in Nat : \E f : Quoting(s, n, f)
<1> DEFINE S == {n \in Nat : \E f : Quoting(s, n, f)}
           val(h, i) == IF i = 0 THEN Made(<<>>, 0) ELSE QuotedNext(h[i - 1], s[i], CRLF, FALSE, FALSE)
<1>1. 0 \in S
  <2> DEFINE f == [i \in 0 .. 0 |-> Made(<<>>, 0)]
  <2>1. f = [i \in 0 .. 0 |-> val(f, i)]
    OBVIOUS
  <2>2. Quoting(s, 0, f)
    BY <2>1, Zenon DEF Quoting
  <2> QED BY <2>2
<1>2. ASSUME NEW n \in Nat, n \in S PROVE n + 1 \in S
  <2>1. PICK g : Quoting(s, n, g)
    BY <1>2
  <2> DEFINE x == val(g, n + 1)
             f == Longer(g, n, x)
  <2>2. \A i \in 0 .. n : g[i] = val(g, i)
    BY <2>1, Zenon DEF Quoting
  <2> HIDE DEF x
  <2>3. /\ f = [i \in 0 .. (n + 1) |-> f[i]]
        /\ f[n + 1] = x /\ \A i \in 0 .. n : f[i] = g[i]
    BY DEF Longer
  <2> HIDE DEF f
  <2>4. ASSUME NEW i \in 0 .. (n + 1) PROVE f[i] = val(f, i)
    <3>1. i = 0 \/ i - 1 \in 0 .. n
      OBVIOUS
    <3>2. val(f, i) = val(g, i)
      BY <2>3, <3>1
    <3>3. i = n + 1 \/ i \in 0 .. n
      OBVIOUS
    <3> QED BY <2>2, <2>3, <3>2, <3>3, Zenon DEF x
  <2>5. f = [i \in 0 .. (n + 1) |-> val(f, i)]
    <3> HIDE DEF val
    <3> QED BY <2>3, <2>4
  <2>6. Quoting(s, n + 1, f)
    BY <2>5, Zenon DEF Quoting
  <2>7. n + 1 \in Nat
    OBVIOUS
  <2> QED BY <2>6, <2>7, Zenon
<1> HIDE DEF S
<1>3. \A n \in Nat : n \in S
  BY <1>1, <1>2, SetInduction
<1> QED BY <1>3 DEF S

Byte == 0 .. 255

\* No line of a quoted-printable text is longer than it may be, whatever the text.
LEMMA QuotedLinesShort ==
    ASSUME NEW s \in Seq(Byte)
    PROVE  LinesFit(quotedPrintableEncode(s, CRLF, FALSE, FALSE), MaxQuotedLine)
<1> DEFINE N == Len(s)
           f == CHOOSE g : Quoting(s, N, g)
<1>0. N \in Nat /\ \A i \in 1 .. N : s[i] \in Byte
  OBVIOUS
<1>1. Quoting(s, N, f)
  BY <1>0, QuotingExists, Zenon
<1>2. quotedPrintableEncode(s, CRLF, FALSE, FALSE) = f[N].out
  BY Zenon DEF quotedPrintableEncode, Quoting, Made
<1> HIDE DEF f
<1>3. f[0] = Made(<<>>, 0) /\ \A i \in 1 .. N : f[i] = QuotedNext(f[i - 1], s[i], CRLF, FALSE, FALSE)
  BY <1>1 DEF Quoting
<1> HIDE DEF N
<1> DEFINE S == {n \in Nat : n <= N => Lined(f[n])}
<1>5. 0 \in S
  <2>1. <<>> \in Seq(Int) /\ Len(<<>>) = 0 /\ 0 \in Nat /\ 0 < MaxQuotedLine
    BY QuotedAssumption
  <2>2. LinesFit(<<>>, MaxQuotedLine) /\ EndFits(<<>>, 0)
    BY <2>1 DEF LinesFit, EndFits
  <2>3. Lined(Made(<<>>, 0))
    BY <2>1, <2>2, MadeLined
  <2> QED BY <1>3, <2>3
<1>6. ASSUME NEW n \in Nat, n \in S PROVE n + 1 \in S
  <2> SUFFICES ASSUME n + 1 <= N PROVE Lined(f[n + 1])
    OBVIOUS
  <2>1. n + 1 \in 1 .. N /\ (n + 1) - 1 = n /\ n <= N
    BY <1>0
  <2>2. f[n + 1] = QuotedNext(f[n], s[n + 1], CRLF, FALSE, FALSE) /\ s[n + 1] \in Byte
    BY <1>0, <1>3, <2>1
  <2>3. Lined(f[n])
    BY <1>6, <2>1
  <2> QED BY <2>2, <2>3, QuotedNextLined, Zenon DEF Byte
<1> HIDE DEF S
<1>7. \A n \in Nat : n \in S
  BY <1>5, <1>6, SetInduction
<1>8. Lined(f[N])
  BY <1>0, <1>7 DEF S
<1> QED BY <1>2, <1>8 DEF Lined

\* What Encode leaves is as QuotedLinesFit says.
LEMMA EncodeFits == Encode => QuotedLinesFit'
<1> SUFFICES ASSUME Encode PROVE QuotedLinesFit'
  OBVIOUS
<1>1. PICK c \in DOMAIN CodecInputs : \E s \in CodecInputs[c] : call' = Coded(c, s, CodecOut(c, s))
  BY Zenon DEF Encode
<1>2. PICK s \in CodecInputs[c] : call' = Coded(c, s, CodecOut(c, s))
  BY <1>1
<1>3. call'.codec = c /\ call'.out = CodecOut(c, s)
  BY <1>2 DEF Coded
<1>4. CASE c = "quoted"
  <2>1. CodecOut("quoted", s) = quotedPrintableEncode(s, CRLF, FALSE, FALSE)
    BY Zenon DEF CodecOut
  <2>2. s \in Seq(Byte)
    BY <1>4, CallAssumption, Zenon DEF Byte
  <2> QED BY <1>3, <1>4, <2>1, <2>2, QuotedLinesShort, Zenon DEF QuotedLinesFit
<1>5. CASE c # "quoted"
  BY <1>3, <1>5, Zenon DEF QuotedLinesFit
<1> QED BY <1>4, <1>5

\* QuotedLinesFit, a part of DecodesBack, holds of every call: for texts of any
\* length, and any limit with room for a code and a soft line break.
THEOREM QuotedLinesFitAlways == Spec => []QuotedLinesFit
<1>1. Init => QuotedLinesFit
  <2>1. Init => call.op # "encode"
    BY DEF Init, Idle
  <2> QED BY <2>1, Zenon DEF QuotedLinesFit
<1>2. QuotedLinesFit /\ [Next]_call => QuotedLinesFit'
  <2> SUFFICES ASSUME QuotedLinesFit, [Next]_call PROVE QuotedLinesFit'
    OBVIOUS
  <2>1. CASE Encode
    BY <2>1, EncodeFits
  <2>2. CASE call'.op # "encode"
    BY <2>2, Zenon DEF QuotedLinesFit
  <2>3. CASE UNCHANGED call
    BY <2>3, Zenon DEF QuotedLinesFit
  <2> QED BY <2>1, <2>2, <2>3, Kinds DEF Next
<1> QED BY <1>1, <1>2, PTL DEF Spec

-----------------------------------------------------------------------------
(* Settings *)

\* f has the configurations after the first n overrides.
Overriding(config, o, n, f) ==
    f = [i \in 0 .. n |-> IF i = 0 THEN config ELSE set(f[i - 1], o[i][1], o[i][2])]

\* There is a configuration after each of them.
LEMMA OverridingExists == ASSUME NEW config, NEW o PROVE \A n \in Nat : \E f : Overriding(config, o, n, f)
<1> DEFINE S == {n \in Nat : \E f : Overriding(config, o, n, f)}
           val(h, i) == IF i = 0 THEN config ELSE set(h[i - 1], o[i][1], o[i][2])
<1>1. 0 \in S
  <2> DEFINE f == [i \in 0 .. 0 |-> config]
  <2>1. f = [i \in 0 .. 0 |-> val(f, i)]
    OBVIOUS
  <2>2. Overriding(config, o, 0, f)
    BY <2>1, Zenon DEF Overriding
  <2> QED BY <2>2
<1>2. ASSUME NEW n \in Nat, n \in S PROVE n + 1 \in S
  <2>1. PICK g : Overriding(config, o, n, g)
    BY <1>2
  <2> DEFINE x == val(g, n + 1)
             f == Longer(g, n, x)
  <2>2. \A i \in 0 .. n : g[i] = val(g, i)
    BY <2>1, Zenon DEF Overriding
  <2> HIDE DEF x
  <2>3. /\ f = [i \in 0 .. (n + 1) |-> f[i]]
        /\ f[n + 1] = x /\ \A i \in 0 .. n : f[i] = g[i]
    BY DEF Longer
  <2> HIDE DEF f
  <2>4. ASSUME NEW i \in 0 .. (n + 1) PROVE f[i] = val(f, i)
    <3>1. i = 0 \/ i - 1 \in 0 .. n
      OBVIOUS
    <3>2. val(f, i) = val(g, i)
      BY <2>3, <3>1
    <3>3. i = n + 1 \/ i \in 0 .. n
      OBVIOUS
    <3> QED BY <2>2, <2>3, <3>2, <3>3, Zenon DEF x
  <2>5. f = [i \in 0 .. (n + 1) |-> val(f, i)]
    <3> HIDE DEF val
    <3> QED BY <2>3, <2>4
  <2>6. Overriding(config, o, n + 1, f)
    BY <2>5, Zenon DEF Overriding
  <2>7. n + 1 \in Nat
    OBVIOUS
  <2> QED BY <2>6, <2>7, Zenon
<1> HIDE DEF S
<1>3. \A n \in Nat : n \in S
  BY <1>1, <1>2, SetInduction
<1> QED BY <1>3 DEF S

\* override ends with the last of them.
LEMMA OverrideUnfolds ==
    ASSUME NEW config, NEW o, Len(o) \in Nat
    PROVE  \E f : Overriding(config, o, Len(o), f) /\ override(config, o) = f[Len(o)]
<1> DEFINE f == CHOOSE g : Overriding(config, o, Len(o), g)
<1>1. Overriding(config, o, Len(o), f)
  BY OverridingExists
<1>2. override(config, o) = f[Len(o)]
  BY Zenon DEF override, Overriding
<1> HIDE DEF f
<1> QED BY <1>1, <1>2

\* A setting has the value that the last override of it gives, or else the one that
\* it had.
THEOREM LastOverrideWins ==
    ASSUME NEW config, NEW o, Len(o) \in Nat, NEW k
    PROVE  /\ (\A i \in 1 .. Len(o) : o[i][1] # k) => Value(override(config, o), k) = Value(config, k)
           /\ \A i \in 1 .. Len(o) :
                 o[i][1] = k /\ (\A j \in (i + 1) .. Len(o) : o[j][1] # k) => Value(override(config, o), k) = o[i][2]
<1>1. PICK f : Overriding(config, o, Len(o), f) /\ override(config, o) = f[Len(o)]
  BY OverrideUnfolds
<1> DEFINE N == Len(o)
<1>2. f[0] = config /\ \A i \in 1 .. N : f[i] = set(f[i - 1], o[i][1], o[i][2])
  BY <1>1 DEF Overriding
<1>3. ASSUME NEW c, NEW key, NEW v PROVE Value(set(c, key, v), k) = IF k = key THEN v ELSE Value(c, k)
  BY DEF Value, set
<1>4. \A i \in 1 .. N : Value(f[i], k) = IF k = o[i][1] THEN o[i][2] ELSE Value(f[i - 1], k)
  BY <1>2, <1>3
<1> HIDE DEF N
<1>5. N \in Nat
  BY DEF N
<1>6. ASSUME NEW m \in Nat, m <= N, \A j \in (m + 1) .. N : o[j][1] # k
      PROVE  Value(f[N], k) = Value(f[m], k)
  <2> DEFINE same(i) == Value(f[i], k) = Value(f[m], k)
             S == {n \in Nat : m + n <= N => same(m + n)}
  <2>1. 0 \in S
    <3>1. m + 0 = m
      OBVIOUS
    <3> QED BY <3>1
  <2>2. ASSUME NEW n \in Nat, n \in S PROVE n + 1 \in S
    <3> SUFFICES ASSUME m + (n + 1) <= N PROVE same(m + (n + 1))
      OBVIOUS
    <3> DEFINE i == m + (n + 1)
    <3>1. i \in (m + 1) .. N /\ i \in 1 .. N /\ i - 1 = m + n /\ m + n <= N
      BY <1>5
    <3>2. same(m + n)
      BY <2>2, <3>1
    <3>3. o[i][1] # k
      BY <1>6, <3>1
    <3> HIDE DEF i
    <3>4. Value(f[i], k) = Value(f[i - 1], k)
      BY <1>4, <3>1, <3>3
    <3> QED BY <3>1, <3>2, <3>4 DEF i
  <2> HIDE DEF S
  <2>3. \A n \in Nat : n \in S
    BY <2>1, <2>2, SetInduction
  <2>4. N - m \in Nat /\ m + (N - m) = N
    BY <1>5, <1>6
  <2>5. same(m + (N - m))
    BY <1>5, <2>3, <2>4 DEF S
  <2> QED BY <2>4, <2>5
<1>7. (\A i \in 1 .. N : o[i][1] # k) => Value(f[N], k) = Value(config, k)
  BY <1>2, <1>5, <1>6
<1>8. ASSUME NEW i \in 1 .. N, o[i][1] = k, \A j \in (i + 1) .. N : o[j][1] # k
      PROVE  Value(f[N], k) = o[i][2]
  BY <1>4, <1>5, <1>6, <1>8
<1> QED BY <1>1, <1>7, <1>8 DEF N

\* The overrides that nawarun reads are a sequence.
LEMMA OverridesAreMany ==
    ASSUME NEW args, Len(args) \in Nat, NEW configIni
    PROVE  Len(parseCommandLine(args, configIni).overrides) \in Nat
<1> DEFINE seqs == [i \in 1 .. Len(args) |-> OverrideOf(args[i])]
           X == {OverrideOf(args[i])[1] : i \in 1 .. Len(args)}
<1>1. parseCommandLine(args, configIni).overrides = FlattenSeq(seqs)
  BY DEF parseCommandLine
<1>2. ASSUME NEW i \in 1 .. Len(args) PROVE OverrideOf(args[i]) \in Seq(X)
  <2>1. OverrideOf(args[i]) = <<>> \/ \E p : OverrideOf(args[i]) = <<p>>
    BY Zenon DEF OverrideOf
  <2>2. CASE OverrideOf(args[i]) = <<>>
    BY <2>2
  <2>3. CASE \E p : OverrideOf(args[i]) = <<p>>
    <3>1. PICK p : OverrideOf(args[i]) = <<p>>
      BY <2>3
    <3>2. p = OverrideOf(args[i])[1]
      BY <3>1
    <3>3. p \in X
      BY <3>2
    <3> HIDE DEF X
    <3> QED BY <3>1, <3>3
  <2> QED BY <2>1, <2>2, <2>3
<1>3. seqs \in Seq(Seq(X))
  <2> HIDE DEF X
  <2> QED BY <1>2
<1> HIDE DEF seqs, X
<1> QED BY <1>1, <1>3, FlattenType

\* What Configure leaves is as OverridesWin says.
LEMMA ConfigureWins == Configure => OverridesWin'
<1> SUFFICES ASSUME Configure PROVE OverridesWin'
  OBVIOUS
<1>1. PICK lines \in BoundedSeq(IniLines, MaxLines), args \in BoundedSeq(Arguments, MaxArguments) :
        LET parameters == parseCommandLine([i \in 1..Len(args) |-> args[i].text], ConfigIni)
        IN call' = [op |-> "settings", in |-> lines, args |-> args, parameters |-> parameters,
                    out |-> StartConfig(IniText(lines), parameters)]
  BY Zenon DEF Configure
<1> DEFINE texts == [i \in 1..Len(args) |-> args[i].text]
           parameters == parseCommandLine(texts, ConfigIni)
           o == parameters.overrides
           fromFile == IF parameters.file = <<>> THEN NoSettings ELSE read(IniText(lines))
<1>2. Len(args) \in Nat
  BY CallAssumption DEF BoundedSeq, SeqOf
<1>3. Len(texts) \in Nat
  BY <1>2
<1> HIDE DEF texts
<1>4. Len(o) \in Nat
  BY <1>3, OverridesAreMany
<1>5. /\ call'.op = "settings" /\ call'.in = lines /\ call'.parameters = parameters
      /\ call'.out = StartConfig(IniText(lines), parameters)
  BY <1>1 DEF texts
<1>6. StartConfig(IniText(lines), parameters) = override(fromFile, o)
  BY Zenon DEF StartConfig
<1>7. call'.parameters.overrides = o /\ call'.out = override(fromFile, o)
  BY <1>5, <1>6
<1>8. (IF call'.parameters.file = <<>> THEN NoSettings ELSE read(IniText(call'.in))) = fromFile
  BY <1>5, Zenon
<1> HIDE DEF o, fromFile, parameters
<1>9. LastWins(override(fromFile, o), fromFile, o)
  <2>1. ASSUME NEW k, \A i \in 1 .. Len(o) : o[i][1] # k
        PROVE  Value(override(fromFile, o), k) = Value(fromFile, k)
    BY <1>4, <2>1, LastOverrideWins
  <2>2. ASSUME NEW k, NEW i \in 1 .. Len(o), o[i][1] = k, \A j \in (i + 1) .. Len(o) : o[j][1] # k
        PROVE  Value(override(fromFile, o), k) = o[i][2]
    BY <1>4, <2>2, LastOverrideWins
  <2> QED BY <2>1, <2>2, Zenon DEF LastWins
<1>10. LastWins(call'.out,
                IF call'.parameters.file = <<>> THEN NoSettings ELSE read(IniText(call'.in)),
                call'.parameters.overrides)
  BY <1>7, <1>8, <1>9, Zenon
<1> QED BY <1>10, Zenon DEF OverridesWin

\* OverridesWin, a part of SettingsPrecedence, holds of every call: whatever the
\* file and however many the arguments are.
THEOREM OverridesWinAlways == Spec => []OverridesWin
<1>1. Init => OverridesWin
  <2>1. Init => call.op # "settings"
    BY DEF Init, Idle
  <2> QED BY <2>1, Zenon DEF OverridesWin
<1>2. OverridesWin /\ [Next]_call => OverridesWin'
  <2> SUFFICES ASSUME OverridesWin, [Next]_call PROVE OverridesWin'
    OBVIOUS
  <2>1. CASE Configure
    BY <2>1, ConfigureWins
  <2>2. CASE call'.op # "settings"
    BY <2>2, Zenon DEF OverridesWin
  <2>3. CASE UNCHANGED call
    BY <2>3 DEF OverridesWin
  <2> QED BY <2>1, <2>2, <2>3, Kinds DEF Next
<1> QED BY <1>1, <1>2, PTL DEF Spec

\* A record as the reader keeps it
Reader(st) == st = [section |-> st.section, prev_name |-> st.prev_name, config |-> st.config]

\* Every setting of c is in d, with its value.
Keeps(c, d) == \A k \in DOMAIN c : k \in DOMAIN d /\ d[k] = c[k]

\* Config::insert changes no setting that is there.
LEMMA InsertKeeps == ASSUME NEW c, NEW key, NEW v PROVE Keeps(c, insert(c, key, v))
BY DEF Keeps, insert, set

\* A line changes no setting that is there.
LEMMA IniLineKeeps ==
    ASSUME NEW st, Reader(st), NEW line
    PROVE  Reader(IniLine(st, line)) /\ Keeps(st.config, IniLine(st, line).config)
<1> DEFINE next == IniLine(st, line)
<1>1. Keeps(st.config, st.config)
  BY DEF Keeps
<1>2. \/ next = st
      \/ \E key, v : next = [st EXCEPT !.config = insert(@, key, v)]
      \/ \E n, s : next = [st EXCEPT !.prev_name = n, !.section = s]
      \/ \E n, key, v : next = [st EXCEPT !.prev_name = n, !.config = insert(@, key, v)]
  BY ZenonT(60) DEF IniLine
<1> HIDE DEF next
<1>3. CASE \E key, v : next = [st EXCEPT !.config = insert(@, key, v)]
  <2>1. PICK key, v : next = [st EXCEPT !.config = insert(@, key, v)]
    BY <1>3
  <2>2. next = [section |-> st.section, prev_name |-> st.prev_name, config |-> insert(st.config, key, v)]
    BY <2>1 DEF Reader
  <2> QED BY <2>2, InsertKeeps DEF Reader, next
<1>4. CASE \E n, s : next = [st EXCEPT !.prev_name = n, !.section = s]
  <2>1. PICK n, s : next = [st EXCEPT !.prev_name = n, !.section = s]
    BY <1>4
  <2>2. next = [section |-> s, prev_name |-> n, config |-> st.config]
    BY <2>1 DEF Reader
  <2> QED BY <1>1, <2>2 DEF Reader, next
<1>5. CASE \E n, key, v : next = [st EXCEPT !.prev_name = n, !.config = insert(@, key, v)]
  <2>1. PICK n, key, v : next = [st EXCEPT !.prev_name = n, !.config = insert(@, key, v)]
    BY <1>5
  <2>2. next = [section |-> st.section, prev_name |-> n, config |-> insert(st.config, key, v)]
    BY <2>1 DEF Reader
  <2> QED BY <2>2, InsertKeeps DEF Reader, next
<1> QED BY <1>1, <1>2, <1>3, <1>4, <1>5 DEF next

\* What the reader knows before the first line
NoLines == [section |-> <<>>, prev_name |-> <<>>, config |-> NoSettings]

\* f has the reader's states after the first n lines.
Reading(lines, n, f) == f = [i \in 0 .. n |-> IF i = 0 THEN NoLines ELSE IniLine(f[i - 1], LineAt(lines, i))]

\* There are such states, however many lines the file has.
LEMMA ReadingExists == ASSUME NEW lines PROVE \A n \in Nat : \E f : Reading(lines, n, f)
<1> DEFINE S == {n \in Nat : \E f : Reading(lines, n, f)}
           val(h, i) == IF i = 0 THEN NoLines ELSE IniLine(h[i - 1], LineAt(lines, i))
<1>1. 0 \in S
  <2> DEFINE f == [i \in 0 .. 0 |-> NoLines]
  <2>1. f = [i \in 0 .. 0 |-> val(f, i)]
    OBVIOUS
  <2>2. Reading(lines, 0, f)
    BY <2>1, Zenon DEF Reading
  <2> QED BY <2>2
<1>2. ASSUME NEW n \in Nat, n \in S PROVE n + 1 \in S
  <2>1. PICK g : Reading(lines, n, g)
    BY <1>2
  <2> DEFINE x == val(g, n + 1)
             f == Longer(g, n, x)
  <2>2. \A i \in 0 .. n : g[i] = val(g, i)
    BY <2>1, Zenon DEF Reading
  <2> HIDE DEF x
  <2>3. /\ f = [i \in 0 .. (n + 1) |-> f[i]]
        /\ f[n + 1] = x /\ \A i \in 0 .. n : f[i] = g[i]
    BY DEF Longer
  <2> HIDE DEF f
  <2>4. ASSUME NEW i \in 0 .. (n + 1) PROVE f[i] = val(f, i)
    <3>1. i = 0 \/ i - 1 \in 0 .. n
      OBVIOUS
    <3>2. val(f, i) = val(g, i)
      BY <2>3, <3>1
    <3>3. i = n + 1 \/ i \in 0 .. n
      OBVIOUS
    <3> QED BY <2>2, <2>3, <3>2, <3>3, Zenon DEF x
  <2>5. f = [i \in 0 .. (n + 1) |-> val(f, i)]
    <3> HIDE DEF val
    <3> QED BY <2>3, <2>4
  <2>6. Reading(lines, n + 1, f)
    BY <2>5, Zenon DEF Reading
  <2>7. n + 1 \in Nat
    OBVIOUS
  <2> QED BY <2>6, <2>7, Zenon
<1> HIDE DEF S
<1>3. \A n \in Nat : n \in S
  BY <1>1, <1>2, SetInduction
<1> QED BY <1>3 DEF S

\* IniAfter as the reader's states one after the other
LEMMA IniAfterUnfolds ==
    ASSUME NEW lines, Len(lines) \in Nat
    PROVE  /\ IniAfter(lines, 0) = NoLines
           /\ \A i \in 1 .. Len(lines) : IniAfter(lines, i) = IniLine(IniAfter(lines, i - 1), LineAt(lines, i))
<1> DEFINE f == CHOOSE g : Reading(lines, Len(lines), g)
<1>1. Reading(lines, Len(lines), f)
  BY ReadingExists
<1>2. \A i : IniAfter(lines, i) = f[i]
  BY Zenon DEF IniAfter, Reading, NoLines
<1> HIDE DEF f
<1>3. f[0] = NoLines /\ \A i \in 1 .. Len(lines) : f[i] = IniLine(f[i - 1], LineAt(lines, i))
  BY <1>1 DEF Reading
<1> QED BY <1>2, <1>3

\* The lines that follow change no setting that the first lines have given.
THEOREM FirstValueStays ==
    ASSUME NEW lines, Len(lines) \in Nat, NEW m \in 0 .. Len(lines), NEW n \in m .. Len(lines)
    PROVE  Keeps(IniAfter(lines, m).config, IniAfter(lines, n).config)
<1> DEFINE N == Len(lines)
           at(i) == IniAfter(lines, i)
<1>1. at(0) = NoLines /\ \A i \in 1 .. N : at(i) = IniLine(at(i - 1), LineAt(lines, i))
  BY IniAfterUnfolds
<1>2. N \in Nat /\ m \in Nat /\ n \in Nat /\ m <= n /\ n <= N
  OBVIOUS
<1> HIDE DEF N, at
<1>3. \A i \in Nat : i <= N => Reader(at(i))
  <2> DEFINE S == {i \in Nat : i <= N => Reader(at(i))}
  <2>1. 0 \in S
    BY <1>1 DEF Reader, NoLines
  <2>2. ASSUME NEW i \in Nat, i \in S PROVE i + 1 \in S
    <3> SUFFICES ASSUME i + 1 <= N PROVE Reader(at(i + 1))
      OBVIOUS
    <3>1. i + 1 \in 1 .. N /\ (i + 1) - 1 = i /\ i <= N
      BY <1>2
    <3>2. at(i + 1) = IniLine(at(i), LineAt(lines, i + 1))
      BY <1>1, <3>1
    <3> QED BY <2>2, <3>1, <3>2, IniLineKeeps
  <2> HIDE DEF S
  <2>3. \A i \in Nat : i \in S
    BY <2>1, <2>2, SetInduction
  <2> QED BY <2>3 DEF S
<1> DEFINE T == {i \in Nat : m + i <= N => Keeps(at(m).config, at(m + i).config)}
<1>4. 0 \in T
  <2>1. m + 0 = m
    BY <1>2
  <2> QED BY <2>1 DEF Keeps
<1>5. ASSUME NEW i \in Nat, i \in T PROVE i + 1 \in T
  <2> SUFFICES ASSUME m + (i + 1) <= N PROVE Keeps(at(m).config, at(m + (i + 1)).config)
    OBVIOUS
  <2> DEFINE j == m + (i + 1)
  <2>1. j \in 1 .. N /\ j - 1 = m + i /\ m + i <= N /\ m + i \in Nat
    BY <1>2
  <2> HIDE DEF j
  <2>2. Keeps(at(m).config, at(m + i).config)
    BY <1>5, <2>1
  <2>3. Reader(at(m + i)) /\ at(j) = IniLine(at(m + i), LineAt(lines, j))
    BY <1>1, <1>3, <2>1
  <2>4. Keeps(at(m + i).config, at(j).config)
    BY <2>3, IniLineKeeps
  <2> QED BY <2>2, <2>4 DEF Keeps, j
<1> HIDE DEF T
<1>6. \A i \in Nat : i \in T
  BY <1>4, <1>5, SetInduction
<1>7. n - m \in Nat /\ m + (n - m) = n
  BY <1>2
<1>8. Keeps(at(m).config, at(n).config)
  BY <1>2, <1>6, <1>7 DEF T
<1> QED BY <1>8 DEF at

=============================================================================

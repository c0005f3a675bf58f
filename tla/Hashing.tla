------------------------------- MODULE Hashing -----------------------------
(***************************************************************************)
(* Password hashes (src/src/hashing/, src/src/util/crypto.cpp and          *)
(* src/libs/libbcrypt/bcrypt.c).  What Blowfish, Argon2 and the digests    *)
(* compute is external: a hash is the record of everything that it depends *)
(* on, so equal hashes mean equal inputs.  Passwords are byte sequences.   *)
(* The text of an Argon2 hash has salt and hash in base 64 without         *)
(* padding, which the engine decodes before it uses them; that this gives  *)
(* them back is a property of the codec "bare" in Library.                 *)
(***************************************************************************)
EXTENDS Naturals, Sequences, FiniteSets, SequencesExt

CONSTANTS
    MaxKey,   \* bytes of a password that Blowfish uses (72)
    MinSalt,  \* ARGON2_MIN_SALT_LENGTH
    Salts     \* salts that may be drawn, and values of uninitialized memory

\* A salt that the Argon2 engine generates has 16 bytes.  Reading /dev/urandom
\* gives some salt.
ASSUME HashAssumption == MaxKey \in Nat /\ MinSalt \in Nat /\ MinSalt <= 16 /\ Salts # {}

Failed == [id |-> "none"]

-----------------------------------------------------------------------------
(* libbcrypt *)

\* The C string of a password ends at its first '\0'.
c_str(s) == LET nul == SelectInSeq(s, LAMBDA c : c = 0)
            IN IF nul = 0 THEN s ELSE SubSeq(s, 1, nul - 1)

\* BF_set_key repeats the string and its '\0' until the key is full.
Key(s) ==
    LET k == Append(c_str(s), 0)
    IN [i \in 1..MaxKey |-> k[((i - 1) % Len(k)) + 1]]

workf(factor) == IF factor < 4 \/ factor > 31 THEN 12 ELSE factor

\* What /dev/urandom may give, in as many reads as it takes; nothing if it
\* cannot be opened, read to the end or closed.
try_read(urandom) == IF urandom THEN Salts ELSE {}

bcrypt_gensalt(factor, urandom) ==
    {[id |-> "$2a$", cost |-> workf(factor), salt |-> s] : s \in try_read(urandom)}

\* crypt_rn refuses a setting that is none.
bcrypt_hashpw(password, setting) ==
    IF setting.id \in {"$2a$", "$2b$", "$2x$", "$2y$"} /\ setting.cost \in 4..31
    THEN [id |-> setting.id, cost |-> setting.cost, salt |-> setting.salt, key |-> Key(password)]
    ELSE Failed

\* -1, 0 or a positive number in the code
bcrypt_checkpw(password, hash) ==
    LET out == bcrypt_hashpw(password, hash)
    IN IF out.id = "none" THEN "failed" ELSE IF out = hash THEN "equal" ELSE "different"

-----------------------------------------------------------------------------
(* The engines.  An engine's generateHash is the set of its outcomes; an    *)
(* exception is Failed.                                                     *)

\* A salt of the user's is copied over the wrong buffer: the setting is then
\* what the stack happens to hold.
BcryptGenerate(engine, password, urandom) ==
    LET settings ==
            IF engine.salt = <<>> THEN bcrypt_gensalt(engine.workFactor, urandom)
            ELSE {Failed} \cup {[id |-> "$2a$", cost |-> w, salt |-> s] : w \in {4, 12}, s \in Salts}
    IN IF settings = {} THEN {Failed} ELSE {bcrypt_hashpw(password, x) : x \in settings}

BcryptVerify(password, hash) == bcrypt_checkpw(password, hash) = "equal"

\* Decimal digits of a uint32_t
Width(n) == 1 + Cardinality({k \in 1..9 : 10^k <= n})

\* Those of the three costs
CostDigits(engine) == Width(engine.memoryCost) + Width(engine.timeCost) + Width(engine.parallelism)

\* "$argon2i$v=19$m=..,t=..,p=..$salt$hash" and its '\0'; base 64 without padding
EncodedLen(engine, saltLen) ==
    (IF engine.algorithm = "id" THEN 26 ELSE 25) + CostDigits(engine) + (4 * saltLen + 2) \div 3 + (4 * engine.hashLen + 2) \div 3

encodedHashCeil_NoSlack(engine, saltLen) == 30 + (4 * saltLen) \div 3 + (4 * engine.hashLen) \div 3

encodedHashCeil(engine, saltLen) == 50 + (4 * saltLen) \div 3 + (4 * engine.hashLen) \div 3

\* What argon2_hash does not accept, whatever the password is
Argon2Refuses(engine, saltLen) ==
    \/ engine.hashLen < 4 \/ saltLen < MinSalt
    \/ engine.memoryCost < 8 \/ engine.memoryCost < 8 * engine.parallelism
    \/ engine.timeCost < 1
    \/ engine.parallelism < 1 \/ engine.parallelism > 2^24 - 1

\* An error is an exception: parameters that Argon2 refuses, no memory for it,
\* no room for the encoded hash.
Argon2Generate(engine, password, memory) ==
    LET salts == IF engine.salt = <<>> THEN {[i \in 1..16 |-> s] : s \in Salts} ELSE {engine.salt}
        hash(s) == [id |-> "$argon2", algorithm |-> engine.algorithm, version |-> 19,
                    memoryCost |-> engine.memoryCost, timeCost |-> engine.timeCost,
                    parallelism |-> engine.parallelism, salt |-> s,
                    hashLen |-> engine.hashLen, key |-> password]
        works(s) == /\ memory /\ ~Argon2Refuses(engine, Len(s))
                    /\ EncodedLen(engine, Len(s)) <= encodedHashCeil(engine, Len(s))
    IN IF engine.salt # <<>> /\ Len(engine.salt) < MinSalt THEN {Failed}
       ELSE {IF works(s) THEN hash(s) ELSE Failed : s \in salts}

\* The engine that the hash describes hashes the password again; if it cannot,
\* the password does not match.
Argon2Verify(password, hash, memory) ==
    LET engine1 == [algorithm |-> hash.algorithm, timeCost |-> hash.timeCost, memoryCost |-> hash.memoryCost,
                    parallelism |-> hash.parallelism, salt |-> hash.salt, hashLen |-> hash.hashLen]
    IN hash.version = 19 /\ \E h \in Argon2Generate(engine1, password, memory) : h = hash

-----------------------------------------------------------------------------
(* crypto.cpp *)

\* DefaultHashTypeTable::getEngine; the table without Argon2 knows only $2.
getEngine(hash) ==
    CASE hash.id \in {"$2a$", "$2b$", "$2x$", "$2y$"} -> "bcrypt"
      [] hash.id = "$argon2" -> "argon2"
      [] OTHER -> "none"

\* supplied: whether there is the randomness or the memory that an engine needs
passwordHash(password, engine, supplied) ==
    IF engine.kind = "bcrypt" THEN BcryptGenerate(engine, password, supplied)
    ELSE Argon2Generate(engine, password, supplied)

\* No engine for the hash is an exception.
passwordVerify(password, hash, memory) ==
    CASE getEngine(hash) = "bcrypt" -> BcryptVerify(password, hash)
      [] getEngine(hash) = "argon2" -> Argon2Verify(password, hash, memory)
      [] OTHER -> FALSE

=============================================================================

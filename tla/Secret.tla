------------------------------- MODULE Secret -------------------------------
(***************************************************************************)
(* internal/secret: the key workhorse signs its requests to Rails with,    *)
(* read from a file on first use because Rails may still have to write     *)
(* the file, and kept in memory under a read-write lock.                   *)
(*                                                                         *)
(* The read-locked getBytes is one step; so is the locked part of setBytes *)
(* after the lock was taken, since it only reads a file.  SetPath is       *)
(* called once, before the server starts.                                  *)
(*                                                                         *)
(* External: the file, sync.RWMutex, and HS256, which cannot fail for a    *)
(* key of bytes.                                                           *)
(***************************************************************************)
CONSTANTS Signers, Secrets, NoSecret

ASSUME NoSecretAssumption == NoSecret \notin Secrets

VARIABLES file,        \* content of the secret file
          bytes,       \* theSecret.bytes, NoSecret before it is read
          secretLock,  \* who holds the write lock, or NoSecret
          spc,         \* where in JWTTokenString r is
          token        \* token[r]: the secret that signed for r, or NoSecret

secretVars == <<file, bytes, secretLock, spc, token>>

SInit == /\ file \in Secrets \cup {"absent", "invalid"}
         /\ bytes = NoSecret
         /\ secretLock = NoSecret
         /\ spc = [r \in Signers |-> "get"]
         /\ token = [r \in Signers |-> NoSecret]

(* Rails or an administrator writes the file, at any time.                  *)
WriteSecret == /\ file' \in Secrets \cup {"absent", "invalid"}
               /\ file' # file
               /\ UNCHANGED <<bytes, secretLock, spc, token>>

SStep(r, from, to) == spc[r] = from /\ spc' = [spc EXCEPT ![r] = to]

Signs(r, from, b) == /\ SStep(r, from, "done")
                     /\ token' = [token EXCEPT ![r] = b]

GetBytes(r) == /\ secretLock = NoSecret /\ bytes # NoSecret
               /\ Signs(r, "get", bytes)
               /\ UNCHANGED <<file, bytes, secretLock>>

GetNoBytes(r) == /\ secretLock = NoSecret /\ bytes = NoSecret
                 /\ SStep(r, "get", "lock")
                 /\ UNCHANGED <<file, bytes, secretLock, token>>

LockSecret(r) == /\ secretLock = NoSecret /\ secretLock' = r
                 /\ SStep(r, "lock", "set")
                 /\ UNCHANGED <<file, bytes, token>>

SetBytesFound(r) == /\ bytes # NoSecret
                    /\ Signs(r, "set", bytes)
                    /\ secretLock' = NoSecret
                    /\ UNCHANGED <<file, bytes>>

ReadSecretAgain(r) == /\ file \in Secrets
                      /\ Signs(r, "set", file)
                      /\ bytes' = file /\ secretLock' = NoSecret
                      /\ UNCHANGED file
ReadSecret(r) == /\ bytes = NoSecret /\ file \in Secrets
                 /\ Signs(r, "set", file)
                 /\ bytes' = file /\ secretLock' = NoSecret
                 /\ UNCHANGED file

(* No such file, not base64, or not 32 bytes; the next call tries again.    *)
ReadSecretFails(r) == /\ bytes = NoSecret /\ file \notin Secrets
                      /\ Signs(r, "set", NoSecret)
                      /\ secretLock' = NoSecret
                      /\ UNCHANGED <<file, bytes>>

JWTTokenString(r) == \/ GetBytes(r)
                     \/ GetNoBytes(r)
                     \/ LockSecret(r)
                     \/ SetBytesFound(r)
                     \/ ReadSecret(r)
                     \/ ReadSecretFails(r)

SNext == WriteSecret \/ \E r \in Signers : JWTTokenString(r)

SSpec == SInit /\ [][SNext]_secretVars

(***************************************************************************)
(* As a table with one key.                                                *)
(***************************************************************************)
Signature(r) == IF spc[r] # "done" THEN "pending"
                ELSE IF token[r] = NoSecret THEN "failed" ELSE token[r]

SecretMemo == INSTANCE Memo WITH
                  Callers <- Signers, Keys <- {"secret"}, Values <- Secrets,
                  None <- NoSecret,
                  key <- [r \in Signers |-> "secret"],
                  memo <- [k \in {"secret"} |-> bytes],
                  made <- {bytes} \ {NoSecret},
                  answer <- [r \in Signers |-> Signature(r)]
=============================================================================

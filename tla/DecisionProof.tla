---------------------------- MODULE DecisionProof ----------------------------
(***************************************************************************)
(* The signed decision proof (security/decisionProof.ts): the audit trail  *)
(* as a hash chain, a payload with the root of the chain, its hash and a   *)
(* signature of the hash.                                                  *)
(*                                                                         *)
(* SHA-256 of the canonical JSON of a value is a constructor: equal only   *)
(* for equal values.  A signature is what was signed and the key pair that *)
(* signed it; the pair is made for the one signature, and its public key   *)
(* is shipped in the record.                                               *)
(***************************************************************************)
EXTENDS Naturals, Sequences

Sha256(value) == <<"sha256", value>>
Genesis == <<"GENESIS">>

Link(sequence, previous, event) ==
    Sha256([sequence |-> sequence, previousHash |-> previous, payload |-> event])

CreateAuditChain(events) ==
    LET hash[n \in 0 .. Len(events)] ==
            IF n = 0 THEN Genesis ELSE Link(n, hash[n - 1], events[n])
    IN  [n \in 1 .. Len(events) |->
            [sequence |-> n, previousHash |-> hash[n - 1], payload |-> events[n],
             hash |-> hash[n]]]

Root(chain) == IF chain = <<>> THEN Genesis ELSE chain[Len(chain)].hash

\* The key pair made to sign this hash, named by what it signed.
KeyFor(hash) == <<"P-256", hash>>
Sign(hash, key) == <<"ECDSA_P256_SHA256", key, hash>>

CreateSignedDecisionProof(payload, chain) ==
    LET complete == [decided |-> payload, auditChain |-> chain, auditRootHash |-> Root(chain)]
        hash == Sha256(complete)
    IN  [payload |-> complete, payloadHash |-> hash,
         signature |-> Sign(hash, KeyFor(hash)), publicKey |-> KeyFor(hash)]

ChainValid(payload) ==
    LET chain == payload.auditChain
        Before(n) == IF n = 1 THEN Genesis ELSE chain[n - 1].hash
    IN  /\ \A n \in 1 .. Len(chain) :
              /\ chain[n].previousHash = Before(n)
              /\ chain[n].hash = Link(chain[n].sequence, Before(n), chain[n].payload)
        /\ Root(chain) = payload.auditRootHash

\* What if the payload were not hashed again?
SignatureOnly(proof) ==
    /\ proof.signature = Sign(proof.payloadHash, proof.publicKey)
    /\ ChainValid(proof.payload)

VerifyDecisionProof(proof) ==
    /\ Sha256(proof.payload) = proof.payloadHash
    /\ proof.signature = Sign(proof.payloadHash, proof.publicKey)
    /\ ChainValid(proof.payload)
=============================================================================

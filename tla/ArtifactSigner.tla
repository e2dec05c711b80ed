--------------------------- MODULE ArtifactSigner ---------------------------
(***************************************************************************)
(* gaia_server/security/artifact_signer.py with the signature functions of *)
(* gaia_server/security/pqc_profile.py: one signer, the artifacts it made  *)
(* and the payload dictionaries, which stay in the hands of the caller.    *)
(*                                                                         *)
(* A digest is the text it is computed from, and an HMAC the pair of key   *)
(* and text.  json.dumps(default=str) writes a value that JSON does not    *)
(* know the way it writes its string, so "native" is lost in the text.     *)
(***************************************************************************)
EXTENDS Naturals, Sequences

CONSTANTS
  Payloads,   \* dictionaries of the caller
  Texts,      \* what they may render to
  Keys,
  MaxSigned   \* bound: artifacts

Contents == [text : Texts, native : BOOLEAN]

ASSUME SignerAssumption == MaxSigned \in Nat

VARIABLES
  backend,     \* backend of the PQCProfile
  privateKey,
  publicKey,
  contents,    \* contents[d]: what dictionary d holds now
  sequence,    \* _sequence
  artifacts,   \* the SignedArtifacts that were returned
  signedAs     \* history: the text that was signed, one per artifact

signerVars == <<backend, privateKey, publicKey, contents, sequence, artifacts, signedAs>>

SignerInit ==
  /\ backend \in {"software-stub", "openssl35"}
  /\ privateKey \in Keys /\ publicKey \in Keys
  /\ contents \in [Payloads -> Contents]
  /\ sequence = 0
  /\ artifacts = <<>>
  /\ signedAs = <<>>

\* json.dumps(payload, sort_keys=True, default=str)
Canonical(d) == contents[d].text

\* hmac.new(key, text)
StubMac(key, text) == [key |-> key, text |-> text]

\* SignedArtifact: kind, signer and times are stored and not looked at.
Artifact(d, x, mac, n) == [payload |-> d, digest |-> x, signature |-> mac, sequence |-> n]

\* Mutant of SignArtifact: the number is taken before the signature is made.
SignArtifactCounted(d) ==
  /\ Len(artifacts) < MaxSigned
  /\ sequence' = sequence + 1
  /\ \/ /\ backend = "software-stub"
        /\ artifacts' = Append(artifacts,
             Artifact(d, Canonical(d), StubMac(privateKey, Canonical(d)), sequence + 1))
        /\ signedAs' = Append(signedAs, Canonical(d))
     \/ backend = "openssl35" /\ UNCHANGED <<artifacts, signedAs>>
  /\ UNCHANGED <<backend, privateKey, publicKey, contents>>

\* sign: the artifact refers to the caller's dictionary.  With openssl35
\* sign_artifact raises before the number is taken.
SignArtifact(d) ==
  /\ Len(artifacts) < MaxSigned
  /\ \/ /\ backend = "software-stub"
        /\ sequence' = sequence + 1
        /\ artifacts' = Append(artifacts,
             Artifact(d, Canonical(d), StubMac(privateKey, Canonical(d)), sequence + 1))
        /\ signedAs' = Append(signedAs, Canonical(d))
     \/ backend = "openssl35" /\ UNCHANGED <<sequence, artifacts, signedAs>>
  /\ UNCHANGED <<backend, privateKey, publicKey, contents>>

\* The caller goes on working with the dictionary that it had signed.
ChangePayload(d, x) ==
  /\ contents' = [contents EXCEPT ![d] = x]
  /\ UNCHANGED <<backend, privateKey, publicKey, sequence, artifacts, signedAs>>

\* A stored artifact comes back with another digest.
ChangeDigest(i, x) ==
  /\ artifacts' = [artifacts EXCEPT ![i] = Artifact(@.payload, x, @.signature, @.sequence)]
  /\ UNCHANGED <<backend, privateKey, publicKey, contents, sequence, signedAs>>

\* verify_artifact of the stub: the public key stands in for the private one.
VerifyStub(a) == a.signature = StubMac(publicKey, Canonical(a.payload))

\* Mutant of Verify: the digest decides.
VerifyDigest(a) ==
  IF Canonical(a.payload) # a.digest THEN "digest mismatch" ELSE "verified"

\* verify: what it returns, or NotImplementedError.
Verify(a) ==
  IF Canonical(a.payload) # a.digest THEN "digest mismatch"
  ELSE IF backend = "openssl35" THEN "not implemented"
  ELSE IF VerifyStub(a) THEN "verified" ELSE "signature mismatch"

SignerNext ==
  \/ \E d \in Payloads : SignArtifact(d) \/ \E x \in Contents : ChangePayload(d, x)
  \/ \E i \in 1 .. Len(artifacts), x \in Texts : ChangeDigest(i, x)

SignerSpec == SignerInit /\ [][SignerNext]_signerVars

-----------------------------------------------------------------------------
\* The number of the signer counts its artifacts, also when signing raises.
SignerTypes ==
  /\ backend \in {"software-stub", "openssl35"}
  /\ privateKey \in Keys /\ publicKey \in Keys
  /\ contents \in [Payloads -> Contents]
  /\ artifacts \in Seq([payload : Payloads, digest : Texts, sequence : Nat,
                        signature : [key : Keys, text : Texts]])
  /\ signedAs \in Seq(Texts)
  /\ sequence = Len(artifacts) /\ sequence = Len(signedAs)

(***************************************************************************)
(* An artifact that verifies says what was signed: sign() keeps the        *)
(* caller's dictionary and not a copy, so it may have changed since, and   *)
(* the digest beside it may have been brought in line with the change.     *)
(***************************************************************************)
VerifiedIsAsSigned ==
  \A i \in 1 .. Len(artifacts) :
    Verify(artifacts[i]) = "verified" => Canonical(artifacts[i].payload) = signedAs[i]
=============================================================================

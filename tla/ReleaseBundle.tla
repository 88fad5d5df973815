--------------------------- MODULE ReleaseBundle ---------------------------
(***************************************************************************)
(* deye.release: the manifest of a bundle, its signature and its           *)
(* verification, each reading the directory file by file while the bundle  *)
(* changes or the signer dies.  A digest stands for the content it is of;  *)
(* openssl (external) signs and verifies.  Files with the name of the      *)
(* manifest, its signature or the public key are no part of the payload:   *)
(* _iter_files leaves them out by name, in every directory of the bundle.  *)
(***************************************************************************)
EXTENDS Naturals, Sequences, SequencesExt

CONSTANTS
    Artifacts,      \* sequence: the files of the bundle, in sorted() order
    Excluded,       \* those in subdirectories with a name of _EXCLUDED
    Keys, NoKey, NoFile,
    MaxChanges, MaxCalls

VARIABLES
    content,        \* content[f]: content of f, or NoFile
    manifest,       \* SHA256SUMS: the digest of each file it lists, or NoFile
    sig,            \* SHA256SUMS.sig: key and manifest it is of, or NoFile
    pubkey,         \* PUBKEY.pem, or NoFile
    signer,         \* the `deye release sign` (or manifest) that is running
    verifier,       \* the `deye release verify` that is running
    spent           \* what was used of the bounds

releaseVars == <<content, manifest, sig, pubkey, signer, verifier, spent>>

Paths == ToSet(Artifacts)
Empty == [f \in Paths |-> NoFile]

ASSUME ReleaseAssumption ==
    /\ Artifacts \in Seq(Paths) /\ Excluded \subseteq Paths
    /\ NoKey \notin Keys /\ NoFile \notin Keys
    /\ MaxChanges \in Nat /\ MaxCalls \in Nat

Digests == {1, 2, NoFile}
Sums == [Paths -> Digests]

(* The loops over the files are at Artifacts[next].                        *)
Signer == [at : {"idle", "hash", "write", "sign", "ship"}, next : Nat \ {0},
           sums : Sums, key : Keys \cup {NoKey}, ships : BOOLEAN]
Verifier == [at : {"idle", "check", "done"}, next : Nat \ {0}, expected : Sums,
             good : BOOLEAN, key : Keys \cup {NoKey}, ok : BOOLEAN,
             signature_ok : {"None", "True", "False"}, disturbed : BOOLEAN]
NoSigner == [at |-> "idle", next |-> 1, sums |-> Empty, key |-> NoKey, ships |-> FALSE]
NoVerifier == [at |-> "idle", next |-> 1, expected |-> Empty, good |-> TRUE,
               key |-> NoKey, ok |-> FALSE, signature_ok |-> "None", disturbed |-> FALSE]

ReleaseInit ==
    /\ content = [f \in Paths |-> 1]
    /\ manifest = NoFile /\ sig = NoFile /\ pubkey = NoFile
    /\ signer = NoSigner /\ verifier = NoVerifier
    /\ spent = [changes |-> 0, calls |-> 0]

Disturb == verifier' = [verifier EXCEPT !.disturbed = TRUE]

(* Somebody edits, adds or removes an artifact.                            *)
Change(f, c) ==
    /\ spent.changes < MaxChanges /\ c # content[f]
    /\ spent' = [spent EXCEPT !.changes = @ + 1]
    /\ content' = [content EXCEPT ![f] = c]
    /\ Disturb
    /\ UNCHANGED <<manifest, sig, pubkey, signer>>

(* cmd_release: sign writes the manifest first; key is NoKey for the verb  *)
(* manifest; ships is --public.                                            *)
Sign(key, ships) ==
    /\ signer.at = "idle" /\ spent.calls < MaxCalls
    /\ spent' = [spent EXCEPT !.calls = @ + 1]
    /\ signer' = [at |-> "hash", next |-> 1, sums |-> Empty, key |-> key, ships |-> ships]
    /\ UNCHANGED <<content, manifest, sig, pubkey, verifier>>

(* build_manifest: the digest of one file after the other ...              *)
HashFile ==
    /\ signer.at = "hash" /\ signer.next <= Len(Artifacts)
    /\ LET f == Artifacts[signer.next] IN
        signer' = [signer EXCEPT !.next = @ + 1,
                                 !.sums[f] = IF f \in Excluded THEN NoFile ELSE content[f]]
    /\ UNCHANGED <<content, manifest, sig, pubkey, verifier, spent>>

(* ... and write_text, which truncates first: a manifest without lines.    *)
TruncateManifest ==
    /\ signer.at = "hash" /\ signer.next > Len(Artifacts)
    /\ manifest' = Empty
    /\ signer' = [signer EXCEPT !.at = "write"]
    /\ Disturb
    /\ UNCHANGED <<content, sig, pubkey, spent>>
WriteManifest ==
    /\ signer.at = "write"
    /\ manifest' = signer.sums
    /\ signer' = IF signer.key = NoKey THEN NoSigner ELSE [signer EXCEPT !.at = "sign"]
    /\ Disturb
    /\ UNCHANGED <<content, sig, pubkey, spent>>

(* sign_manifest: openssl signs what the manifest is now; the public key   *)
(* is copied when one is given, and an older PUBKEY.pem stays otherwise.   *)
SignManifest ==
    /\ signer.at = "sign"
    /\ sig' = [key |-> signer.key, of |-> manifest]
    /\ signer' = IF signer.ships THEN [signer EXCEPT !.at = "ship"] ELSE NoSigner
    /\ Disturb
    /\ UNCHANGED <<content, manifest, pubkey, spent>>
ShipKey ==
    /\ signer.at = "ship"
    /\ pubkey' = signer.key
    /\ signer' = NoSigner
    /\ Disturb
    /\ UNCHANGED <<content, manifest, sig, spent>>

SignerDies ==
    /\ signer.at # "idle"
    /\ signer' = NoSigner
    /\ UNCHANGED <<content, manifest, sig, pubkey, verifier, spent>>

(* verify_bundle with --public key, or NoKey: it raises without a manifest.*)
Verify(key) ==
    /\ verifier.at \in {"idle", "done"} /\ manifest # NoFile /\ spent.calls < MaxCalls
    /\ spent' = [spent EXCEPT !.calls = @ + 1]
    /\ verifier' = [at |-> "check", next |-> 1, expected |-> manifest, good |-> TRUE,
                    key |-> key, ok |-> FALSE, signature_ok |-> "None", disturbed |-> FALSE]
    /\ UNCHANGED <<content, manifest, sig, pubkey, signer>>

(* Faulty variant: files the manifest does not list are not looked for.    *)
CheckListedFile ==
    /\ verifier.at = "check" /\ verifier.next <= Len(Artifacts)
    /\ LET f == Artifacts[verifier.next] IN
        verifier' = [verifier EXCEPT !.next = @ + 1,
                       !.good = @ /\ (verifier.expected[f] \in {NoFile, content[f]})]
    /\ UNCHANGED <<content, manifest, sig, pubkey, signer, spent>>

(* A listed file is missing or differs, or an unlisted one is there; files *)
(* of an excluded name are in no manifest and not looked for.              *)
CheckFile ==
    /\ verifier.at = "check" /\ verifier.next <= Len(Artifacts)
    /\ LET f == Artifacts[verifier.next] IN
        verifier' = [verifier EXCEPT !.next = @ + 1,
                       !.good = @ /\ (f \in Excluded \/ verifier.expected[f] = content[f])]
    /\ UNCHANGED <<content, manifest, sig, pubkey, signer, spent>>

(* verify_signature reads the manifest again; the key is the caller's, or  *)
(* the bundle's, and without any the signature counts as wrong.            *)
Anchor == IF verifier.key # NoKey THEN verifier.key
          ELSE IF pubkey # NoFile THEN pubkey ELSE NoKey
CheckSignature ==
    /\ verifier.at = "check" /\ verifier.next > Len(Artifacts)
    /\ LET valid == Anchor # NoKey /\ sig # NoFile /\ sig.key = Anchor /\ sig.of = manifest IN
        verifier' = [verifier EXCEPT !.at = "done",
                       !.ok = verifier.good /\ (sig # NoFile => valid),
                       !.signature_ok = IF sig = NoFile THEN "None"
                                        ELSE IF valid THEN "True" ELSE "False"]
    /\ UNCHANGED <<content, manifest, sig, pubkey, signer, spent>>

ReleaseNext ==
    \/ \E f \in Paths, c \in Digests : Change(f, c)
    \/ \E key \in Keys \cup {NoKey}, ships \in BOOLEAN : Sign(key, ships)
    \/ HashFile \/ TruncateManifest \/ WriteManifest \/ SignManifest \/ ShipKey \/ SignerDies
    \/ \E key \in Keys \cup {NoKey} : Verify(key)
    \/ CheckFile \/ CheckSignature

ReleaseSpec == ReleaseInit /\ [][ReleaseNext]_releaseVars

----------------------------------------------------------------------------
(* The files of the bundle; a digest stands for the content it is of.      *)
ReleaseTypeOK ==
    /\ content \in Sums /\ manifest \in {NoFile} \cup Sums
    /\ sig \in {NoFile} \cup [key : Keys, of : Sums]
    /\ pubkey \in Keys \cup {NoFile}
    /\ signer \in Signer /\ verifier \in Verifier
    /\ spent \in [changes : 0..MaxChanges, calls : 0..MaxCalls]

(* "No unexpected file was added to the bundle", of the payload: a         *)
(* verification during which the bundle stood still says ok exactly if     *)
(* every file but those with an excluded name is what the manifest says,   *)
(* none of them is missing or new, and a signature, if there is one, is by *)
(* the expected key over that manifest: also after a signer died half way, *)
(* after a second signature with another key, and after edits between      *)
(* hashing and signing.  ("The whole bundle" of the module's docstring is  *)
(* more: a file in Excluded may be added or changed under an ok.)          *)
VerdictIsExact ==
    verifier.at = "done" /\ ~ verifier.disturbed =>
        (verifier.ok <=> /\ \A f \in Paths \ Excluded : manifest[f] = content[f]
                         /\ sig # NoFile => sig = [key |-> Anchor, of |-> manifest])
=============================================================================

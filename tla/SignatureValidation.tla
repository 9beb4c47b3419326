------------------------- MODULE SignatureValidation -------------------------
(***************************************************************************)
(* The signatures of a package: its author signature and its distributor   *)
(* signatures, of which the first one decides the privilege level.  What   *)
(* cert-svc says of a single file is external; a file is                   *)
(*   "good"         E_SIG_NONE, with a chain of at least two certificates  *)
(*   "noChain"      E_SIG_NONE, with fewer                                 *)
(*   "tampered"     a file it refers to has changed; E_SIG_NONE when the   *)
(*                  references are not checked                             *)
(*   "disregarded"  E_SIG_DISREGARDED                                      *)
(*   "revoked"      E_SIG_REVOKED                                          *)
(*   "broken"       any other result                                       *)
(***************************************************************************)
EXTENDS Naturals

SignatureFiles == {"author-signature", "signature1", "signature2", "signature3"}
Distributors == SignatureFiles \ {"author-signature"}
Verdicts == {"good", "noChain", "tampered", "disregarded", "revoked", "broken"}

\* Privilege levels by their rank; none is below "public".
UNTRUSTED == 0
PUBLIC == 1
PARTNER == 2
PLATFORM == 3
Levels == UNTRUSTED..PLATFORM

NoCert == "no certificate"

SigNone(verdict, checkReference) ==
  verdict \in {"good", "noChain"} \/ (verdict = "tampered" /\ ~checkReference)

\* Certificates are only taken from the author's file and the first two others.
ChainNeeded(file) == file # "signature3"

ValidateSignatureFile(file, verdict, checkReference) ==
  \/ verdict = "disregarded"
  \/ SigNone(verdict, checkReference) /\ (ChainNeeded(file) => verdict # "noChain")

\* sigs: the verdict on each signature file there is.
ValidateSignatures(sigs, checkReference, isPreload) ==
  /\ isPreload \/ ("author-signature" \in DOMAIN sigs /\ DOMAIN sigs \cap Distributors # {})
  /\ \A file \in DOMAIN sigs : ValidateSignatureFile(file, sigs[file], checkReference)

\* The author certificate, if the package has an author signature that counts.
AuthorCertificate(sigs, checkReference, author) ==
  IF "author-signature" \in DOMAIN sigs /\ SigNone(sigs["author-signature"], checkReference)
    THEN author ELSE NoCert

\* store: the level of the certificate store its root was found in.
SignatureLevel(sigs, checkReference, store) ==
  IF "signature1" \in DOMAIN sigs /\ SigNone(sigs["signature1"], checkReference)
    THEN store ELSE UNTRUSTED

\* needs: the highest level one of the privileges asks for, UNTRUSTED if there
\* are none; how privilege-manager ranks them is external.
ValidatePrivilegeLevel(level, needs) ==
  IF level = UNTRUSTED THEN needs = UNTRUSTED ELSE needs <= level
===============================================================================

---------------------------- MODULE DtlsResources ----------------------------
(***************************************************************************)
(* The OpenSSL and libsrtp objects that DtlsTransport (rtc/dtls_transport) *)
(* and SrtpSession (rtc/srtp_session) allocate, and who holds a reference  *)
(* to them: DtlsTransport::ClassInit with its error paths, the constructor *)
(* and the destructor of a transport, the creation of its SRTP session.    *)
(* Any call that may fail does.  Each function is an operator on the heap; *)
(* the program that calls them is ServerMain.                              *)
(***************************************************************************)
EXTENDS Naturals

CONSTANT Transports

ASSUME TransportsAssumption == "class" \notin Transports

(* An object is its kind and its owner, the class or one transport. *)
Class(kind) == <<kind, "class">>

ClassObjects == {Class(k) : k \in {"ecKey", "privateKey", "certificate", "sslCtx"}}

TransportObjects(t) ==
  {<<k, t>> : k \in {"ssl", "sslBioFromNetwork", "sslBioToNetwork"}}

SrtpObjects(t) == {<<k, t>> : k \in {"encrypt_buffer", "session"}}

Objects == ClassObjects \cup UNION {TransportObjects(t) \cup SrtpObjects(t) : t \in Transports}

(* The program's own variables, as a holder of references. *)
Code == Class("code")

(* pointers: the objects to which the program has a non-null pointer;      *)
(* holders: who holds a reference to an object; misused: the objects used  *)
(* or freed through a pointer that no longer stood for a reference.        *)
EmptyHeap == [pointers |-> {}, holders |-> [o \in Objects |-> {}], misused |-> {}]

HeapType ==
  [pointers : SUBSET Objects, holders : [Objects -> SUBSET (Objects \cup {Code})],
   misused : SUBSET Objects]

----------------------------------------------------------------------------
(* The libraries: reference counting.                                      *)

(* An object is freed with its last reference, and then gives up its own.  *)
(* The longest chain is SSL, SSL_CTX, certificate, private key, EC key.    *)
HeldBy(h, S) == S \cup {o \in Objects : h.holders[o] \cap S # {}}

Alive(h) ==
  LET owned == {o \in Objects : Code \in h.holders[o]}
  IN HeldBy(h, HeldBy(h, HeldBy(h, HeldBy(h, owned))))

New(h, o) == [h EXCEPT !.pointers = @ \cup {o}, !.holders[o] = {Code}]

(* The holder takes a reference of its own, or the program's reference. *)
Share(h, o, holder) == [h EXCEPT !.holders[o] = @ \cup {holder}]

Give(h, o, holder) == [h EXCEPT !.holders[o] = (@ \ {Code}) \cup {holder}]

Null(h, o) == [h EXCEPT !.pointers = @ \ {o}]

Use(h, o) == IF o \in Alive(h) THEN h ELSE [h EXCEPT !.misused = @ \cup {o}]

(* "if (p) X_free(p)". *)
Free(h, o) ==
  IF o \notin h.pointers THEN h
  ELSE IF Code \in h.holders[o] THEN [h EXCEPT !.holders[o] = @ \ {Code}]
  ELSE [h EXCEPT !.misused = @ \cup {o}]

----------------------------------------------------------------------------
(* The class.  failing is the place, in the order of the code, of the call *)
(* that fails; one more than their number when none does.                  *)

GenerateCalls == 9

(* Mutant: the pointer to the EC key survives the transfer. *)
GenerateKeyPair_KeepsEcKey(h, failing) ==
  LET h1 == IF failing > 1 THEN New(h, Class("ecKey")) ELSE h
      h2 == IF failing > 3 THEN New(h1, Class("privateKey")) ELSE h1
  IN IF failing > 4 THEN Give(h2, Class("ecKey"), Class("privateKey")) ELSE h2

(* The key pair: EVP_PKEY_assign_EC_KEY hands the EC key over. *)
GenerateKeyPair(h, failing) ==
  LET h1 == IF failing > 1 THEN New(h, Class("ecKey")) ELSE h
      h2 == IF failing > 3 THEN New(h1, Class("privateKey")) ELSE h1
  IN IF failing > 4 THEN Null(Give(h2, Class("ecKey"), Class("privateKey")), Class("ecKey"))
                    ELSE h2

(* The certificate: X509_set_pubkey takes a reference to the key. *)
GenerateCertificate(h, failing) ==
  LET h1 == IF failing > 5 THEN New(h, Class("certificate")) ELSE h
  IN IF failing > 6 THEN Share(h1, Class("privateKey"), Class("certificate")) ELSE h1

(* Mutant: the error path forgets the private key. *)
GenerateError_LeaksKey(h) == Free(Free(h, Class("ecKey")), Class("certificate"))

GenerateError(h) ==
  Free(Free(Free(h, Class("ecKey")), Class("privateKey")), Class("certificate"))

GenerateCertificateAndPrivateKey(h, failing) ==
  LET made == GenerateCertificate(GenerateKeyPair(h, failing), failing)
  IN IF failing > GenerateCalls THEN made ELSE GenerateError(made)

CreateCalls == 6

(* The context takes its own references to the certificate and the key. *)
CreateSslCtx(h, failing) ==
  LET h1 == IF failing > 1 THEN New(h, Class("sslCtx")) ELSE h
      h2 == IF failing > 2 THEN Share(Use(h1, Class("certificate")),
                                      Class("certificate"), Class("sslCtx")) ELSE h1
      h3 == IF failing > 3 THEN Share(Use(h2, Class("privateKey")),
                                      Class("privateKey"), Class("sslCtx")) ELSE h2
  IN IF failing > CreateCalls THEN h3 ELSE Null(Free(h3, Class("sslCtx")), Class("sslCtx"))

(* One digest of the certificate per algorithm. *)
GenerateFingerprints(h) == Use(h, Class("certificate"))

(* It has no caller: ServerMain states what it would do. *)
ClassDestroy(h) ==
  Free(Free(Free(h, Class("privateKey")), Class("certificate")), Class("sslCtx"))

----------------------------------------------------------------------------
(* A transport and its SRTP session.                                       *)

ConstructorCalls == 3

(* SSL_set_bio gives both BIOs to the SSL; the pointers stay. *)
SetBio(h, t) ==
  Give(Give(h, <<"sslBioFromNetwork", t>>, <<"ssl", t>>), <<"sslBioToNetwork", t>>, <<"ssl", t>>)

(* The part of the error path that each failing call has of its own.       *)
ConstructorUndo(h, t, failing) ==
  CASE failing = 1 -> h
    [] failing = 2 -> Free(h, <<"ssl", t>>)
    [] failing = 3 -> Free(Free(h, <<"sslBioFromNetwork", t>>), <<"ssl", t>>)

(* error: *)
ConstructorError(h, t) ==
  Free(Free(Free(h, <<"sslBioFromNetwork", t>>), <<"sslBioToNetwork", t>>), <<"ssl", t>>)

NewDtlsTransport(h, t, failing) ==
  LET h1 == IF failing > 1 THEN Share(New(Use(h, Class("sslCtx")), <<"ssl", t>>),
                                      Class("sslCtx"), <<"ssl", t>>) ELSE h
      h2 == IF failing > 2 THEN New(h1, <<"sslBioFromNetwork", t>>) ELSE h1
      h3 == IF failing > 3 THEN New(h2, <<"sslBioToNetwork", t>>) ELSE h2
  IN IF failing > ConstructorCalls THEN SetBio(h3, t)
     ELSE ConstructorError(ConstructorUndo(h3, t, failing), t)

(* ~DtlsTransport, of a transport that is not running: SSL_free takes the  *)
(* BIOs with it.                                                           *)
DeleteDtlsTransport(h, t) ==
  Null(Null(Null(Free(h, <<"ssl", t>>), <<"ssl", t>>),
            <<"sslBioFromNetwork", t>>), <<"sslBioToNetwork", t>>)

(* When srtp_create fails the constructor throws and no destructor runs. *)
NewSrtpSession(h, t, created) ==
  LET h1 == New(h, <<"encrypt_buffer", t>>)
  IN IF created THEN New(h1, <<"session", t>>) ELSE h1
=============================================================================

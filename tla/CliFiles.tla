------------------------------ MODULE CliFiles ------------------------------
(***************************************************************************)
(* The files that splinter-cli makes: "cert generate" writes a CA, a       *)
(* client and a server certificate with their private keys; "admin keygen" *)
(* writes a pair of keys, and "admin keyregistry" a pair for each name of  *)
(* a specification, and keys.yaml, the registry of their public keys.  A   *)
(* command may fail, or be killed, between any two of its writes, and is   *)
(* then given again, with --skip, with --force or without either.  A key   *)
(* is a number; 0 is the contents of a file that was written in part.      *)
(***************************************************************************)
EXTENDS Naturals, Sequences

CONSTANTS
    Names,          \* the sequence of the names in the specification of the registry
    MaxInvocations, \* bound on commands
    None

VARIABLES
    crt, crt_key,   \* the certificate and the key file of each pair; None when there is none
    registry,       \* the public keys in keys.yaml; None when there is no such file
    priv, pub,      \* the key files of each name
    job,            \* the command that runs
    made,           \* the last key that was generated
    invocations,
    done,           \* the last "cert generate" succeeded and no file was removed since
    unsure          \* "certs" after a --force that ended early or the removal of the CA; "keys"
                    \* after a key pair was overwritten behind the registry's back

certs == <<crt, crt_key, done>>
keys == <<registry, priv, pub>>
vars == <<certs, keys, job, made, invocations, unsure>>

idle == [cmd |-> "none"]
Pairs == {"ca", "client", "server"}
NameSet == {Names[i] : i \in DOMAIN Names}

Invoke ==
    /\ job = idle
    /\ invocations < MaxInvocations
    /\ invocations' = invocations + 1

-----------------------------------------------------------------------------
(* cert generate.                                                          *)

\* create_all_certs makes the pairs in this order.
create_all_certs == <<"ca", "client", "server">>
missing == SelectSeq(create_all_certs, LAMBDA p : crt[p] = None)
half == \E p \in Pairs : (crt[p] = None) # (crt_key[p] = None)
get_ca_key == crt_key["ca"]

CertJob(mode, todo, ca) == [cmd |-> "cert", mode |-> mode, todo |-> todo, ca |-> ca, key |-> None]

\* Mutant of handle_skip: whether a pair exists is asked of its certificate alone.
AsksTheCertificate ==
    /\ job' = IF missing = <<>> THEN idle ELSE CertJob("skip", missing, get_ca_key)
    /\ done' = (missing = <<>>)

\* One file of a pair without the other is an error; pairs that are missing are made, with the CA
\* in the files if there is one.
handle_skip ==
    /\ job' = IF half \/ missing = <<>> THEN idle ELSE CertJob("skip", missing, get_ca_key)
    /\ done' = (~half /\ missing = <<>>)

\* CertGenAction::run.  Without an option no file may exist.
CertGen(mode) ==
    /\ Invoke
    /\ \/ mode = "skip" /\ handle_skip
       \/ /\ mode = "none"
          /\ job' = IF \E p \in Pairs : crt[p] # None \/ crt_key[p] # None THEN idle
                    ELSE CertJob(mode, create_all_certs, None)
          /\ done' = FALSE
       \/ mode = "force" /\ job' = CertJob(mode, create_all_certs, None) /\ done' = FALSE
    /\ UNCHANGED <<crt, crt_key, keys, made, unsure>>

make_ca_cert(k) == [key |-> k, issuer |-> k]
make_ca_signed_cert(k, ca) == [key |-> k, issuer |-> ca]

\* The contents go to another file, which is renamed: a file is never cut short.
write_file(files, file, bytes) == [files EXCEPT ![file] = bytes]

\* The first half of write_ca, write_client and write_server: a pair is made and its certificate
\* written.
write_certificate ==
    /\ job.cmd = "cert" /\ job.key = None
    /\ made' = made + 1
    /\ LET ca == Head(job.todo) = "ca" IN
         /\ crt' = write_file(crt, Head(job.todo),
                              IF ca THEN make_ca_cert(made + 1) ELSE make_ca_signed_cert(made + 1, job.ca))
         /\ job' = [job EXCEPT !.key = made + 1, !.ca = IF ca THEN made + 1 ELSE @]
    /\ UNCHANGED <<crt_key, done, keys, invocations, unsure>>

\* The second half: its key is written.
write_private_key ==
    /\ job.cmd = "cert" /\ job.key # None
    /\ crt_key' = write_file(crt_key, Head(job.todo), job.key)
    /\ IF Len(job.todo) > 1
       THEN job' = [job EXCEPT !.todo = Tail(@), !.key = None] /\ UNCHANGED <<done, unsure>>
       ELSE /\ job' = idle
            /\ done' = TRUE
            /\ unsure' = IF job.mode = "skip" THEN unsure ELSE unsure \ {"certs"}
    /\ UNCHANGED <<crt, keys, made, invocations>>

CertEnds ==
    /\ job.cmd = "cert"
    /\ job' = idle
    /\ unsure' = IF job.mode = "force" THEN unsure \cup {"certs"} ELSE unsure
    /\ UNCHANGED <<certs, keys, made, invocations>>

\* The operator removes a file.
Remove(p) ==
    /\ job = idle
    /\ \/ crt[p] # None /\ crt' = [crt EXCEPT ![p] = None] /\ UNCHANGED crt_key
       \/ crt_key[p] # None /\ crt_key' = [crt_key EXCEPT ![p] = None] /\ UNCHANGED crt
    /\ done' = FALSE
    /\ unsure' = IF p = "ca" THEN unsure \cup {"certs"} ELSE unsure
    /\ UNCHANGED <<keys, job, made, invocations>>

-----------------------------------------------------------------------------
(* admin keygen and admin keyregistry.                                     *)

KeyJob(cmd, force, at, todo) ==
    [cmd |-> cmd, force |-> force, at |-> at, todo |-> todo, key_infos |-> {}]

\* Mutant of KeyRegistryGeneration: --force keeps the registry until the new one is saved.
KeepsRegistry(force) ==
    /\ Invoke
    /\ IF registry # None /\ ~force THEN UNCHANGED <<job, unsure>>
       ELSE job' = KeyJob("keyregistry", force, "open", Names) /\ unsure' = unsure \ {"keys"}
    /\ UNCHANGED <<certs, keys, made>>

\* KeyRegistryGenerationAction::run up to the specification: an existing registry is refused, or
\* removed.
KeyRegistryGeneration(force) ==
    /\ Invoke
    /\ IF registry # None /\ ~force THEN UNCHANGED <<registry, job, unsure>>
       ELSE /\ registry' = None
            /\ job' = KeyJob("keyregistry", force, "open", Names)
            /\ unsure' = unsure \ {"keys"}
    /\ UNCHANGED <<certs, priv, pub, made>>

\* YamlStorage::new writes the default when there is no file.
YamlStorage(stored, default) == IF stored = None THEN default ELSE stored

StorageKeyRegistry(stored) == YamlStorage(stored, {})
add_key(stored, key_infos) == stored \cup key_infos

OpenRegistry ==
    /\ job.cmd = "keyregistry" /\ job.at = "open"
    /\ registry' = StorageKeyRegistry(registry)
    /\ job' = [job EXCEPT !.at = "pair"]
    /\ UNCHANGED <<certs, priv, pub, made, invocations, unsure>>

KeyGen(name, force) ==
    /\ Invoke
    /\ job' = KeyJob("keygen", force, "pair", <<name>>)
    /\ UNCHANGED <<certs, keys, made, unsure>>

AtPair == job.cmd \in {"keygen", "keyregistry"} /\ job.at = "pair" /\ job.todo # <<>>
MayWrite == job.force \/ (priv[Head(job.todo)] = None /\ pub[Head(job.todo)] = None)

\* create_key_pair: the files must not exist, unless forced; the private key is written.
create_key_pair ==
    /\ AtPair
    /\ IF ~MayWrite THEN job' = idle /\ UNCHANGED <<priv, made, unsure>>
       ELSE /\ made' = made + 1
            /\ priv' = [priv EXCEPT ![Head(job.todo)] = made + 1]
            /\ job' = [job EXCEPT !.at = "pub"]
            /\ unsure' = IF job.cmd = "keygen" /\ job.force THEN unsure \cup {"keys"} ELSE unsure
    /\ UNCHANGED <<certs, registry, pub, invocations>>

\* Its end: the public key is written and, in the registry's loop, noted.
write_public_key ==
    /\ job.cmd \in {"keygen", "keyregistry"} /\ job.at = "pub"
    /\ pub' = [pub EXCEPT ![Head(job.todo)] = made]
    /\ job' = IF job.cmd = "keygen" THEN idle
              ELSE [job EXCEPT !.at = "pair", !.todo = Tail(@), !.key_infos = @ \cup {made}]
    /\ UNCHANGED <<certs, registry, priv, made, invocations, unsure>>

\* save_keys adds the keys and replaces the file at once.
save_keys ==
    /\ job.cmd = "keyregistry" /\ job.at = "pair" /\ job.todo = <<>>
    /\ registry' = add_key(registry, job.key_infos)
    /\ job' = idle
    /\ UNCHANGED <<certs, priv, pub, made, invocations, unsure>>

\* A command on keys fails or is killed, perhaps within a write: key files are written in place.
KeysEnd ==
    /\ job.cmd \in {"keygen", "keyregistry"}
    /\ job' = idle
    /\ \/ UNCHANGED <<priv, pub, unsure>>
       \/ /\ AtPair /\ MayWrite
          /\ priv' = [priv EXCEPT ![Head(job.todo)] = 0]
          /\ unsure' = IF job.cmd = "keygen" /\ job.force THEN unsure \cup {"keys"} ELSE unsure
          /\ UNCHANGED pub
       \/ /\ job.at = "pub"
          /\ pub' = [pub EXCEPT ![Head(job.todo)] = 0]
          /\ UNCHANGED <<priv, unsure>>
    /\ UNCHANGED <<certs, registry, made, invocations>>

-----------------------------------------------------------------------------
Init ==
    /\ crt = [p \in Pairs |-> None] /\ crt_key = [p \in Pairs |-> None]
    /\ registry = None
    /\ priv = [n \in NameSet |-> None] /\ pub = [n \in NameSet |-> None]
    /\ job = idle
    /\ made = 0 /\ invocations = 0
    /\ done = FALSE /\ unsure = {}

CertsNext ==
    \/ \E mode \in {"none", "skip", "force"} : CertGen(mode)
    \/ write_certificate \/ write_private_key \/ CertEnds
    \/ \E p \in Pairs : Remove(p)

KeysNext ==
    \/ \E force \in BOOLEAN : KeyRegistryGeneration(force) \/ \E n \in NameSet : KeyGen(n, force)
    \/ OpenRegistry \/ create_key_pair \/ write_public_key \/ save_keys \/ KeysEnd

Next == CertsNext \/ KeysNext
Spec == Init /\ [][Next]_vars

-----------------------------------------------------------------------------
(* Properties.                                                             *)

\* However often "cert generate" failed half-way and was given again, and whichever files of the
\* client or the server were removed in between, once it succeeds (CertGenAction::run, handle_skip)
\* every key file is that of its certificate, and the CA that is in the files signed every
\* certificate.  A --force that ended early, and a CA removed by hand, are left out: --skip then
\* accepts files that do not match, until a --force succeeds.
CertsMatch ==
    done /\ "certs" \notin unsure =>
        \A p \in Pairs : crt[p] # None /\ crt[p].key = crt_key[p] /\ crt[p].issuer = crt_key["ca"]

\* keys.yaml never names a key whose pair of files is not there, whole: not while keyregistry
\* writes them, not after it ended early, and not when --force overwrites the files of keys that an
\* earlier keys.yaml named (KeyRegistryGenerationAction::run).  A forced keygen on one of its names
\* is the operator's business.
RegistryHasPairs ==
    registry # None /\ "keys" \notin unsure =>
        \A k \in registry : \E n \in NameSet : priv[n] = k /\ pub[n] = k
=============================================================================

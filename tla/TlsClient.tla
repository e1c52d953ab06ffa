------------------------------- MODULE TlsClient ------------------------------
(***************************************************************************)
(* The TLS client of draw/tls.c: a connection is set up, its server        *)
(* verified against a pinned certificate or fingerprint, and whole buffers *)
(* are written and read over calls of OpenSSL that take or give any part.  *)
(* OpenSSL is outside src/.  What the server shows is one of Certs; the    *)
(* configuration pins Pinned.  Objects of OpenSSL are counted by name.     *)
(***************************************************************************)
EXTENDS Integers, Sequences

CONSTANTS Certs, Pinned,   \* certificates; the pinned one
          Configs,         \* "insecure", "cert_file", "cert_fingerprint", "none"
          Length           \* of the buffer written or read

ASSUME TlsAssumption == Length \in Nat /\ Pinned \in Certs
                        /\ Configs \subseteq {"insecure", "cert_file",
                                              "cert_fingerprint", "none"}

VARIABLES
    g_ctx,                 \* the context exists
    cfg, server,           \* the configuration; the server's certificate, if any
    conn,                  \* where tls_connect is
    owned,                 \* what was allocated and not freed
    io, total,             \* "idle", "write", "read", "done" or "failed"
    buf, wire              \* what was read; what was written

tlsVars == <<g_ctx, cfg, server, conn, owned, io, total, buf, wire>>
link == <<cfg, server>>
transfer == <<io, total, buf, wire>>

NoCert == "no certificate"

TlsInit ==
    /\ g_ctx = FALSE /\ cfg \in Configs /\ server \in Certs \cup {NoCert}
    /\ conn = "none" /\ owned = {}
    /\ io = "idle" /\ total = 0 /\ buf = [i \in 1..Length |-> 0] /\ wire = <<>>

(* tls_init, whose SSL_CTX_new may fail, and tls_cleanup. *)
InitContext == /\ ~g_ctx /\ g_ctx' \in BOOLEAN
               /\ UNCHANGED <<link, conn, owned, transfer>>

CleanupContext == /\ g_ctx /\ conn \in {"none", "failed"} /\ g_ctx' = FALSE
                  /\ UNCHANGED <<link, conn, owned, transfer>>

Abort(kept) == conn' = "failed" /\ owned' = owned \cap kept

(* SSL_new and SSL_set_fd; without a context there is nothing to do. *)
Connect ==
    /\ conn = "none"
    /\ \/ g_ctx /\ conn' = "handshake" /\ owned' = {"ssl"}
       \/ Abort({})
    /\ UNCHANGED <<g_ctx, link, transfer>>

Handshake ==
    /\ conn = "handshake"
    /\ \/ /\ conn' = IF cfg = "insecure" THEN "open" ELSE "verify"
          /\ UNCHANGED owned
       \/ Abort({})
    /\ UNCHANGED <<g_ctx, link, transfer>>

(* tls_verify_pinned: the server's certificate and its digest. *)
PeerCertificate ==
    /\ conn = "verify"
    /\ \/ /\ server # NoCert
          /\ conn' = "compare" /\ owned' = owned \cup {"server_cert"}
       \/ Abort({})
    /\ UNCHANGED <<g_ctx, link, transfer>>

LoadPinned ==
    /\ conn = "compare" /\ cfg = "cert_file" /\ "pinned_cert" \notin owned
    /\ \/ conn' = "compare" /\ owned' = owned \cup {"pinned_cert"}
       \/ Abort({})
    /\ UNCHANGED <<g_ctx, link, transfer>>

Matches == /\ cfg = "cert_file" => "pinned_cert" \in owned
           /\ cfg # "none" /\ server = Pinned

CompareLeaking ==
    /\ conn = "compare"
    /\ cfg = "cert_file" => "pinned_cert" \in owned
    /\ IF Matches THEN conn' = "open" /\ owned' = {"ssl"}
                  ELSE Abort({"pinned_cert"})
    /\ UNCHANGED <<g_ctx, link, transfer>>

(* The comparison, and what is freed on either way out; a refused server is
   shut down. *)
Compare ==
    /\ conn = "compare"
    /\ cfg = "cert_file" => "pinned_cert" \in owned
    /\ IF Matches THEN conn' = "open" /\ owned' = {"ssl"} ELSE Abort({})
    /\ UNCHANGED <<g_ctx, link, transfer>>

(* tls_disconnect. *)
Disconnect ==
    /\ conn = "open" /\ io \in {"idle", "done", "failed"}
    /\ conn' = "none" /\ owned' = {}
    /\ io' = "idle" /\ total' = 0 /\ buf' = [i \in 1..Length |-> 0] /\ wire' = <<>>
    /\ UNCHANGED <<g_ctx, link>>

-----------------------------------------------------------------------------
(* tls_write_full and tls_read_full: byte number i is i. *)

StartTransfer ==
    /\ conn = "open" /\ io = "idle"
    /\ io' \in {"write", "read"} /\ total' = 0
    /\ UNCHANGED <<g_ctx, link, conn, owned, buf, wire>>

Ended(n) == IF n = Length THEN "done" ELSE io

(* SSL_write takes w bytes.  A WANT_READ or WANT_WRITE changes nothing. *)
WriteSome ==
    /\ io = "write" /\ total < Length
    /\ \E w \in 1..Length - total :
          /\ wire' = wire \o [k \in 1..w |-> total + k]
          /\ total' = total + w
          /\ io' = Ended(total + w)
    /\ UNCHANGED <<g_ctx, link, conn, owned, buf>>

ReadFromStart ==
    /\ io = "read" /\ total < Length
    /\ \E r \in 1..Length - total :
          /\ buf' = [i \in 1..Length |-> IF i \in 1..r THEN total + i ELSE buf[i]]
          /\ total' = total + r
          /\ io' = Ended(total + r)
    /\ UNCHANGED <<g_ctx, link, conn, owned, wire>>

ReadSome ==
    /\ io = "read" /\ total < Length
    /\ \E r \in 1..Length - total :
          /\ buf' = [i \in 1..Length |-> IF i \in total + 1..total + r THEN i ELSE buf[i]]
          /\ total' = total + r
          /\ io' = Ended(total + r)
    /\ UNCHANGED <<g_ctx, link, conn, owned, wire>>

(* Any other error, and the peer's end of the stream. *)
TransferFails ==
    /\ io \in {"write", "read"} /\ total < Length
    /\ io' = "failed"
    /\ UNCHANGED <<g_ctx, link, conn, owned, total, buf, wire>>

-----------------------------------------------------------------------------
TlsNext == \/ InitContext \/ CleanupContext \/ Connect \/ Handshake
           \/ PeerCertificate \/ LoadPinned \/ Compare \/ Disconnect
           \/ StartTransfer \/ WriteSome \/ ReadSome \/ TransferFails

TlsSpec == TlsInit /\ [][TlsNext]_tlsVars

(* A connection handed out was verified as the configuration says, and nothing
   but its SSL object is left of the verification; a failed one leaves nothing. *)
VerifiedAndFreed ==
    /\ conn = "open" => /\ cfg = "insecure" \/ (cfg # "none" /\ server = Pinned)
                        /\ owned = {"ssl"}
    /\ conn \in {"none", "failed"} => owned = {}

(* However the calls cut the buffer, what went over is its beginning, in order,
   once each, and all of it when the caller is told so. *)
WholeOrError ==
    /\ \A i \in 1..Len(wire) : wire[i] = i
    /\ io = "write" => Len(wire) = total
    /\ io = "read" => \A i \in 1..total : buf[i] = i
    /\ io = "done" => Len(wire) = Length \/ \A i \in 1..Length : buf[i] = i
=============================================================================

-------------------------------- MODULE MCParts --------------------------------
(* The parts that share no state with another module (InputQueue, TileCodec,
   ToplevelLife with Decoration, TlsClient), one of them at a time, in one
   instance. *)
EXTENDS InputQueue, MCTileCodec, ToplevelLife, TlsClient

VARIABLE part

partsVars == <<part, queueVars, vars, topVars, tlsVars>>

PartsInit == /\ part \in {"queue", "codec", "toplevel", "tls"}
             /\ QueueInit /\ Init /\ TopInit /\ TlsInit
             /\ part # "tls" => cfg = "none" /\ server = NoCert

PartsNext ==
    /\ UNCHANGED part
    /\ \/ part = "queue" /\ QueueNext /\ UNCHANGED <<vars, topVars, tlsVars>>
       \/ part = "codec" /\ Next /\ UNCHANGED <<queueVars, topVars, tlsVars>>
       \/ part = "toplevel" /\ TopNext /\ UNCHANGED <<queueVars, vars, tlsVars>>
       \/ part = "tls" /\ TlsNext /\ UNCHANGED <<queueVars, vars, topVars>>

(* In a behaviour of another part the queue stays as it began, where neither
   fair step is enabled. *)
PartsSpec == PartsInit /\ [][PartsNext]_partsVars /\ QueueFairness
=============================================================================

---------------------------- MODULE Publication ----------------------------
(***************************************************************************)
(* What an import promises its readers: a database and the checksum file   *)
(* of that database, replaced together.  An import that reports success    *)
(* has published the newest normalization; one that reports failure has    *)
(* changed nothing, or all.  An import that is cut off may take either     *)
(* file away, but it never pairs a database with another one's checksums.  *)
(***************************************************************************)
EXTENDS Naturals

CONSTANT MaxSource      \* how often the dataset is normalized (bounds the model)

VARIABLES
    source,     \* the generation of the normalized dataset, 0 for none
    database,   \* the published database's generation, 0 for none
    checksums,  \* and the one the published checksum file is about
    outcome     \* of the last import

publicationVars == <<source, database, checksums, outcome>>

Pair == <<database, checksums>>

Init ==
    /\ source = 0
    /\ Pair = <<0, 0>>
    /\ outcome = "none"

\* The dataset is normalized again, from raw input that only grows.
Refresh ==
    /\ source' \in source..MaxSource
    /\ UNCHANGED <<database, checksums, outcome>>

Publish(reported) ==
    /\ source > 0
    /\ Pair' = <<source, source>>
    /\ outcome' = reported

Succeed == Publish("ok") /\ UNCHANGED source

\* The import fails before, or only after, it has published.
Fail ==
    /\ Publish("error") \/ (outcome' = "error" /\ UNCHANGED Pair)
    /\ UNCHANGED source

\* What a reader may find when an import was cut off.
Remnants ==
    {p \in {0, database, source} \X {0, checksums, source} :
        p[1] # 0 /\ p[2] # 0 => p[1] = p[2]}

CutOff ==
    /\ Pair' \in Remnants
    /\ outcome' \in {"signal", "kill", "broken"}
    /\ UNCHANGED source

Next == Refresh \/ Succeed \/ Fail \/ CutOff

Spec == Init /\ [][Next]_publicationVars
=============================================================================

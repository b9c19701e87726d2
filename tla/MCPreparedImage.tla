-------------------------- MODULE MCPreparedImage --------------------------
(* Two runs, one of them for two versions on one platform, on one daemon. *)
EXTENDS PreparedImage

MCTransports == {"a", "b", "c"}
MCClients == {"one", "two"}
MCClient == [t \in MCTransports |-> IF t = "c" THEN "two" ELSE "one"]
MCPlatform == [t \in MCTransports |-> IF t = "c" THEN "arm64" ELSE "amd64"]
MCVersion == [t \in MCTransports |-> IF t = "b" THEN "v2" ELSE "v1"]

Image(family, manager, needs, foreign, known, shell) ==
  [family |-> family, manager |-> manager, needs |-> needs,
   foreign |-> foreign, known |-> known, shell |-> shell]

\* A complete image; one without a shell; an rpm image lacking three libraries;
\* deb images lacking an architecture with a library, a library and a newer C
\* library, and two libraries.
Complete == Image("deb", "apt-get", <<>>, FALSE, {}, TRUE)
MCImages ==
  { Complete, Image("other", "none", <<>>, FALSE, {}, FALSE),
    Image("rpm", "dnf", <<"dbus", "nsl", "z">>, FALSE, {}, TRUE),
    Image("deb", "apt-get", <<Interpreter, "dbus">>, TRUE, {"dbus"}, TRUE),
    Image("deb", "apt-get", <<"dbus", Unnamed>>, FALSE, {"dbus"}, TRUE) }
MCTwoLibraries == {Image("deb", "apt-get", <<"dbus", "z">>, FALSE, {"dbus", "z"}, TRUE)}

\* What the daemon has and how it stores it matters to the pulls, which do not
\* look into the image: only the complete one is combined with what a daemon has.
\* One without a shell meets a daemon that has nothing of it, and no trouble; one
\* that lacks something a daemon with its aliases and no prepared image.
MCInit == /\ Init
          /\ IF kind = Complete
             THEN plain # None /\ (indexed => \A p \in Platforms : alias[p] # None)
             ELSE /\ ~ indexed
                  /\ IF kind.shell THEN \A p \in Platforms : alias[p] # None ELSE plain = None
MCNext == Next /\ (kind.shell \/ UNCHANGED trouble)
MCSpec == MCInit /\ [][MCNext]_vars /\ WF_vars(Work)
=============================================================================

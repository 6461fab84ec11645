---------------------------- MODULE SandboxService ----------------------------
(* backend/services/sandbox_service.go: the calls the worker makes on Docker. *)
(* A container is its name, bench-sub-<id>, which Docker keeps unique; it     *)
(* exists from ContainerCreate to ContainerRemove, running or not.            *)
EXTENDS PlatformState

\* Something is wrong with Docker or with the context the call is given.
DockerFails == "docker" \in Faults \/ proc = "stopping"

\* BuildImage needs the staged files.  It can always fail: the contestant's
\* code, its dependencies and the five-minute limit decide.
BuildCanSucceed(s) == proc = "up" /\ s \in staged

\* LaunchContainer succeeds: the name was free, create, start and inspect work.
LaunchOk(s) ==
  /\ proc = "up"
  /\ s \notin containers
  /\ containers' = containers \cup {s}

\* LaunchContainer fails and leaves nothing: the name is taken, create is
\* refused, or start fails (the image's own entrypoint) and the container is
\* removed again.
LaunchFails == UNCHANGED containers

\* LaunchContainer fails after create: inspect failed, or start and the
\* removal that follows it.  Nobody holds the id of the container any more.
LaunchLeaks(s) ==
  /\ DockerFails
  /\ s \notin containers
  /\ containers' = containers \cup {s}

\* TearDown ignores the errors of the three calls it makes.
TearDown(s) ==
  \/ /\ proc = "up"
     /\ containers' = containers \ {s}
  \/ /\ DockerFails
     /\ UNCHANGED containers

=============================================================================

----------------------------- MODULE ImageBuild ----------------------------
(***************************************************************************)
(* Building the image of one service: where its context and Dockerfile     *)
(* are, and what comes of the `docker buildx build` process.  A path is a  *)
(* sequence of names; the file system gives every path that leads anywhere *)
(* the canonical path of what is there, with links and ".." resolved.      *)
(***************************************************************************)
EXTENDS Naturals, Sequences, SequencesExt

CONSTANT Tree  \* the file system: a record real, file for each path

Within(path, dir) == IsPrefix(dir, path)

(* join_project_relative.                                                  *)
Join(dir, value) == IF value.absolute THEN value.names ELSE dir \o value.names

Unresolved(error) == [error |-> error, context |-> <<>>, dockerfile |-> <<>>]

(* resolve_build_inputs; `project` is the canonical project directory.     *)
resolve_build_inputs(project, build) ==
  LET context == Join(project, build.context)
      context_dir == Tree[context].real
      path == Join(context_dir, build.dockerfile)
      dockerfile == Tree[path].real
  IN  IF context \notin DOMAIN Tree THEN Unresolved("Context")
      ELSE IF ~Within(context_dir, project) THEN Unresolved("ContextEscapesProject")
      ELSE IF path \notin DOMAIN Tree THEN Unresolved("Dockerfile")
      ELSE IF ~Within(dockerfile, context_dir) THEN Unresolved("DockerfileEscapesContext")
      ELSE [error |-> "none", context |-> context_dir, dockerfile |-> dockerfile]

(* validate_dockerfile_source.                                             *)
DockerfileValid(dockerfile, build) == Tree[dockerfile].file /\ build.targetValid

(* BuildxProcessBuildEngine::build.  `process` is what became of the       *)
(* process; a cancellation is noticed before it is launched and when it is *)
(* over, and a build without a tag is refused only after it was made.      *)
BuildError(tag, noTag, process, cancelled) ==
  IF cancelled THEN "Cancelled"
  ELSE IF process = "unlaunched" THEN "Launch"
  ELSE IF process = "failed" THEN "ProcessFailed"
  ELSE IF tag = noTag THEN "MissingImageIdentity"
  ELSE "none"
=============================================================================

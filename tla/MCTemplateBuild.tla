--------------------------- MODULE MCTemplateBuild ---------------------------
(* A small instance of TemplateBuild: two builds, one Dockerfile.          *)
EXTENDS TemplateBuild

MCBuilds == {1, 2}
MCTexts == STRING
MCSources == {"a"}
MCItems == {<<"a">>}
MCDockerfiles ==
  {<<Line("FROM", << >>), Line("ADD", <<"a", "other">>),
     Line("EXPOSE", <<"port">>), Line("RUN", << >>), Line("USER", <<"me">>),
     Line("ENV", <<"=value">>), Line("ENV", <<"key", "value">>),
     Line("CMD", <<"run">>)>>}
==============================================================================

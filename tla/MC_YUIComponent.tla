---------------------------- MODULE MC_YUIComponent ----------------------------
EXTENDS YUIComponent

\* no options, --nothreads, a --macro without its file, and a --macro that
\* takes "--nothreads" for its file
MC_Argvs == {<<>>, <<"--nothreads">>, <<"--macro">>, <<"--macro", "--nothreads">>}
=============================================================================

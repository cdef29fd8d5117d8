---------------------------- MODULE MCCommandLine ---------------------------
EXTENDS CommandLine

\* "quit", as short as a word with a u in second place can be, its
\* first byte one that is a command elsewhere.
MCQuitWord == <<"S", "u">>
=============================================================================

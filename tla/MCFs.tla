-------------------------------- MODULE MCFs --------------------------------
EXTENDS Fs

\* A directory with two entries, each a file or a directory; and one level more.
Tree == {<<"d">>, <<"d", "e">>, <<"d", "g">>}
DeepTree == Tree \cup {<<"d", "e", "f">>}

=============================================================================

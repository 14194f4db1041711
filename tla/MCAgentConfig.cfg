\* Every command line over the ID and WorkDir flags and every config file over
\* the modelled fields.
SPECIFICATION Spec
INVARIANT TypeOK InputOverFileOverDefault

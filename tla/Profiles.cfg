\* A section public by default and one private by default; two fetches.
CONSTANTS
    Sections = {projects, locations}
    PrivateByDefault = {locations}
    Filled = {projects, locations}
    MaxFetches = 2
SPECIFICATION Spec
INVARIANT PhotoFresh
PROPERTY SeenAsChosen

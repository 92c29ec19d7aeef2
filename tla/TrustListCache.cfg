\* The cache against the docstring of fetch.
SPECIFICATION Spec
CONSTANT MaxFetches = 3
PROPERTY ReusesCached
